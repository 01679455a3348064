------------------------- MODULE CircuitBreakerProofs -------------------------
(***************************************************************************)
(* Proofs about CircuitBreaker for every number of callers and every        *)
(* configuration: type correctness, room in Half-Open, published mirrors,   *)
(* the irrelevance of results of earlier regimes, the truth of the events   *)
(* OnStateChange is told, the age of what is counted together and the       *)
(* promptness of trips.                                                     *)
(***************************************************************************)
EXTENDS CircuitBreaker, SequenceTheorems, TLAPS

-----------------------------------------------------------------------------
(* The guarded fields.                                                      *)

Fields == [state : States, generation : Nat, counts : CountsType, expiry : Nat,
           window : WindowSet, pending : Seq(SyncSet)]

\* The numeric parameters.
LEMMA ConfigTyped ==
  /\ MaxRequests \in Nat \ {0} /\ Interval \in Nat /\ Timeout \in Nat
  /\ CountModulus \in Nat \ {0} /\ MaxRequests < CountModulus
BY ConfigAssumption

\* What % yields on naturals.
LEMMA ModRange == ASSUME NEW a \in Nat, NEW n \in Nat \ {0}
                  PROVE  a % n \in 0..(n - 1)
  OBVIOUS

\* Counting keeps every counter inside its width.
LEMMA CountsTyped ==
  ASSUME NEW c \in CountsType
  PROVE  /\ CountsOnSuccess(c) \in CountsType
         /\ CountsOnFailure(c) \in CountsType
<1>1. CountModulus \in Nat \ {0}
  BY ConfigAssumption
<1>2. \A n \in Counter : Inc(n) \in Counter
  BY <1>1, ModRange DEF Inc, Counter
<1>3. 0 \in Counter
  BY <1>1 DEF Counter
<1> QED
  BY <1>2, <1>3 DEF CountsType, CountsOnSuccess, CountsOnFailure

\* What a regime starts with.
LEMMA FreshTyped == NoCounts \in CountsType /\ NewWindow \in WindowSet
<1>1. NoCounts \in CountsType
  BY ConfigTyped DEF NoCounts, CountsType, Counter
<1>2. CASE WindowType = "count"
  BY <1>1, <1>2, ConfigAssumption DEF NewWindow, NewCountWindow, WindowSet, Slots
<1>3. CASE WindowType = "time"
  BY <1>1, <1>3 DEF NewWindow, NewTimeWindow, WindowSet, EmptyBucket
<1>4. CASE WindowType = "disabled"
  BY <1>1, <1>4 DEF NewWindow, WindowSet
<1> QED BY <1>2, <1>3, <1>4, ConfigAssumption

\* A window with one more outcome is a window.
LEMMA WindowTyped ==
  ASSUME NEW w \in WindowSet, NEW success \in BOOLEAN, NEW now \in Nat
  PROVE  WindowRecord(w, success, now) \in WindowSet
<1> DEFINE n == WindowSize
<1>n. n \in Nat \ {0}
  BY ConfigAssumption
<1>1. CASE WindowType = "count"
  <2>1. w \in [outcomes : [Slots(n) -> BOOLEAN], next : Slots(n), filled : 0..n, failures : Int]
    BY <1>1 DEF WindowSet
  <2>3. (w.next + 1) % n \in Slots(n)
    <3>1. w.next + 1 \in Nat
      BY <2>1, <1>n DEF Slots
    <3> HIDE DEF n
    <3> QED BY <3>1, <1>n, ModRange DEF Slots
  <2>4. CountRecord(w, n, success) \in WindowSet
    BY <1>1, <1>n, <2>1, <2>3 DEF CountRecord, WindowSet
  <2> QED BY <1>1, <2>4 DEF WindowRecord
<1>2. CASE WindowType = "time"
  <2> DEFINE e == Unix(now)
  <2>1. w \in [Slots(n) -> [epoch : Int, calls : Nat, failures : Nat]]
    BY <1>2 DEF WindowSet
  <2>3. e \in Nat
    BY ConfigAssumption DEF Unix
  <2>4. e % n \in Slots(n)
    BY <2>3, <1>n, ModRange DEF Slots
  <2>5. BucketFor(w, n, e) \in [epoch : Int, calls : Nat, failures : Nat]
    BY <2>1, <2>3, <2>4 DEF BucketFor, EmptyBucket
  <2>6. TimeRecord(w, n, success, e) \in WindowSet
    <3> DEFINE b == BucketFor(w, n, e)
    <3>0. b \in [epoch : Int, calls : Nat, failures : Nat]
      BY <2>5
    <3> HIDE DEF b
    <3> DEFINE k == b.calls + 1
               f == b.failures + (IF success THEN 0 ELSE 1)
               r == [b EXCEPT !.calls = k, !.failures = f]
    <3>k. k \in Nat /\ f \in Nat
      BY <3>0
    <3> HIDE DEF k, f
    <3>1. r \in [epoch : Int, calls : Nat, failures : Nat]
      BY <3>0, <3>k
    <3>2. TimeRecord(w, n, success, e) = [w EXCEPT ![e % n] = r]
      BY DEF TimeRecord, b, k, f
    <3> HIDE DEF r
    <3> QED BY <1>2, <2>1, <2>4, <3>1, <3>2 DEF WindowSet
  <2> QED BY <1>2, <2>6 DEF WindowRecord
<1>3. CASE WindowType = "disabled"
  BY <1>3 DEF WindowRecord, WindowSet
<1> QED BY <1>1, <1>2, <1>3, ConfigAssumption

-----------------------------------------------------------------------------
(* The critical sections keep the fields well typed, keep room in Half-Open *)
(* and announce every change of state, expiry or generation.                *)

Room(b) == b.state = "halfOpen" =>
             /\ b.counts.Requests < MaxRequests
             /\ b.counts.ConsecutiveSuccesses = b.counts.Requests
             /\ b.counts.TotalFailures = 0

\* s is the sync that publishes the fields of b.
Shows(s, b) == s.gen = b.generation /\ s.expiry = b.expiry /\ s.state = b.state

\* b evolved from the published fields a: either nothing the mirrors show has
\* changed, or the last pending sync shows b; no sync is ahead of b.
Announced(a, b) ==
  /\ b.generation >= a.generation
  /\ \A i \in 1..Len(b.pending) : b.pending[i].gen <= b.generation
  /\ IF b.pending = <<>>
     THEN b.generation = a.generation /\ b.expiry = a.expiry /\ b.state = a.state
     ELSE Shows(b.pending[Len(b.pending)], b)

Good(a, b) == b \in Fields /\ Room(b) /\ Announced(a, b)

\* Events are events.
LEMMA EventTyped ==
  ASSUME NEW from \in States, NEW to \in States
  PROVE  Event(from, to) \in EventSet \cup {NoEvent} /\ NoEvent \in EventSet \cup {NoEvent}
BY DEF Event, EventSet

\* Publishing announces the fields whatever they are.
LEMMA PublishGood ==
  ASSUME NEW a \in Fields, NEW b \in Fields, NEW ev \in EventSet \cup {NoEvent},
         Room(b), b.generation >= a.generation,
         \A i \in 1..Len(b.pending) : b.pending[i].gen <= b.generation
  PROVE  /\ Good(a, Publish(b, ev))
         /\ Publish(b, ev).generation = b.generation
         /\ Publish(b, ev).state = b.state
<1> DEFINE s == [gen |-> b.generation, expiry |-> b.expiry, state |-> b.state, event |-> ev]
           p == Publish(b, ev)
<1>1. s \in SyncSet
  BY DEF SyncSet, Fields
<1>2. b.pending \in Seq(SyncSet)
  BY DEF Fields
<1>3. p = [b EXCEPT !.pending = Append(b.pending, s)]
  BY DEF Publish
<1> HIDE DEF s
<1>4. /\ Append(b.pending, s) \in Seq(SyncSet)
      /\ Len(Append(b.pending, s)) = Len(b.pending) + 1
      /\ Append(b.pending, s)[Len(b.pending) + 1] = s
      /\ \A i \in 1..Len(b.pending) : Append(b.pending, s)[i] = b.pending[i]
      /\ Append(b.pending, s) # <<>>
      /\ Len(b.pending) \in Nat
  BY <1>1, <1>2
<1>5. /\ p \in Fields
      /\ p.pending = Append(b.pending, s) /\ p.state = b.state /\ p.counts = b.counts
      /\ p.generation = b.generation /\ p.expiry = b.expiry
  BY <1>3, <1>4 DEF Fields
<1>6. Room(p)
  BY <1>5 DEF Room
<1>7. s.gen = b.generation /\ s.expiry = b.expiry /\ s.state = b.state
  BY DEF s
<1>8. \A i \in 1..Len(p.pending) : p.pending[i].gen <= p.generation
  <2> SUFFICES ASSUME NEW i \in 1..(Len(b.pending) + 1)
               PROVE  Append(b.pending, s)[i].gen <= b.generation
    BY <1>4, <1>5
  <2>1. CASE i = Len(b.pending) + 1
    BY <2>1, <1>4, <1>7 DEF Fields
  <2>2. CASE i \in 1..Len(b.pending)
    BY <2>2, <1>4
  <2> QED BY <2>1, <2>2, <1>4
<1>9. Announced(a, p)
  BY <1>4, <1>5, <1>7, <1>8 DEF Announced, Shows
<1> QED BY <1>5, <1>6, <1>9 DEF Good

\* setState.
LEMMA SetStateGood ==
  ASSUME NEW a \in Fields, NEW b \in Fields, NEW now \in Nat, NEW new \in States,
         b.state = new => Good(a, b),
         b.generation >= a.generation,
         \A i \in 1..Len(b.pending) : b.pending[i].gen <= b.generation
  PROVE  Good(a, SetState(b, new, now))
<1>1. CASE b.state = new
  BY <1>1 DEF SetState
<1>2. CASE b.state # new
  <2> DEFINE e == Entered(b, new, now)
  <2>1. /\ e \in Fields
        /\ e.generation = b.generation + 1 /\ e.state = new
        /\ e.counts = NoCounts /\ e.pending = b.pending
    <3>1. NoCounts \in CountsType /\ NewWindow \in WindowSet
      BY FreshTyped
    <3>2. NewExpiry(b.expiry, new, now) \in Nat
      <4>1. b.expiry \in Nat
        BY DEF Fields
      <4>2. new \in {"closed", "open", "halfOpen"}
        BY DEF States
      <4> QED BY <4>1, <4>2, ConfigTyped DEF NewExpiry
    <3> DEFINE x == NewExpiry(b.expiry, new, now)
               g == b.generation + 1
    <3>3. e = [b EXCEPT !.state = new, !.generation = g, !.counts = NoCounts,
                        !.window = NewWindow, !.expiry = x]
      BY DEF Entered
    <3>4. x \in Nat /\ g \in Nat
      BY <3>2 DEF Fields
    <3> HIDE DEF e, x, g
    <3>5. /\ e \in Fields /\ e.generation = g /\ e.state = new
          /\ e.counts = NoCounts /\ e.pending = b.pending
      BY <3>1, <3>3, <3>4 DEF Fields
    <3> QED BY <3>5 DEF g
  <2>2. Room(e)
    BY <2>1, ConfigTyped DEF Room, NoCounts
  <2>3. /\ b.generation \in Nat /\ a.generation \in Nat
        /\ \A i \in 1..Len(b.pending) : b.pending[i].gen \in Nat
    <3>1. b.pending \in Seq(SyncSet) /\ b.generation \in Nat /\ a.generation \in Nat
      BY DEF Fields
    <3>2. \A i \in 1..Len(b.pending) : b.pending[i] \in SyncSet
      BY <3>1
    <3> QED BY <3>1, <3>2 DEF SyncSet
  <2>4. /\ e.generation >= a.generation
        /\ \A i \in 1..Len(e.pending) : e.pending[i].gen <= e.generation
    BY <2>1, <2>3
  <2>5. Event(b.state, new) \in EventSet \cup {NoEvent}
    BY EventTyped DEF Fields
  <2>6. Good(a, Publish(e, Event(b.state, new)))
    <3> HIDE DEF e
    <3> QED BY <2>1, <2>2, <2>4, <2>5, PublishGood
  <2> QED BY <1>2, <2>6 DEF SetState
<1> QED BY <1>1, <1>2

WithEvidence(b, k, w) == [b EXCEPT !.counts = k, !.window = w]

\* Changing only the evidence announces nothing and needs no announcement.
LEMMA Recounted ==
  ASSUME NEW a \in Fields, NEW b \in Fields, Good(a, b),
         NEW k \in CountsType, NEW w \in WindowSet,
         NEW c, c = WithEvidence(b, k, w)
  PROVE  /\ c \in Fields /\ Announced(a, c)
         /\ c.state = b.state /\ c.counts = k /\ c.generation = b.generation
         /\ c.generation >= a.generation
         /\ \A i \in 1..Len(c.pending) : c.pending[i].gen <= c.generation
<1>1. /\ c \in Fields /\ c.state = b.state /\ c.counts = k /\ c.generation = b.generation
      /\ c.expiry = b.expiry /\ c.pending = b.pending
  BY DEF Fields, WithEvidence
<1>2. Announced(a, c)
  BY <1>1 DEF Good, Announced, Shows
<1> QED
  BY <1>1, <1>2 DEF Announced

\* A closed breaker has no room to lose: its evidence may change freely.
LEMMA ClosedRecounted ==
  ASSUME NEW a \in Fields, NEW b \in Fields, Good(a, b), b.state = "closed",
         NEW k \in CountsType, NEW w \in WindowSet,
         NEW c, c = WithEvidence(b, k, w)
  PROVE  c \in Fields /\ Good(a, c)
<1>1. c \in Fields /\ Announced(a, c) /\ c.state = "closed"
  BY Recounted
<1> QED BY <1>1 DEF Good, Room

\* currentState.
LEMMA CurrentStateGood ==
  ASSUME NEW a \in Fields, NEW b \in Fields, Good(a, b), NEW now \in Nat
  PROVE  Good(a, CurrentState(b, now))
<1>0. /\ b.generation >= a.generation
      /\ \A i \in 1..Len(b.pending) : b.pending[i].gen <= b.generation
  BY DEF Good, Announced
<1>1. CASE b.state = "closed" /\ Interval > 0 /\ b.expiry < now
  <2> DEFINE x == now + Interval
             c == [b EXCEPT !.counts = NoCounts, !.expiry = x]
  <2>1. x \in Nat /\ NoCounts \in CountsType
    BY ConfigTyped, FreshTyped
  <2> HIDE DEF x
  <2>2. /\ c \in Fields /\ c.state = "closed" /\ c.generation = b.generation
        /\ c.pending = b.pending
    BY <1>1, <2>1 DEF Fields
  <2>3. Room(c)
    BY <2>2 DEF Room
  <2>4. NoEvent \in EventSet \cup {NoEvent}
    OBVIOUS
  <2>5. CurrentState(b, now) = Publish(c, NoEvent)
    BY <1>1 DEF CurrentState, x
  <2> HIDE DEF c
  <2> QED BY <1>0, <2>2, <2>3, <2>4, <2>5, PublishGood
<1>2. CASE b.state = "open" /\ b.expiry < now
  <2>1. CurrentState(b, now) = SetState(b, "halfOpen", now)
    BY <1>2 DEF CurrentState
  <2>2. "halfOpen" \in States /\ b.state # "halfOpen"
    BY <1>2 DEF States
  <2> QED BY <2>1, <2>2, <1>0, SetStateGood
<1>3. CASE /\ ~(b.state = "closed" /\ Interval > 0 /\ b.expiry < now)
           /\ ~(b.state = "open" /\ b.expiry < now)
  BY <1>3 DEF CurrentState
<1> QED BY <1>1, <1>2, <1>3

\* A trip, when it is due.
LEMMA TripGood ==
  ASSUME NEW a \in Fields, NEW b \in Fields, Good(a, b), NEW now \in Nat, NEW due
  PROVE  Good(a, TripIfDue(b, due, now))
<1>1. Good(a, SetState(b, "open", now))
  BY SetStateGood DEF States, Good, Announced
<1> QED BY <1>1 DEF TripIfDue

\* onSuccess.
LEMMA OnSuccessGood ==
  ASSUME NEW a \in Fields, NEW b \in Fields, Good(a, b), NEW now \in Nat
  PROVE  Good(a, OnSuccess(b, now))
<1> DEFINE k == CountsOnSuccess(b.counts)
           w == WindowRecord(b.window, TRUE, now)
<1>0. b.counts \in CountsType /\ b.window \in WindowSet
  BY DEF Fields
<1>k. k \in CountsType /\ w \in WindowSet
  BY <1>0, CountsTyped, WindowTyped
<1>1. CASE b.state = "closed"
  <2> DEFINE c == [b EXCEPT !.counts = k, !.window = w]
  <2>1. OnSuccess(b, now) = TripIfDue(c, UsesWindow /\ WindowTrips(c.window, now), now)
    BY <1>1 DEF OnSuccess
  <2> HIDE DEF k, w
  <2>2. c = WithEvidence(b, k, w)
    BY DEF WithEvidence
  <2> HIDE DEF c
  <2>3. c \in Fields /\ Good(a, c)
    BY <1>1, <1>k, <2>2, ClosedRecounted
  <2> QED BY <2>1, <2>3, TripGood
<1>2. CASE b.state = "halfOpen"
  <2> DEFINE c == [b EXCEPT !.counts = k]
  <2>1. OnSuccess(b, now) = IF TrialsPassed(c.counts) THEN SetState(c, "closed", now) ELSE c
    BY <1>2 DEF OnSuccess
  <2>2. /\ k.Requests = b.counts.Requests + 1
        /\ k.ConsecutiveSuccesses = b.counts.Requests + 1
        /\ k.TotalFailures = 0
    <3>1. /\ b.counts.Requests \in Nat /\ b.counts.Requests < MaxRequests
          /\ b.counts.ConsecutiveSuccesses = b.counts.Requests /\ b.counts.TotalFailures = 0
      BY <1>0, <1>2 DEF Good, Room, CountsType, Counter
    <3>2. Inc(b.counts.Requests) = b.counts.Requests + 1
      BY <3>1, ConfigTyped DEF Inc
    <3> QED BY <3>1, <3>2, <1>0 DEF CountsOnSuccess, CountsType
  <2> HIDE DEF k
  <2>3. c = WithEvidence(b, k, b.window)
    BY DEF Fields, WithEvidence
  <2> HIDE DEF c
  <2>4. /\ c \in Fields /\ c.state = "halfOpen" /\ Announced(a, c) /\ c.counts = k
        /\ c.generation >= a.generation
        /\ \A i \in 1..Len(c.pending) : c.pending[i].gen <= c.generation
    BY <1>0, <1>2, <1>k, <2>3, Recounted
  <2>5. CASE TrialsPassed(c.counts)
    BY <2>1, <2>4, <2>5, SetStateGood DEF States
  <2>6. CASE ~TrialsPassed(c.counts)
    <3>1. k.ConsecutiveSuccesses < MaxRequests
      BY <2>4, <2>6, <1>k, ConfigTyped DEF TrialsPassed, CountsType, Counter
    <3>2. Room(c)
      BY <2>2, <2>4, <3>1 DEF Room
    <3> QED BY <2>1, <2>4, <2>6, <3>2 DEF Good
  <2> QED BY <2>5, <2>6
<1>3. CASE b.state \notin {"closed", "halfOpen"}
  BY <1>3 DEF OnSuccess
<1> QED BY <1>1, <1>2, <1>3

\* onFailure.
LEMMA OnFailureGood ==
  ASSUME NEW a \in Fields, NEW b \in Fields, Good(a, b), NEW now \in Nat
  PROVE  Good(a, OnFailure(b, now))
<1>1. CASE b.state = "closed"
  <2> DEFINE k == CountsOnFailure(b.counts)
             w == WindowRecord(b.window, FALSE, now)
             c == [b EXCEPT !.counts = k, !.window = w]
             due == IF UsesWindow THEN WindowTrips(c.window, now) ELSE ReadyToTrip(c.counts)
  <2>1. OnFailure(b, now) = TripIfDue(c, due, now)
    BY <1>1 DEF OnFailure
  <2>2. k \in CountsType /\ w \in WindowSet
    BY CountsTyped, WindowTyped DEF Fields
  <2> HIDE DEF k, w, due
  <2>3. c = WithEvidence(b, k, w)
    BY DEF WithEvidence
  <2> HIDE DEF c
  <2>4. c \in Fields /\ Good(a, c)
    BY <1>1, <2>2, <2>3, ClosedRecounted
  <2> QED BY <2>1, <2>4, TripGood
<1>2. CASE b.state = "halfOpen"
  <2>1. OnFailure(b, now) = SetState(b, "open", now)
    BY <1>2 DEF OnFailure
  <2> QED BY <1>2, <2>1, SetStateGood DEF States, Good, Announced
<1>3. CASE b.state \notin {"closed", "halfOpen"}
  BY <1>3 DEF OnFailure
<1> QED BY <1>1, <1>2, <1>3

\* afterRequest, after currentState.
LEMMA SettleGood ==
  ASSUME NEW a \in Fields, NEW b \in Fields, Good(a, b), NEW now \in Nat,
         NEW gen \in Nat, NEW success \in BOOLEAN
  PROVE  Good(a, Settle(b, gen, success, now))
BY OnSuccessGood, OnFailureGood DEF Settle

\* Reset.
LEMMA ResetGood ==
  ASSUME NEW a \in Fields, NEW b \in Fields, Good(a, b), NEW now \in Nat
  PROVE  Good(a, ResetFields(b, now))
<1> DEFINE x == now + Interval
           g == b.generation + 1
           c == [b EXCEPT !.state = "closed", !.generation = g, !.counts = NoCounts,
                          !.window = NewWindow, !.expiry = x]
<1>1. ResetFields(b, now) = Publish(c, Event(b.state, "closed"))
  BY DEF ResetFields
<1>2. x \in Nat /\ g \in Nat /\ NoCounts \in CountsType /\ NewWindow \in WindowSet
  BY ConfigTyped, FreshTyped DEF Fields
<1>3. /\ g >= a.generation
      /\ \A i \in 1..Len(b.pending) : b.pending[i].gen <= g
  <2>1. b.pending \in Seq(SyncSet) /\ b.generation \in Nat /\ a.generation \in Nat
    BY DEF Fields
  <2>2. \A i \in 1..Len(b.pending) : b.pending[i] \in SyncSet
    BY <2>1
  <2>3. \A i \in 1..Len(b.pending) : b.pending[i].gen \in Nat
    BY <2>2 DEF SyncSet
  <2> QED BY <2>1, <2>3 DEF Good, Announced
<1>4. Event(b.state, "closed") \in EventSet \cup {NoEvent}
  BY EventTyped DEF Fields, States
<1> HIDE DEF x, g
<1>5. c \in Fields /\ c.state = "closed" /\ c.generation = g /\ c.pending = b.pending
  BY <1>2 DEF Fields, States
<1> HIDE DEF c
<1> QED BY <1>1, <1>3, <1>4, <1>5, PublishGood DEF Room

-----------------------------------------------------------------------------
(* The inductive invariant.                                                 *)

\* The lock is held exactly while something is pending; the mirrors show the
\* fields when nothing is, and otherwise as much of the first pending sync as
\* has been stored, the last pending sync being the one that shows the fields.
\* No mirror and no sync is ahead of the breaker's generation.
Published ==
  /\ (mu = Free) <=> (cb.pending = <<>>)
  /\ fast.gen <= cb.generation
  /\ \A i \in 1..Len(cb.pending) : cb.pending[i].gen <= cb.generation
  /\ cb.pending = <<>> => stage = "gen" /\ Shows(fast, cb)
  /\ cb.pending # <<>> =>
       /\ Shows(cb.pending[Len(cb.pending)], cb)
       /\ stage \in {"expiry", "state", "emit"} => fast.gen = cb.pending[1].gen
       /\ stage \in {"state", "emit"} => fast.expiry = cb.pending[1].expiry
       /\ stage = "emit" => /\ fast.state = cb.pending[1].state
                           /\ cb.pending[1].event # NoEvent

\* A running request carries a generation no younger than its admission, and
\* its admission is no younger than the breaker.
Admitted ==
  \A c \in Callers : call[c].pc = "running" =>
    call[c].gen <= call[c].adm /\ call[c].adm <= cb.generation

IInv == TypeOK /\ HalfOpenHasRoom /\ Published /\ Admitted

\* The invariant holds when the breaker is built.
LEMMA InitIInv == Init => IInv
<1> SUFFICES ASSUME Init PROVE IInv
  OBVIOUS
<1>1. cb \in Fields
  BY FreshTyped, ConfigTyped DEF Init, Fields, States
<1>2. TypeOK
  <2>1. call \in [Callers -> CallSet]
    BY DEF Init, CallSet
  <2>2. fast \in [gen : Nat, expiry : Nat, state : States]
    BY ConfigTyped DEF Init, States
  <2>3. queue \in Seq(EventSet)
    BY DEF Init
  <2> QED BY <1>1, <2>1, <2>2, <2>3 DEF Init, TypeOK, Fields, States
<1>3. HalfOpenHasRoom
  BY DEF Init, HalfOpenHasRoom
<1>4. Published
  BY ConfigTyped DEF Init, Published, Shows
<1>5. Admitted
  BY DEF Init, Admitted
<1> QED BY <1>2, <1>3, <1>4, <1>5 DEF IInv

\* Outside a critical section the fields are their own announcement.
LEMMA FreeIsGood ==
  ASSUME IInv, mu = Free
  PROVE  cb \in Fields /\ clock \in Nat /\ Good(cb, cb)
<1>1. cb \in Fields /\ clock \in Nat /\ cb.generation \in Nat
  BY DEF IInv, TypeOK, Fields
<1>2. cb.pending = <<>>
  BY DEF IInv, Published
<1>3. Room(cb)
  BY DEF IInv, HalfOpenHasRoom, Room
<1>4. Announced(cb, cb)
  BY <1>1, <1>2 DEF Announced
<1> QED BY <1>1, <1>3, <1>4 DEF Good

\* Entering and leaving a critical section.
LEMMA CriticalStep ==
  ASSUME IInv, NEW actor \in Callers \cup {Admin}, NEW b, Good(cb, b),
         Critical(actor, b), UNCHANGED <<stage, fast, clock, queue, disp, done, observed, lost>>,
         call' \in [Callers -> CallSet]
  PROVE  /\ TypeOK' /\ HalfOpenHasRoom' /\ Published'
         /\ cb'.generation >= cb.generation
<1>1. mu = Free /\ cb' = b /\ mu' = (IF b.pending = <<>> THEN Free ELSE actor)
  BY DEF Critical
<1>2. b \in Fields /\ Room(b) /\ Announced(cb, b)
  BY DEF Good
<1>3. actor # Free
  BY ActorAssumption DEF Free, Admin
<1>4. since' \in Nat
  BY DEF Critical, IInv, TypeOK
<1>5. TypeOK'
  BY <1>1, <1>2, <1>4 DEF IInv, TypeOK, Fields
<1>6. HalfOpenHasRoom'
  BY <1>1, <1>2 DEF HalfOpenHasRoom, Room
<1>7. cb.pending = <<>> /\ stage = "gen" /\ Shows(fast, cb)
  BY <1>1 DEF IInv, Published
<1>8. cb.generation \in Nat /\ b.generation \in Nat /\ fast.gen \in Nat
  BY <1>2 DEF IInv, TypeOK, Fields
<1>9. b.generation >= cb.generation /\ fast.gen <= b.generation
  BY <1>2, <1>7, <1>8 DEF Announced, Shows
<1>10. Published'
  BY <1>1, <1>2, <1>3, <1>7, <1>9 DEF Published, Announced, Shows
<1> QED BY <1>1, <1>5, <1>6, <1>9, <1>10

\* Admissions stay behind a generation that only grows.
LEMMA AdmittedStep ==
  ASSUME IInv, NEW c \in Callers, NEW r \in CallSet, call' = [call EXCEPT ![c] = r],
         cb'.generation \in Nat, cb'.generation >= cb.generation,
         r.pc = "running" => r.gen <= r.adm /\ r.adm <= cb'.generation
  PROVE  call' \in [Callers -> CallSet] /\ Admitted'
<1>1. call \in [Callers -> CallSet] /\ cb.generation \in Nat
  BY DEF IInv, TypeOK
<1>2. call' \in [Callers -> CallSet]
  BY <1>1
<1>3. ASSUME NEW d \in Callers, call'[d].pc = "running"
      PROVE  call'[d].gen <= call'[d].adm /\ call'[d].adm <= cb'.generation
  <2>1. CASE d = c
    BY <1>1, <1>3, <2>1
  <2>2. CASE d # c
    <3>1. call'[d] = call[d] /\ call[d] \in CallSet
      BY <1>1, <2>2
    <3>2. call[d].gen <= call[d].adm /\ call[d].adm <= cb.generation /\ call[d].adm \in Nat
      BY <1>3, <3>1 DEF IInv, Admitted, CallSet
    <3> QED BY <1>1, <3>1, <3>2
  <2> QED BY <2>1, <2>2
<1> QED BY <1>2, <1>3 DEF Admitted

\* Steps that touch nothing but one caller's local state.
LEMMA LocalStep ==
  ASSUME IInv, NEW c \in Callers, NEW r \in CallSet, call' = [call EXCEPT ![c] = r],
         r.pc = "running" => r.gen <= r.adm /\ r.adm <= cb.generation,
         UNCHANGED <<cb, mu, stage, fast, clock, since, chanVars>>
  PROVE  IInv'
<1>1. cb' = cb /\ cb.generation \in Nat
  BY DEF IInv, TypeOK
<1>a. /\ cb'.generation \in Nat /\ cb'.generation >= cb.generation
      /\ r.pc = "running" => r.gen <= r.adm /\ r.adm <= cb'.generation
  BY <1>1
<1>2. call' \in [Callers -> CallSet] /\ Admitted'
  BY <1>a, AdmittedStep
<1>3. TypeOK'
  BY <1>2 DEF IInv, TypeOK, chanVars
<1>4. HalfOpenHasRoom' /\ Published'
  BY DEF IInv, HalfOpenHasRoom, Published, Shows
<1> QED BY <1>2, <1>3, <1>4 DEF IInv

\* The lock-free path, and a panic in the protected function.
LEMMA FastPathStep ==
  ASSUME IInv, NEW c \in Callers, FastPath(c) \/ FnPanics(c)
  PROVE  IInv'
<1>0. /\ call[c] \in CallSet /\ call \in [Callers -> CallSet]
      /\ fast.gen \in Nat /\ clock \in Nat /\ cb.generation \in Nat
      /\ fast.gen <= cb.generation
  BY DEF IInv, TypeOK, Published
<1>1. ASSUME NEW pc \in {"slow", "now", "recheck", "gen"}, Goto(c, pc),
             UNCHANGED <<cb, mu, stage, fast, clock, since, chanVars>>
      PROVE  IInv'
  <2> DEFINE r == [call[c] EXCEPT !.pc = pc]
  <2>1. r \in CallSet /\ r.pc # "running"
    BY <1>0 DEF CallSet
  <2>2. call' = [call EXCEPT ![c] = r]
    BY <1>0, <1>1 DEF Goto
  <2> HIDE DEF r
  <2> QED BY <1>1, <2>1, <2>2, LocalStep
<1>2. CASE FastLoadState(c)
  BY <1>1, <1>2 DEF FastLoadState
<1>3. CASE FastReadClock(c)
  <2> DEFINE r == [call[c] EXCEPT !.pc = "expiry", !.now = clock]
  <2>1. r \in CallSet /\ r.pc # "running"
    BY <1>0 DEF CallSet
  <2>2. call' = [call EXCEPT ![c] = r]
    BY <1>0, <1>3 DEF FastReadClock
  <2> HIDE DEF r
  <2> QED BY <1>3, <2>1, <2>2, LocalStep DEF FastReadClock
<1>4. CASE FastLoadExpiry(c)
  <2> DEFINE q == IF call[c].now >= fast.expiry THEN "slow" ELSE "recheck"
             r == [call[c] EXCEPT !.pc = q, !.now = 0]
  <2>0. q \in {"slow", "recheck"}
    OBVIOUS
  <2>2. call' = [call EXCEPT ![c] = r]
    BY <1>0, <1>4 DEF FastLoadExpiry
  <2> HIDE DEF q
  <2>1. r \in CallSet /\ r.pc # "running"
    BY <1>0, <2>0 DEF CallSet
  <2> HIDE DEF r
  <2> QED BY <1>4, <2>1, <2>2, LocalStep DEF FastLoadExpiry
<1>5. CASE FastRecheck(c)
  BY <1>1, <1>5 DEF FastRecheck
<1>6. CASE FastLoadGen(c)
  <2> DEFINE r == [pc |-> "running", now |-> 0, gen |-> fast.gen,
                   adm |-> cb.generation]
  <2>1. r \in CallSet /\ r.gen <= r.adm /\ r.adm <= cb.generation
    BY <1>0 DEF CallSet
  <2>2. call' = [call EXCEPT ![c] = r]
    BY <1>6 DEF FastLoadGen
  <2> HIDE DEF r
  <2> QED BY <1>6, <2>1, <2>2, LocalStep DEF FastLoadGen
<1>7. CASE FnPanics(c)
  <2> DEFINE r == [pc |-> "idle", now |-> 0, gen |-> 0, adm |-> 0]
  <2>1. r \in CallSet /\ r.pc # "running"
    BY DEF CallSet
  <2>2. call' = [call EXCEPT ![c] = r]
    BY <1>7 DEF FnPanics
  <2> HIDE DEF r
  <2> QED BY <1>7, <2>1, <2>2, LocalStep DEF FnPanics
<1> QED BY <1>2, <1>3, <1>4, <1>5, <1>6, <1>7 DEF FastPath

\* beforeRequest.
LEMMA BeforeRequestStep ==
  ASSUME IInv, NEW c \in Callers, BeforeRequest(c)
  PROVE  IInv'
<1> DEFINE b == CurrentState(cb, clock)
           r == IF Rejects(b) THEN [call[c] EXCEPT !.pc = "idle"]
                ELSE [pc |-> "running", now |-> 0, gen |-> b.generation,
                      adm |-> b.generation]
<1>1. /\ Critical(c, b) /\ call' = [call EXCEPT ![c] = r]
      /\ UNCHANGED <<stage, fast, clock, queue, disp, done, observed, lost>>
  BY DEF BeforeRequest, chanVars
<1>2. Good(cb, b)
  BY <1>1, FreeIsGood, CurrentStateGood DEF Critical
<1>3. cb' = b /\ b.generation \in Nat /\ b.generation >= cb.generation
  BY <1>1, <1>2 DEF Critical, Good, Fields, Announced
<1>4. call \in [Callers -> CallSet] /\ call[c] \in CallSet
  BY DEF IInv, TypeOK
<1> HIDE DEF b
<1>5. r \in CallSet /\ (r.pc = "running" => r.gen <= r.adm /\ r.adm <= b.generation)
  <2>1. CASE Rejects(b)
    BY <1>4, <2>1 DEF CallSet
  <2>2. CASE ~Rejects(b)
    BY <1>3, <2>2 DEF CallSet
  <2> QED BY <2>1, <2>2
<1> HIDE DEF r
<1>6. call' \in [Callers -> CallSet] /\ Admitted'
  BY <1>1, <1>3, <1>5, AdmittedStep
<1>7. TypeOK' /\ HalfOpenHasRoom' /\ Published'
  BY <1>1, <1>2, <1>6, CriticalStep
<1> QED BY <1>6, <1>7 DEF IInv

\* afterRequest.
LEMMA AfterRequestStep ==
  ASSUME IInv, NEW c \in Callers, NEW success \in BOOLEAN, AfterRequest(c, success)
  PROVE  IInv'
<1> DEFINE d == CurrentState(cb, clock)
           b == Settle(d, call[c].gen, success, clock)
           r == [pc |-> "idle", now |-> 0, gen |-> 0, adm |-> 0]
<1>1. /\ Critical(c, b) /\ call' = [call EXCEPT ![c] = r]
      /\ UNCHANGED <<stage, fast, clock, queue, disp, done, observed, lost>>
  BY DEF AfterRequest, chanVars
<1>2. call[c].gen \in Nat
  BY DEF IInv, TypeOK, CallSet
<1>3. cb \in Fields /\ clock \in Nat /\ Good(cb, cb)
  BY <1>1, FreeIsGood DEF Critical
<1>4. Good(cb, d) /\ d \in Fields
  BY <1>3, CurrentStateGood DEF Good
<1> HIDE DEF d
<1>5. Good(cb, b)
  BY <1>2, <1>3, <1>4, SettleGood
<1>6. cb' = b /\ b.generation \in Nat /\ b.generation >= cb.generation
  BY <1>1, <1>5 DEF Critical, Good, Fields, Announced
<1> HIDE DEF b
<1>7. r \in CallSet /\ r.pc # "running"
  BY DEF CallSet
<1> HIDE DEF r
<1>8. call' \in [Callers -> CallSet] /\ Admitted'
  BY <1>1, <1>6, <1>7, AdmittedStep
<1>9. TypeOK' /\ HalfOpenHasRoom' /\ Published'
  BY <1>1, <1>5, <1>8, CriticalStep
<1> QED BY <1>8, <1>9 DEF IInv

\* State and Reset.
LEMMA AdminStep ==
  ASSUME IInv, State \/ Reset
  PROVE  IInv'
<1>1. PICK b \in {CurrentState(cb, clock), ResetFields(cb, clock)} :
        /\ Critical(Admin, b) /\ call' = call
        /\ UNCHANGED <<stage, fast, clock, queue, disp, done, observed, lost>>
  BY DEF State, Reset, chanVars
<1>2. cb \in Fields /\ clock \in Nat /\ Good(cb, cb)
  BY <1>1, FreeIsGood DEF Critical
<1>3. Good(cb, b)
  BY <1>2, CurrentStateGood, ResetGood
<1>4. call \in [Callers -> CallSet] /\ cb.generation \in Nat
  BY DEF IInv, TypeOK
<1>5. TypeOK' /\ HalfOpenHasRoom' /\ Published' /\ cb'.generation >= cb.generation
  BY <1>1, <1>3, <1>4, CriticalStep
<1>6. cb'.generation \in Nat
  BY <1>5 DEF TypeOK
<1>7. Admitted'
  <2> SUFFICES ASSUME NEW d \in Callers, call[d].pc = "running"
               PROVE  call[d].gen <= call[d].adm /\ call[d].adm <= cb'.generation
    BY <1>1 DEF Admitted
  <2>1. call[d].gen <= call[d].adm /\ call[d].adm <= cb.generation /\ call[d].adm \in Nat
    BY <1>4 DEF IInv, Admitted, CallSet
  <2> QED BY <1>4, <1>5, <1>6, <2>1
<1> QED BY <1>5, <1>7 DEF IInv

\* The publishing steps of the goroutine that holds the lock: what is pending
\* before the step, and the sync at its head.
LEMMA PendingFacts ==
  ASSUME IInv, cb.pending # <<>>
  PROVE  /\ cb.pending \in Seq(SyncSet) /\ Len(cb.pending) \in Nat \ {0}
         /\ Head(cb.pending) = cb.pending[1] /\ Head(cb.pending) \in SyncSet
         /\ Head(cb.pending).gen \in Nat /\ Head(cb.pending).expiry \in Nat
         /\ Head(cb.pending).state \in States
         /\ Head(cb.pending).gen <= cb.generation
         /\ mu # Free
<1>1. cb.pending \in Seq(SyncSet)
  BY DEF IInv, TypeOK
<1>2. /\ Len(cb.pending) \in Nat \ {0} /\ Head(cb.pending) = cb.pending[1]
      /\ Head(cb.pending) \in SyncSet
  BY <1>1
<1>3. /\ Head(cb.pending).gen \in Nat /\ Head(cb.pending).expiry \in Nat
      /\ Head(cb.pending).state \in States
  BY <1>2 DEF SyncSet
<1>4. Head(cb.pending).gen <= cb.generation /\ mu # Free
  BY <1>2 DEF IInv, Published
<1> QED BY <1>1, <1>2, <1>3, <1>4

\* Storing the generation or the expiry.
LEMMA StoreStep ==
  ASSUME IInv, StoreGen \/ StoreExpiry
  PROVE  IInv'
<1>0. cb.pending # <<>> /\ cb' = cb /\ mu' = mu /\ call' = call
  BY DEF StoreGen, StoreExpiry
<1>1. fast \in [gen : Nat, expiry : Nat, state : States]
  BY DEF IInv, TypeOK
<1>2. CASE StoreGen
  <2> DEFINE g == Head(cb.pending).gen
  <2>1. g \in Nat /\ g = cb.pending[1].gen /\ g <= cb.generation
    BY <1>0, PendingFacts
  <2>2. fast' = [fast EXCEPT !.gen = g] /\ stage' = "expiry"
    BY <1>2 DEF StoreGen
  <2> HIDE DEF g
  <2>3. fast' \in [gen : Nat, expiry : Nat, state : States] /\ fast'.gen = g
    BY <1>1, <2>1, <2>2
  <2>4. TypeOK'
    BY <1>2, <2>2, <2>3 DEF StoreGen, IInv, TypeOK, chanVars
  <2>5. Published'
    BY <1>0, <2>1, <2>2, <2>3 DEF IInv, Published, Shows
  <2> QED BY <1>0, <2>4, <2>5 DEF IInv, HalfOpenHasRoom, Admitted
<1>3. CASE StoreExpiry
  <2> DEFINE x == Head(cb.pending).expiry
  <2>1. x \in Nat /\ x = cb.pending[1].expiry
    BY <1>0, PendingFacts
  <2>2. fast' = [fast EXCEPT !.expiry = x] /\ stage = "expiry" /\ stage' = "state"
    BY <1>3 DEF StoreExpiry
  <2> HIDE DEF x
  <2>3. /\ fast' \in [gen : Nat, expiry : Nat, state : States]
        /\ fast'.expiry = x /\ fast'.gen = fast.gen
    BY <1>1, <2>1, <2>2
  <2>4. TypeOK'
    BY <1>3, <2>2, <2>3 DEF StoreExpiry, IInv, TypeOK, chanVars
  <2>5. Published'
    BY <1>0, <2>1, <2>2, <2>3 DEF IInv, Published, Shows
  <2> QED BY <1>0, <2>4, <2>5 DEF IInv, HalfOpenHasRoom, Admitted
<1> QED BY <1>2, <1>3

\* The tail of a non-empty sequence.
LEMMA TailFacts ==
  ASSUME NEW S, NEW q \in Seq(S), q # <<>>
  PROVE  /\ Tail(q) \in Seq(S) /\ Len(Tail(q)) = Len(q) - 1 /\ Len(q) \in Nat \ {0}
         /\ \A i \in 1..Len(Tail(q)) : Tail(q)[i] = q[i + 1]
         /\ (Tail(q) = <<>>) <=> (Len(q) = 1)
<1>1. Tail(q) \in Seq(S) /\ Len(Tail(q)) = Len(q) - 1 /\ Len(q) \in Nat \ {0}
  OBVIOUS
<1>2. \A i \in 1..Len(Tail(q)) : Tail(q)[i] = q[i + 1]
  BY <1>1
<1>3. (Tail(q) = <<>>) <=> (Len(Tail(q)) = 0)
  BY <1>1, EmptySeq
<1> QED BY <1>1, <1>2, <1>3

\* Popping a sync that has been stored completely.
LEMMA UnlockStep ==
  ASSUME IInv, cb.pending # <<>>, Unlocking, call' = call,
         fast' \in [gen : Nat, expiry : Nat, state : States],
         fast'.gen = cb.pending[1].gen, fast'.expiry = cb.pending[1].expiry,
         fast'.state = cb.pending[1].state
  PROVE  /\ cb' \in Fields /\ mu' \in Callers \cup {Free, Admin} /\ stage' = "gen"
         /\ HalfOpenHasRoom' /\ Published' /\ Admitted'
<1> DEFINE t == Tail(cb.pending)
<1>1. cb' = [cb EXCEPT !.pending = t] /\ stage' = "gen"
  BY DEF Unlocking
<1>2. cb \in Fields /\ mu \in Callers \cup {Free, Admin}
  BY DEF IInv, TypeOK, Fields
<1>3. /\ t \in Seq(SyncSet) /\ Len(t) = Len(cb.pending) - 1
      /\ \A i \in 1..Len(t) : t[i] = cb.pending[i + 1]
      /\ Len(cb.pending) \in Nat \ {0}
      /\ (t = <<>>) <=> (Len(cb.pending) = 1)
  BY PendingFacts, TailFacts
<1> HIDE DEF t
<1>4. /\ cb' \in Fields /\ cb'.pending = t /\ cb'.state = cb.state /\ cb'.counts = cb.counts
      /\ cb'.generation = cb.generation /\ cb'.expiry = cb.expiry
  BY <1>1, <1>2, <1>3 DEF Fields
<1>5. HalfOpenHasRoom' /\ Admitted'
  BY <1>4 DEF IInv, HalfOpenHasRoom, Admitted
<1>6. mu' \in Callers \cup {Free, Admin}
  BY <1>2 DEF Unlocking
<1>7. CASE Len(cb.pending) = 1
  <2>1. t = <<>> /\ mu' = Free /\ Len(t) = 0
    BY <1>3, <1>7 DEF Unlocking
  <2>2. Shows(cb.pending[1], cb)
    BY <1>7 DEF IInv, Published
  <2>3. fast'.gen <= cb.generation
    BY PendingFacts
  <2>4. Published'
    BY <1>1, <1>4, <2>1, <2>2, <2>3 DEF Published, Shows
  <2> QED BY <1>1, <1>4, <1>5, <1>6, <2>4
<1>8. CASE Len(cb.pending) # 1
  <2>1. t # <<>> /\ mu' = mu /\ mu # Free
    BY <1>3, <1>8, PendingFacts DEF Unlocking
  <2>2. t[Len(t)] = cb.pending[Len(cb.pending)]
    BY <1>3, <1>8
  <2>3. Shows(cb.pending[Len(cb.pending)], cb)
    BY DEF IInv, Published
  <2>4. fast'.gen <= cb.generation
    BY PendingFacts
  <2>5. \A i \in 1..Len(t) : t[i].gen <= cb.generation
    <3>1. \A i \in 1..Len(cb.pending) : cb.pending[i].gen <= cb.generation
      BY DEF IInv, Published
    <3> SUFFICES ASSUME NEW i \in 1..Len(t) PROVE t[i].gen <= cb.generation
      OBVIOUS
    <3>2. i + 1 \in 1..Len(cb.pending)
      BY <1>3
    <3>3. t[i] = cb.pending[i + 1]
      BY <1>3
    <3>4. cb.pending[i + 1].gen <= cb.generation
      BY <3>1, <3>2
    <3> QED BY <3>3, <3>4
  <2>6. Published'
    BY <1>1, <1>4, <2>1, <2>2, <2>3, <2>4, <2>5 DEF Published, Shows
  <2> QED BY <1>1, <1>4, <1>5, <1>6, <2>6
<1> QED BY <1>7, <1>8

\* Storing the state, which releases the lock unless there is an event to emit.
LEMMA StoreStateStep ==
  ASSUME IInv, StoreState
  PROVE  IInv'
<1> DEFINE st == Head(cb.pending).state
<1>1. cb.pending # <<>> /\ stage = "state" /\ call' = call
  BY DEF StoreState
<1>2. st \in States /\ st = cb.pending[1].state
  BY <1>1, PendingFacts
<1>3. fast' = [fast EXCEPT !.state = st] /\ fast \in [gen : Nat, expiry : Nat, state : States]
  BY DEF StoreState, IInv, TypeOK
<1> HIDE DEF st
<1>4. /\ fast' \in [gen : Nat, expiry : Nat, state : States]
      /\ fast'.gen = cb.pending[1].gen /\ fast'.expiry = cb.pending[1].expiry
      /\ fast'.state = cb.pending[1].state
  <2>1. fast.gen = cb.pending[1].gen /\ fast.expiry = cb.pending[1].expiry
    BY <1>1 DEF IInv, Published
  <2> QED BY <1>2, <1>3, <2>1
<1>5. CASE Head(cb.pending).event = NoEvent
  <2>1. Unlocking
    BY <1>5 DEF StoreState
  <2>2. /\ cb' \in Fields /\ mu' \in Callers \cup {Free, Admin} /\ stage' = "gen"
        /\ HalfOpenHasRoom' /\ Published' /\ Admitted'
    BY <1>1, <1>4, <2>1, UnlockStep
  <2>3. TypeOK'
    BY <1>4, <2>2 DEF StoreState, IInv, TypeOK, Fields, chanVars
  <2> QED BY <2>2, <2>3 DEF IInv
<1>6. CASE Head(cb.pending).event # NoEvent
  <2>1. stage' = "emit" /\ cb' = cb /\ mu' = mu
    BY <1>6 DEF StoreState
  <2>2. TypeOK'
    BY <1>4, <2>1 DEF StoreState, IInv, TypeOK, chanVars
  <2>3. cb.pending[1].event # NoEvent /\ fast'.gen <= cb.generation
    BY <1>1, <1>4, <1>6, PendingFacts
  <2>4. Published'
    BY <1>1, <1>4, <2>1, <2>3 DEF IInv, Published, Shows
  <2> QED BY <1>1, <2>1, <2>2, <2>4 DEF IInv, HalfOpenHasRoom, Admitted
<1> QED BY <1>5, <1>6

\* Emitting the event: it is sent or dropped, and the lock is released.
LEMMA EmitStep ==
  ASSUME IInv, EmitSend \/ EmitDrop
  PROVE  IInv'
<1>1. /\ cb.pending # <<>> /\ stage = "emit" /\ Unlocking
      /\ fast' = fast /\ call' = call /\ clock' = clock /\ since' = since
      /\ disp' = disp /\ done' = done /\ observed' = observed
  BY DEF EmitSend, EmitDrop
<1>2. /\ fast' \in [gen : Nat, expiry : Nat, state : States]
      /\ fast'.gen = cb.pending[1].gen /\ fast'.expiry = cb.pending[1].expiry
      /\ fast'.state = cb.pending[1].state
  BY <1>1 DEF IInv, TypeOK, Published
<1>3. /\ cb' \in Fields /\ mu' \in Callers \cup {Free, Admin} /\ stage' = "gen"
      /\ HalfOpenHasRoom' /\ Published' /\ Admitted'
  BY <1>1, <1>2, UnlockStep
<1>4. queue' \in Seq(EventSet) /\ lost' \in BOOLEAN
  <2>0. queue \in Seq(EventSet) /\ lost \in BOOLEAN
    BY DEF IInv, TypeOK
  <2>1. Head(cb.pending).event \in EventSet
    <3>1. Head(cb.pending) \in SyncSet /\ Head(cb.pending) = cb.pending[1]
      BY <1>1, PendingFacts
    <3>2. cb.pending[1].event # NoEvent
      BY <1>1 DEF IInv, Published
    <3> QED BY <3>1, <3>2 DEF SyncSet
  <2>2. CASE EmitSend
    BY <2>0, <2>1, <2>2 DEF EmitSend
  <2>3. CASE EmitDrop
    BY <2>0, <2>3 DEF EmitDrop
  <2> QED BY <2>2, <2>3
<1>5. TypeOK'
  BY <1>1, <1>2, <1>3, <1>4 DEF IInv, TypeOK, Fields
<1> QED BY <1>3, <1>5 DEF IInv

\* The dispatcher, Close and the clock leave the breaker alone.
LEMMA OutsideStep ==
  ASSUME IInv, Dispatcher \/ Close \/ Tick
  PROVE  IInv'
<1>1. UNCHANGED <<cb, mu, stage, fast, call, since>>
  BY DEF Dispatcher, Deliver, CallbackReturns, DispatcherExits, Close, Tick
<1>2. TypeOK'
  <2>0. TypeOK
    BY DEF IInv
  <2>1. CASE Deliver
    <3>1. queue \in Seq(EventSet) /\ queue # <<>>
      BY <2>0, <2>1 DEF Deliver, TypeOK
    <3>2. Head(queue) \in EventSet /\ Tail(queue) \in Seq(EventSet)
      BY <3>1
    <3>3. Head(queue).to \in States
      BY <3>2 DEF EventSet
    <3> QED BY <1>1, <2>0, <2>1, <3>2, <3>3 DEF Deliver, TypeOK
  <2>2. CASE CallbackReturns \/ DispatcherExits
    BY <1>1, <2>0, <2>2 DEF CallbackReturns, DispatcherExits, TypeOK
  <2>3. CASE Close
    BY <1>1, <2>0, <2>3 DEF Close, TypeOK
  <2>4. CASE Tick
    BY <1>1, <2>0, <2>4 DEF Tick, TypeOK, chanVars
  <2> QED BY <2>1, <2>2, <2>3, <2>4 DEF Dispatcher
<1>3. HalfOpenHasRoom' /\ Published' /\ Admitted'
  BY <1>1 DEF IInv, HalfOpenHasRoom, Published, Shows, Admitted
<1> QED BY <1>2, <1>3 DEF IInv

\* The invariant is inductive.
LEMMA NextIInv == IInv /\ [Next]_vars => IInv'
<1> SUFFICES ASSUME IInv, [Next]_vars PROVE IInv'
  OBVIOUS
<1>1. CASE UNCHANGED vars
  BY <1>1 DEF vars, IInv, TypeOK, HalfOpenHasRoom, Published, Shows, Admitted
<1>2. ASSUME NEW c \in Callers, FastPath(c) \/ FnPanics(c) PROVE IInv'
  BY <1>2, FastPathStep
<1>3. ASSUME NEW c \in Callers, BeforeRequest(c) PROVE IInv'
  BY <1>3, BeforeRequestStep
<1>4. ASSUME NEW c \in Callers, NEW success \in BOOLEAN, AfterRequest(c, success) PROVE IInv'
  BY <1>4, AfterRequestStep
<1>5. CASE State \/ Reset
  BY <1>5, AdminStep
<1>6. CASE Publishing
  BY <1>6, StoreStep, StoreStateStep, EmitStep DEF Publishing
<1>7. CASE Dispatcher \/ Close \/ Tick
  BY <1>7, OutsideStep
<1> QED BY <1>1, <1>2, <1>3, <1>4, <1>5, <1>6, <1>7 DEF Next, Locking

-----------------------------------------------------------------------------
(* The theorems.                                                            *)

\* Every reachable state satisfies the inductive invariant.
THEOREM Invariance == Spec => []IInv
BY InitIInv, NextIInv, PTL DEF Spec

\* Type correctness of the breaker, its mirrors, its callers and its event queue.
THEOREM TypeCorrect == Spec => []TypeOK
<1>1. IInv => TypeOK
  BY DEF IInv
<1> QED BY <1>1, Invariance, PTL

\* Half-Open never runs out of room, for every MaxRequests and any number of
\* callers: the breaker cannot be wedged there (breaker.go:344).
THEOREM HalfOpenNeverWedges == Spec => []HalfOpenHasRoom
<1>1. IInv => HalfOpenHasRoom
  BY DEF IInv
<1> QED BY <1>1, Invariance, PTL

\* Whenever cb.mu is free the atomic mirrors agree with the fields they mirror.
THEOREM MirrorsAgree == Spec => []MirrorsPublished
<1>1. ASSUME IInv PROVE MirrorsPublished
  <2> SUFFICES ASSUME mu = Free
               PROVE  fast = [gen |-> cb.generation, expiry |-> cb.expiry, state |-> cb.state]
    BY DEF MirrorsPublished
  <2>1. fast \in [gen : Nat, expiry : Nat, state : States]
    BY <1>1 DEF IInv, TypeOK
  <2>2. Shows(fast, cb)
    BY <1>1 DEF IInv, Published
  <2> QED BY <2>1, <2>2 DEF Shows
<1> QED BY <1>1, Invariance, PTL

\* The result of a request admitted in an earlier regime changes nothing beyond
\* what looking at the clock does, on either admission path (breaker.go:377-380).
THEOREM StaleResultsIgnored == Spec => StaleResultsAreIgnored
<1>1. ASSUME IInv, [Next]_vars, NEW c \in Callers,
             call[c].pc = "running", call'[c].pc = "idle", call[c].adm # cb.generation
      PROVE  cb' \in {cb, CurrentState(cb, clock)}
  <2>0. call \in [Callers -> CallSet]
    BY <1>1 DEF IInv, TypeOK
  <2>1. CASE UNCHANGED vars
    BY <2>1 DEF vars
  <2>2. ASSUME NEW d \in Callers, FastPath(d) \/ FnPanics(d) PROVE cb' = cb
    BY <2>2 DEF FastPath, FastLoadState, FastReadClock, FastLoadExpiry, FastRecheck,
               FastLoadGen, FnPanics
  <2>3. ASSUME NEW d \in Callers, BeforeRequest(d) PROVE cb' = CurrentState(cb, clock)
    BY <2>3 DEF BeforeRequest, Critical
  <2>4. ASSUME NEW d \in Callers, NEW success \in BOOLEAN, AfterRequest(d, success)
        PROVE  cb' = CurrentState(cb, clock)
    <3>1. d = c
      <4> SUFFICES ASSUME d # c PROVE FALSE
        OBVIOUS
      <4> QED BY <1>1, <2>0, <2>4 DEF AfterRequest
    <3>2. call[c].gen \in Nat /\ call[c].adm \in Nat /\ cb.generation \in Nat
      BY <1>1 DEF IInv, TypeOK, CallSet
    <3>3. call[c].gen < cb.generation
      BY <1>1, <3>2 DEF IInv, Admitted
    <3>4. mu = Free
      BY <2>4 DEF AfterRequest, Critical
    <3>5. Good(cb, CurrentState(cb, clock))
      BY <1>1, <3>4, FreeIsGood, CurrentStateGood
    <3>6. /\ CurrentState(cb, clock).generation \in Nat
          /\ CurrentState(cb, clock).generation >= cb.generation
      BY <3>5 DEF Good, Announced, Fields
    <3>7. call[c].gen # CurrentState(cb, clock).generation
      BY <3>2, <3>3, <3>6
    <3> QED BY <2>4, <3>1, <3>7 DEF AfterRequest, Critical, Settle
  <2>5. CASE State \/ Reset
    BY <1>1, <2>5 DEF State, Reset
  <2>6. CASE Publishing \/ Dispatcher \/ Close \/ Tick
    BY <1>1, <2>6 DEF Publishing, StoreGen, StoreExpiry, StoreState, EmitSend, EmitDrop,
                      Dispatcher, Deliver, CallbackReturns, DispatcherExits, Close, Tick
  <2> QED BY <1>1, <2>1, <2>2, <2>3, <2>4, <2>5, <2>6 DEF Next, Locking
<1>2. IInv /\ [Next]_vars =>
        [\A c \in Callers :
           /\ call[c].pc = "running" /\ call'[c].pc = "idle"
           /\ call[c].adm # cb.generation
           => cb' \in {cb, CurrentState(cb, clock)}]_vars
  BY <1>1
<1> QED BY <1>2, Invariance, PTL DEF Spec, StaleResultsAreIgnored

-----------------------------------------------------------------------------
(* Events.  Every critical section extends a chain that leads from what     *)
(* OnStateChange last heard to the breaker's state.                         *)

\* What a sync tells of a breaker that was in state from: nothing new, or its move.
Link(p, from) == IF p.event = NoEvent THEN p.state = from
                 ELSE p.event = [from |-> from, to |-> p.state]

\* The state that the syncs before the i-th have told, s having been told before.
Before(pending, s, i) == IF i = 1 THEN s ELSE pending[i - 1].state

\* Pending syncs lead, link by link, from s to the state of b.
Linked(b, s) ==
  /\ \A i \in 1..Len(b.pending) : Link(b.pending[i], Before(b.pending, s, i))
  /\ b.state = Before(b.pending, s, Len(b.pending) + 1)

\* One more sync extends the chain.
LEMMA PublishLinked ==
  ASSUME NEW b \in Fields, NEW s, Linked(b, s), NEW c \in Fields, c.pending = b.pending,
         NEW ev, \/ ev = NoEvent /\ c.state = b.state
                 \/ ev # NoEvent /\ ev = [from |-> b.state, to |-> c.state]
  PROVE  Linked(Publish(c, ev), s)
<1> DEFINE p == [gen |-> c.generation, expiry |-> c.expiry, state |-> c.state, event |-> ev]
           q == Append(b.pending, p)
           r == Publish(c, ev)
           len == Len(b.pending)
<1>1. r = [c EXCEPT !.pending = q] BY DEF Publish
<1>2. p.state = c.state /\ p.event = ev OBVIOUS
<1> HIDE DEF p
<1>3. b.pending \in Seq(SyncSet) /\ len \in Nat BY DEF Fields
<1>4. /\ Len(q) = len + 1 /\ q[len + 1] = p
      /\ \A i \in 1..len : q[i] = b.pending[i]
  BY <1>3
<1>5. r.pending = q /\ r.state = c.state BY <1>1 DEF Fields
<1>6. \A i \in 1..(len + 1) : Before(q, s, i) = Before(b.pending, s, i)
  BY <1>3, <1>4 DEF Before
<1>7. Before(q, s, len + 2) = c.state BY <1>2, <1>3, <1>4 DEF Before
<1>8. Link(p, b.state) BY <1>2 DEF Link
<1>9. ASSUME NEW i \in 1..(len + 1) PROVE Link(q[i], Before(q, s, i))
  <2>1. CASE i = len + 1
    <3>1. Before(q, s, i) = b.state BY <1>6, <2>1 DEF Linked
    <3> QED BY <1>4, <1>8, <2>1, <3>1
  <2>2. CASE i \in 1..len
    <3>1. q[i] = b.pending[i] /\ Before(q, s, i) = Before(b.pending, s, i)
      BY <1>3, <1>4, <1>6, <2>2
    <3>2. Link(b.pending[i], Before(b.pending, s, i)) BY <2>2 DEF Linked
    <3> QED BY <3>1, <3>2
  <2> QED BY <1>3, <2>1, <2>2
<1> HIDE DEF q, r
<1>10. Len(q) + 1 = len + 2 BY <1>3, <1>4
<1> QED BY <1>4, <1>5, <1>7, <1>9, <1>10 DEF Linked, r

\* A critical section that neither publishes nor changes the state keeps the chain.
LEMMA SameLinked ==
  ASSUME NEW b, NEW s, Linked(b, s), NEW c, c.pending = b.pending, c.state = b.state
  PROVE  Linked(c, s)
BY DEF Linked

\* setState.
LEMMA SetStateLinked ==
  ASSUME HasCallback, NEW b \in Fields, NEW s, Linked(b, s), NEW new \in States, NEW now \in Nat
  PROVE  Linked(SetState(b, new, now), s)
<1>1. CASE b.state = new BY <1>1 DEF SetState
<1>2. CASE b.state # new
  <2> DEFINE e == Entered(b, new, now)
             x == NewExpiry(b.expiry, new, now)
             g == b.generation + 1
  <2>1. b.expiry \in Nat /\ new \in {"closed", "open", "halfOpen"} BY DEF Fields, States
  <2>2. x \in Nat /\ g \in Nat BY <2>1, ConfigTyped DEF NewExpiry, Fields
  <2>3. e = [b EXCEPT !.state = new, !.generation = g, !.counts = NoCounts,
                      !.window = NewWindow, !.expiry = x]
    BY DEF Entered
  <2> HIDE DEF e, x, g
  <2>4. e \in Fields /\ e.state = new /\ e.pending = b.pending
    BY <2>2, <2>3, FreshTyped DEF Fields
  <2>5. Event(b.state, new) = [from |-> b.state, to |-> new] BY DEF Event
  <2>6. b.state # "none" BY DEF Fields, States
  <2>7. Event(b.state, new) # NoEvent
    BY <2>5, <2>6 DEF NoEvent
  <2>8. Linked(Publish(e, Event(b.state, new)), s)
    BY <2>4, <2>5, <2>7, PublishLinked
  <2> QED BY <1>2, <2>8 DEF SetState, e
<1> QED BY <1>1, <1>2

\* currentState.
LEMMA CurrentStateLinked ==
  ASSUME HasCallback, NEW b \in Fields, NEW s, Linked(b, s), NEW now \in Nat
  PROVE  Linked(CurrentState(b, now), s)
<1>1. CASE b.state = "closed" /\ Interval > 0 /\ b.expiry < now
  <2> DEFINE x == now + Interval
             c == [b EXCEPT !.counts = NoCounts, !.expiry = x]
  <2>1. x \in Nat /\ NoCounts \in CountsType BY ConfigTyped, FreshTyped
  <2>2. CurrentState(b, now) = Publish(c, NoEvent) BY <1>1 DEF CurrentState
  <2> HIDE DEF x
  <2>3. c \in Fields /\ c.state = b.state /\ c.pending = b.pending BY <2>1 DEF Fields
  <2> HIDE DEF c
  <2> QED BY <2>2, <2>3, PublishLinked
<1>2. CASE b.state = "open" /\ b.expiry < now
  <2>1. CurrentState(b, now) = SetState(b, "halfOpen", now) BY <1>2 DEF CurrentState
  <2> QED BY <2>1, SetStateLinked DEF States
<1>3. CASE /\ ~(b.state = "closed" /\ Interval > 0 /\ b.expiry < now)
           /\ ~(b.state = "open" /\ b.expiry < now)
  BY <1>3 DEF CurrentState
<1> QED BY <1>1, <1>2, <1>3

\* Changing the evidence keeps the chain.
LEMMA EvidenceLinked ==
  ASSUME NEW b \in Fields, NEW s, Linked(b, s), NEW k \in CountsType, NEW w \in WindowSet,
         NEW c, c = WithEvidence(b, k, w)
  PROVE  c \in Fields /\ Linked(c, s) /\ c.state = b.state
<1>1. c \in Fields /\ c.state = b.state /\ c.pending = b.pending BY DEF WithEvidence, Fields
<1> QED BY <1>1, SameLinked

\* onSuccess and onFailure.
LEMMA OutcomeLinked ==
  ASSUME HasCallback, NEW b \in Fields, NEW s, Linked(b, s), NEW now \in Nat
  PROVE  Linked(OnSuccess(b, now), s) /\ Linked(OnFailure(b, now), s)
<1>0. b.counts \in CountsType /\ b.window \in WindowSet BY DEF Fields
<1>1. /\ CountsOnSuccess(b.counts) \in CountsType /\ CountsOnFailure(b.counts) \in CountsType
      /\ WindowRecord(b.window, TRUE, now) \in WindowSet
      /\ WindowRecord(b.window, FALSE, now) \in WindowSet
  BY <1>0, CountsTyped, WindowTyped
<1>2. ASSUME NEW c \in Fields, Linked(c, s), NEW due PROVE Linked(TripIfDue(c, due, now), s)
  <2>1. Linked(SetState(c, "open", now), s) BY <1>2, SetStateLinked DEF States
  <2> QED BY <1>2, <2>1 DEF TripIfDue
<1>3. Linked(OnSuccess(b, now), s)
  <2> DEFINE k == CountsOnSuccess(b.counts)
             w == WindowRecord(b.window, TRUE, now)
  <2>1. CASE b.state = "closed"
    <3> DEFINE c == [b EXCEPT !.counts = k, !.window = w]
    <3>1. OnSuccess(b, now) = TripIfDue(c, UsesWindow /\ WindowTrips(c.window, now), now)
      BY <2>1 DEF OnSuccess
    <3> HIDE DEF k, w
    <3>2. c = WithEvidence(b, k, w) BY DEF WithEvidence
    <3> HIDE DEF c
    <3>3. c \in Fields /\ Linked(c, s) BY <1>1, <3>2, EvidenceLinked DEF k, w
    <3> QED BY <1>2, <3>1, <3>3
  <2>2. CASE b.state = "halfOpen"
    <3> DEFINE c == [b EXCEPT !.counts = k]
    <3>1. OnSuccess(b, now) = IF TrialsPassed(c.counts) THEN SetState(c, "closed", now) ELSE c
      BY <2>2 DEF OnSuccess
    <3> HIDE DEF k
    <3>2. c = WithEvidence(b, k, b.window) BY DEF WithEvidence, Fields
    <3> HIDE DEF c
    <3>3. c \in Fields /\ Linked(c, s) BY <1>0, <1>1, <3>2, EvidenceLinked DEF k
    <3>4. Linked(SetState(c, "closed", now), s) BY <3>3, SetStateLinked DEF States
    <3> QED BY <3>1, <3>3, <3>4
  <2>3. CASE b.state \notin {"closed", "halfOpen"} BY <2>3 DEF OnSuccess
  <2> QED BY <2>1, <2>2, <2>3
<1>4. Linked(OnFailure(b, now), s)
  <2>1. CASE b.state = "closed"
    <3> DEFINE k == CountsOnFailure(b.counts)
               w == WindowRecord(b.window, FALSE, now)
               c == [b EXCEPT !.counts = k, !.window = w]
               due == IF UsesWindow THEN WindowTrips(c.window, now) ELSE ReadyToTrip(c.counts)
    <3>1. OnFailure(b, now) = TripIfDue(c, due, now) BY <2>1 DEF OnFailure
    <3> HIDE DEF k, w, due
    <3>2. c = WithEvidence(b, k, w) BY DEF WithEvidence
    <3> HIDE DEF c
    <3>3. c \in Fields /\ Linked(c, s) BY <1>1, <3>2, EvidenceLinked DEF k, w
    <3> QED BY <1>2, <3>1, <3>3
  <2>2. CASE b.state = "halfOpen"
    <3>1. OnFailure(b, now) = SetState(b, "open", now) BY <2>2 DEF OnFailure
    <3> QED BY <3>1, SetStateLinked DEF States
  <2>3. CASE b.state \notin {"closed", "halfOpen"} BY <2>3 DEF OnFailure
  <2> QED BY <2>1, <2>2, <2>3
<1> QED BY <1>3, <1>4

\* Reset, which announces even a move from Closed to Closed.
LEMMA ResetLinked ==
  ASSUME HasCallback, NEW b \in Fields, NEW s, Linked(b, s), NEW now \in Nat
  PROVE  Linked(ResetFields(b, now), s)
<1> DEFINE x == now + Interval
           g == b.generation + 1
           c == [b EXCEPT !.state = "closed", !.generation = g, !.counts = NoCounts,
                          !.window = NewWindow, !.expiry = x]
<1>1. ResetFields(b, now) = Publish(c, Event(b.state, "closed")) BY DEF ResetFields
<1>2. x \in Nat /\ g \in Nat BY ConfigTyped DEF Fields
<1> HIDE DEF x, g
<1>3. c \in Fields /\ c.state = "closed" /\ c.pending = b.pending
  BY <1>2, FreshTyped DEF Fields, States
<1> HIDE DEF c
<1>4. Event(b.state, "closed") = [from |-> b.state, to |-> "closed"] BY DEF Event
<1>5. b.state # "none" BY DEF Fields, States
<1>6. Event(b.state, "closed") # NoEvent BY <1>4, <1>5 DEF NoEvent
<1> QED BY <1>1, <1>3, <1>4, <1>6, PublishLinked


-----------------------------------------------------------------------------
\* The state that observed and the first i events of q announce.
Heard(q, o, i) == IF i = 0 THEN o ELSE q[i].to

\* The events of q follow one another.
Chain(q, o) == \A i \in 1..Len(q) : q[i].from = Heard(q, o, i - 1)

\* The inductive invariant: what is queued and what is pending are one chain from the
\* state last observed to the state of the breaker.
Told ==
  HasCallback /\ ~lost =>
    Chain(queue, observed) /\ Linked(cb, Heard(queue, observed, Len(queue)))

\* A critical section starts with nothing pending and leaves a chain.
LEMMA CriticalTold ==
  ASSUME IInv, Told, [Next]_vars, HasCallback, ~lost, cb' # cb, mu = Free
  PROVE  \A s : Linked(cb, s) => Linked(cb', s)
<1> SUFFICES ASSUME NEW s, Linked(cb, s) PROVE Linked(cb', s)
  OBVIOUS
<1>0. cb \in Fields /\ clock \in Nat /\ Good(cb, cb) /\ cb.pending = <<>>
  BY FreeIsGood DEF IInv, Published
<1>1. Linked(CurrentState(cb, clock), s) BY <1>0, CurrentStateLinked
<1>2. CurrentState(cb, clock) \in Fields BY <1>0, CurrentStateGood DEF Good
<1>3. ASSUME NEW c \in Callers, BeforeRequest(c) PROVE Linked(cb', s)
  BY <1>1, <1>3 DEF BeforeRequest, Critical
<1>4. ASSUME NEW c \in Callers, NEW success \in BOOLEAN, AfterRequest(c, success)
      PROVE  Linked(cb', s)
  <2> DEFINE d == CurrentState(cb, clock)
  <2>1. cb' = Settle(d, call[c].gen, success, clock) BY <1>4 DEF AfterRequest, Critical
  <2> HIDE DEF d
  <2>2. Linked(d, s) /\ d \in Fields BY <1>1, <1>2 DEF d
  <2>3. Linked(OnSuccess(d, clock), s) /\ Linked(OnFailure(d, clock), s)
    BY <1>0, <2>2, OutcomeLinked
  <2> QED BY <2>1, <2>2, <2>3 DEF Settle
<1>5. CASE State BY <1>1, <1>5 DEF State, Critical
<1>6. CASE Reset
  <2>1. Linked(ResetFields(cb, clock), s) BY <1>0, ResetLinked
  <2> QED BY <1>6, <2>1 DEF Reset, Critical
<1>7. ~Publishing BY <1>0 DEF Publishing, StoreGen, StoreExpiry, StoreState, EmitSend, EmitDrop
<1>8. ~UNCHANGED vars /\ ~Dispatcher /\ ~Close /\ ~Tick
  BY DEF vars, Dispatcher, Deliver, CallbackReturns, DispatcherExits, Close, Tick
<1>9. \A c \in Callers : ~FastPath(c) /\ ~FnPanics(c)
  BY DEF FastPath, FastLoadState, FastReadClock, FastLoadExpiry, FastRecheck, FastLoadGen,
         FnPanics
<1> QED BY <1>3, <1>4, <1>5, <1>6, <1>7, <1>8, <1>9 DEF Next, Locking

\* Taking the head off the chain.
LEMMA TailLinked ==
  ASSUME IInv, cb.pending # <<>>, Unlocking, NEW s, Linked(cb, s)
  PROVE  Link(cb.pending[1], s) /\ Linked(cb', cb.pending[1].state)
<1> DEFINE p == cb.pending
           t == Tail(p)
<1>1. cb' = [cb EXCEPT !.pending = t] /\ cb \in Fields BY DEF Unlocking, IInv, TypeOK, Fields
<1>2. /\ p \in Seq(SyncSet) /\ Len(t) = Len(p) - 1 /\ Len(p) \in Nat \ {0}
      /\ \A i \in 1..Len(t) : t[i] = p[i + 1]
  BY PendingFacts, TailFacts
<1>3. cb'.pending = t /\ cb'.state = cb.state BY <1>1 DEF Fields
<1>4. /\ \A i \in 1..Len(p) : Link(p[i], Before(p, s, i))
      /\ cb.state = Before(p, s, Len(p) + 1)
  BY DEF Linked
<1>5. Link(p[1], s)
  <2>1. 1 \in 1..Len(p) BY <1>2
  <2>2. Before(p, s, 1) = s BY DEF Before
  <2> QED BY <1>4, <2>1, <2>2
<1> HIDE DEF p, t
<1>6. \A i \in 1..(Len(t) + 1) : Before(t, p[1].state, i) = Before(p, s, i + 1)
  <2> SUFFICES ASSUME NEW i \in 1..(Len(t) + 1)
               PROVE  Before(t, p[1].state, i) = Before(p, s, i + 1)
    OBVIOUS
  <2>1. CASE i = 1 BY <2>1 DEF Before
  <2>2. CASE i # 1
    <3>1. i - 1 \in 1..Len(t) /\ i + 1 # 1 /\ i - 1 + 1 = i /\ i + 1 - 1 = i BY <1>2, <2>2
    <3>2. t[i - 1] = p[i] BY <1>2, <3>1
    <3> QED BY <2>2, <3>1, <3>2 DEF Before
  <2> QED BY <2>1, <2>2
<1>7. ASSUME NEW i \in 1..Len(t) PROVE Link(t[i], Before(t, p[1].state, i))
  <2>1. i + 1 \in 1..Len(p) /\ i \in 1..(Len(t) + 1) BY <1>2
  <2>2. Link(p[i + 1], Before(p, s, i + 1)) BY <1>4, <2>1
  <2> QED BY <1>2, <1>6, <2>1, <2>2
<1>8. cb.state = Before(t, p[1].state, Len(t) + 1)
  <2>1. Len(t) + 1 \in 1..(Len(t) + 1) /\ Len(t) + 1 + 1 = Len(p) + 1 BY <1>2
  <2> QED BY <1>4, <1>6, <2>1
<1>9. Linked(cb', p[1].state) BY <1>3, <1>7, <1>8 DEF Linked
<1> QED BY <1>5, <1>9 DEF p

\* The chain stays one, whoever takes from it or adds to it.
LEMMA NextTold ==
  ASSUME IInv, IInv', Told, [Next]_vars PROVE Told'
<1> SUFFICES ASSUME HasCallback, ~lost'
             PROVE  Chain(queue', observed') /\ Linked(cb', Heard(queue', observed', Len(queue')))
  BY DEF Told
<1> DEFINE s == Heard(queue, observed, Len(queue))
<1>q. queue \in Seq(EventSet) /\ Len(queue) \in Nat BY DEF IInv, TypeOK
<1>l. ~lost
  <2>1. CASE Publishing
    BY <2>1 DEF Publishing, StoreGen, StoreExpiry, StoreState, EmitSend, EmitDrop, chanVars
  <2>2. CASE ~Publishing
    BY <2>2 DEF Next, vars, Dispatcher, Deliver, CallbackReturns, DispatcherExits, Close, Tick,
                FastPath, FastLoadState, FastReadClock, FastLoadExpiry, FastRecheck, FastLoadGen,
                FnPanics, Locking, BeforeRequest, AfterRequest, State, Reset, chanVars
  <2> QED BY <2>1, <2>2
<1>0. Chain(queue, observed) /\ Linked(cb, s) BY <1>l DEF Told
<1>1. CASE UNCHANGED <<cb, queue, observed>> BY <1>0, <1>1
<1>2. CASE Deliver
  <2>1. queue # <<>> /\ queue' = Tail(queue) /\ observed' = Head(queue).to /\ cb' = cb
    BY <1>2 DEF Deliver
  <2>2. /\ Len(queue') = Len(queue) - 1 /\ Len(queue) >= 1
        /\ \A i \in 1..Len(queue') : queue'[i] = queue[i + 1]
    BY <1>q, <2>1, TailFacts
  <2>3. observed' = queue[1].to BY <1>q, <2>1
  <2>4. \A i \in 0..Len(queue') : Heard(queue', observed', i) = Heard(queue, observed, i + 1)
    <3> SUFFICES ASSUME NEW i \in 0..Len(queue')
                 PROVE  Heard(queue', observed', i) = Heard(queue, observed, i + 1)
      OBVIOUS
    <3>1. i + 1 # 0 BY <1>q, <2>2
    <3>2. CASE i = 0 BY <2>3, <3>1, <3>2 DEF Heard
    <3>3. CASE i # 0
      <4>1. i \in 1..Len(queue') BY <1>q, <2>2, <3>3
      <4> QED BY <2>2, <3>1, <3>3, <4>1 DEF Heard
    <3> QED BY <3>2, <3>3
  <2>5. Len(queue') \in 0..Len(queue') /\ Len(queue') + 1 = Len(queue) BY <1>q, <2>2
  <2>6. Heard(queue', observed', Len(queue')) = s BY <2>4, <2>5
  <2>7. Chain(queue', observed')
    <3> SUFFICES ASSUME NEW i \in 1..Len(queue')
                 PROVE  queue'[i].from = Heard(queue', observed', i - 1)
      BY DEF Chain
    <3>1. /\ i + 1 \in 1..Len(queue) /\ i - 1 \in 0..Len(queue')
          /\ i - 1 + 1 = i /\ i + 1 - 1 = i
      BY <1>q, <2>2
    <3>2. queue[i + 1].from = Heard(queue, observed, i) BY <1>0, <3>1 DEF Chain
    <3>3. Heard(queue', observed', i - 1) = Heard(queue, observed, i) BY <2>4, <3>1
    <3> QED BY <2>2, <3>2, <3>3
  <2> QED BY <1>0, <2>1, <2>6, <2>7
<1>3. CASE mu = Free /\ cb' # cb
  <2>1. Linked(cb', s) BY <1>0, <1>3, <1>l, CriticalTold
  <2>2. cb.pending = <<>> BY <1>3 DEF IInv, Published
  <2>3. UNCHANGED <<queue, observed>>
    BY <1>3, <2>2 DEF Next, vars, Dispatcher, Deliver, CallbackReturns, DispatcherExits, Close,
       Tick, FastPath, FastLoadState, FastReadClock, FastLoadExpiry, FastRecheck, FastLoadGen,
       FnPanics, Locking, BeforeRequest, AfterRequest, State, Reset, chanVars, Publishing,
       StoreGen, StoreExpiry, StoreState, EmitSend, EmitDrop
  <2> QED BY <1>0, <2>1, <2>3
<1>4. CASE StoreState
  <2>1. cb.pending # <<>> /\ UNCHANGED <<queue, observed>> BY <1>4 DEF StoreState, chanVars
  <2>2. CASE Head(cb.pending).event = NoEvent
    <3>1. Unlocking BY <1>4, <2>2 DEF StoreState
    <3>2. Link(cb.pending[1], s) /\ Linked(cb', cb.pending[1].state)
      BY <1>0, <2>1, <3>1, TailLinked
    <3>3. cb.pending[1].event = NoEvent BY <2>1, <2>2, PendingFacts
    <3>4. cb.pending[1].state = s BY <3>2, <3>3 DEF Link
    <3> QED BY <1>0, <2>1, <3>2, <3>4
  <2>3. CASE Head(cb.pending).event # NoEvent
    <3>1. cb' = cb BY <1>4, <2>3 DEF StoreState
    <3> QED BY <1>0, <2>1, <3>1
  <2> QED BY <2>2, <2>3
<1>5. CASE EmitSend
  <2>1. /\ cb.pending # <<>> /\ stage = "emit" /\ Unlocking /\ observed' = observed
        /\ queue' = Append(queue, Head(cb.pending).event)
    BY <1>5 DEF EmitSend
  <2>2. Link(cb.pending[1], s) /\ Linked(cb', cb.pending[1].state) BY <1>0, <2>1, TailLinked
  <2>3. cb.pending[1].event # NoEvent /\ Head(cb.pending) = cb.pending[1]
    BY <2>1, PendingFacts DEF IInv, Published
  <2>4. PICK e : e = cb.pending[1].event OBVIOUS
  <2>5. e.from = s /\ e.to = cb.pending[1].state BY <2>2, <2>3, <2>4 DEF Link
  <2>6. /\ Len(queue') = Len(queue) + 1 /\ queue'[Len(queue) + 1] = e
        /\ \A i \in 1..Len(queue) : queue'[i] = queue[i]
    BY <1>q, <2>1, <2>3, <2>4
  <2>7. \A i \in 0..Len(queue) : Heard(queue', observed', i) = Heard(queue, observed, i)
    BY <1>q, <2>1, <2>6 DEF Heard
  <2>8. Heard(queue', observed', Len(queue')) = cb.pending[1].state
    BY <1>q, <2>5, <2>6 DEF Heard
  <2>9. Chain(queue', observed')
    <3> SUFFICES ASSUME NEW i \in 1..(Len(queue) + 1)
                 PROVE  queue'[i].from = Heard(queue', observed', i - 1)
      BY <2>6 DEF Chain
    <3>1. i - 1 \in 0..Len(queue) BY <1>q
    <3>2. Heard(queue', observed', i - 1) = Heard(queue, observed, i - 1) BY <2>7, <3>1
    <3>3. CASE i = Len(queue) + 1
      <4>1. i - 1 = Len(queue) BY <1>q, <3>3
      <4> QED BY <2>5, <2>6, <3>2, <3>3, <4>1
    <3>4. CASE i \in 1..Len(queue)
      <4>1. queue'[i] = queue[i] BY <2>6, <3>4
      <4>2. queue[i].from = Heard(queue, observed, i - 1) BY <1>0, <3>4 DEF Chain
      <4> QED BY <3>2, <4>1, <4>2
    <3> QED BY <1>q, <3>3, <3>4
  <2> QED BY <2>2, <2>8, <2>9
<1>6. CASE /\ ~Deliver /\ ~StoreState /\ ~EmitSend /\ ~(mu = Free /\ cb' # cb)
  <2>1. UNCHANGED <<queue, observed>>
    BY <1>6 DEF Next, vars, Dispatcher, CallbackReturns, DispatcherExits, Close,
       Tick, FastPath, FastLoadState, FastReadClock, FastLoadExpiry, FastRecheck, FastLoadGen,
       FnPanics, Locking, BeforeRequest, AfterRequest, State, Reset, chanVars, Publishing,
       StoreGen, StoreExpiry, EmitDrop
  <2>2. ~EmitDrop BY DEF EmitDrop
  <2>3. cb' = cb
    BY <1>6, <2>2 DEF Next, vars, Dispatcher, CallbackReturns, DispatcherExits, Close,
       Tick, FastPath, FastLoadState, FastReadClock, FastLoadExpiry, FastRecheck, FastLoadGen,
       FnPanics, Locking, BeforeRequest, AfterRequest, State, Reset, Critical, chanVars,
       Publishing, StoreGen, StoreExpiry
  <2> QED BY <1>1, <2>1, <2>3
<1> QED BY <1>2, <1>3, <1>4, <1>5, <1>6

\* The chain is what EventsTellTheState says.
LEMMA ToldTells ==
  ASSUME IInv, Told PROVE EventsTellTheState
<1> SUFFICES ASSUME HasCallback, ~lost PROVE EventsTellTheState
  BY DEF EventsTellTheState
<1> DEFINE heard(i) == IF i = 0 THEN observed ELSE queue[i].to
           told(i) == IF i = 0 THEN heard(Len(queue)) ELSE cb.pending[i].state
           s == Heard(queue, observed, Len(queue))
           p == cb.pending
<1>0. Chain(queue, observed) /\ Linked(cb, s) BY DEF Told
<1>1. \A i \in 1..Len(queue) : queue[i].from = heard(i - 1) BY <1>0 DEF Chain, Heard
<1>2. p \in Seq(SyncSet) /\ Len(p) \in Nat BY DEF IInv, TypeOK
<1>3. \A i \in 1..(Len(p) + 1) : Before(p, s, i) = told(i - 1)
  BY <1>2 DEF Before, Heard
<1>4. ASSUME NEW i \in 1..Len(p)
      PROVE  IF p[i].event = NoEvent THEN p[i].state = told(i - 1)
             ELSE p[i].event = [from |-> told(i - 1), to |-> p[i].state]
  <2>1. Link(p[i], Before(p, s, i)) BY <1>0 DEF Linked
  <2>2. Before(p, s, i) = told(i - 1) BY <1>2, <1>3
  <2> QED BY <2>1, <2>2 DEF Link
<1>5. told(Len(p)) = cb.state
  <2>1. Len(p) + 1 \in 1..(Len(p) + 1) /\ Len(p) + 1 - 1 = Len(p) BY <1>2
  <2> QED BY <1>0, <1>3, <2>1 DEF Linked
<1> QED BY <1>1, <1>4, <1>5 DEF EventsTellTheState

\* While nothing was dropped, what OnStateChange was told and is about to be told leads,
\* link by link, to the breaker's state.
THEOREM EventsAreTrue == Spec => []EventsTellTheState
<1>1. Init => Told
  BY DEF Init, Told, Chain, Linked, Heard, Before
<1>2. IInv /\ IInv' /\ Told /\ [Next]_vars => Told' BY NextTold
<1>3. IInv /\ Told => EventsTellTheState BY ToldTells
<1> QED BY <1>1, <1>2, <1>3, Invariance, PTL DEF Spec

-----------------------------------------------------------------------------
(* Evidence.  Of a step that ends in Closed it is enough to know whether it *)
(* left the evidence alone, started afresh or counted one outcome.          *)

\* The fields that hold evidence or say how long it counts.
SameEvidence(a, b) == /\ b.state = a.state /\ b.counts = a.counts /\ b.expiry = a.expiry
                      /\ b.window = a.window

\* A regime or an interval that begins now: nothing is counted.
Fresh(a, b, now) ==
  /\ b.counts = NoCounts /\ b.expiry = now + Interval
  /\ b.window = NewWindow \/ (a.state = "closed" /\ b.window = a.window)

\* One outcome was counted on top of k, and the trip policy was consulted in vain; the
\* predicate is asked after failures only.
Judged(k, b, now) ==
  /\ b.counts \in {CountsOnSuccess(k), CountsOnFailure(k)}
  /\ IF UsesWindow THEN ~WindowTrips(b.window, now)
     ELSE b.counts = CountsOnSuccess(k) \/ ~ReadyToTrip(b.counts)

\* What a critical section that ends in Closed has done.
Closes(a, b, now) ==
  \/ b = a
  \/ Fresh(a, b, now)
  \/ /\ a.state = "closed" /\ (Interval > 0 => a.expiry >= now)
     /\ b.expiry = a.expiry /\ Judged(a.counts, b, now)
  \/ /\ a.state = "closed" /\ a.expiry < now
     /\ b.expiry = now + Interval /\ Judged(NoCounts, b, now)

\* currentState: the interval is not over, or it is and the counts were cleared.
LEMMA CurrentCloses ==
  ASSUME NEW a \in Fields, NEW now \in Nat, NEW r, r = CurrentState(a, now),
         r.state = "closed"
  PROVE  /\ a.state = "closed"
         /\ \/ r = a /\ (Interval > 0 => a.expiry >= now)
            \/ a.expiry < now /\ r.counts = NoCounts /\ r.expiry = now + Interval
               /\ r.window = a.window
<1>0. a.expiry \in Nat /\ Interval \in Nat BY ConfigTyped DEF Fields
<1>1. CASE a.state = "closed" /\ Interval > 0 /\ a.expiry < now
  <2> DEFINE x == now + Interval
             c == [a EXCEPT !.counts = NoCounts, !.expiry = x]
  <2>1. r = Publish(c, NoEvent) BY <1>1 DEF CurrentState
  <2> HIDE DEF x
  <2>2. c.counts = NoCounts /\ c.expiry = x /\ c.window = a.window
        /\ Publish(c, NoEvent).counts = c.counts /\ Publish(c, NoEvent).expiry = c.expiry
        /\ Publish(c, NoEvent).window = c.window
    BY DEF Fields, Publish
  <2> QED BY <1>1, <2>1, <2>2 DEF x
<1>2. CASE a.state = "open" /\ a.expiry < now
  <2>1. r = SetState(a, "halfOpen", now) BY <1>2 DEF CurrentState
  <2>2. r.state = "halfOpen"
    BY <1>2, <2>1 DEF SetState, Publish, Entered, Fields
  <2> QED BY <2>2
<1>3. CASE /\ ~(a.state = "closed" /\ Interval > 0 /\ a.expiry < now)
           /\ ~(a.state = "open" /\ a.expiry < now)
  <2>1. r = a BY <1>3 DEF CurrentState
  <2> QED BY <1>0, <1>3, <2>1
<1> QED BY <1>1, <1>2, <1>3

\* setState into Closed starts from nothing; into another state it does not close.
LEMMA SetStateCloses ==
  ASSUME NEW b \in Fields, NEW new \in States, b.state # new, NEW now \in Nat,
         NEW r, r = SetState(b, new, now)
  PROVE  /\ r.state = new
         /\ new = "closed" => r.counts = NoCounts /\ r.expiry = now + Interval
                              /\ r.window = NewWindow
<1> DEFINE x == NewExpiry(b.expiry, new, now)
           g == b.generation + 1
           e == Entered(b, new, now)
<1>1. e = [b EXCEPT !.state = new, !.generation = g, !.counts = NoCounts,
                    !.window = NewWindow, !.expiry = x]
  BY DEF Entered
<1>2. new = "closed" => x = now + Interval BY DEF NewExpiry
<1>3. r = Publish(e, Event(b.state, new)) BY DEF SetState
<1> HIDE DEF x, g, e
<1>4. e.state = new /\ e.counts = NoCounts /\ e.window = NewWindow /\ e.expiry = x
      /\ DOMAIN e = DOMAIN b
  BY <1>1 DEF Fields
<1>5. r.state = e.state /\ r.counts = e.counts /\ r.window = e.window /\ r.expiry = e.expiry
  BY <1>1, <1>3 DEF Publish, Fields
<1> QED BY <1>2, <1>4, <1>5

\* afterRequest, after currentState.
LEMMA SettleCloses ==
  ASSUME NEW b \in Fields, NEW gen, NEW success \in BOOLEAN, NEW now \in Nat,
         NEW r, r = Settle(b, gen, success, now), r.state = "closed"
  PROVE  \/ r = b
         \/ r.counts = NoCounts /\ r.expiry = now + Interval /\ r.window = NewWindow
         \/ b.state = "closed" /\ r.expiry = b.expiry /\ Judged(b.counts, r, now)
<1>1. CASE gen # b.generation BY <1>1 DEF Settle
<1>2. CASE gen = b.generation /\ success
  <2>0. r = OnSuccess(b, now) BY <1>2 DEF Settle
  <2> DEFINE k == CountsOnSuccess(b.counts)
             w == WindowRecord(b.window, TRUE, now)
  <2>k. k \in CountsType /\ w \in WindowSet BY CountsTyped, WindowTyped DEF Fields
  <2>1. CASE b.state = "closed"
    <3> DEFINE c == [b EXCEPT !.counts = k, !.window = w]
               due == UsesWindow /\ WindowTrips(c.window, now)
    <3>1. r = TripIfDue(c, due, now) BY <2>0, <2>1 DEF OnSuccess
    <3>d. due <=> UsesWindow /\ WindowTrips(c.window, now) OBVIOUS
    <3> HIDE DEF k, w, due
    <3>2. c \in Fields /\ c.counts = k /\ c.window = w /\ c.state = "closed"
          /\ c.expiry = b.expiry
      BY <2>1, <2>k DEF Fields
    <3> HIDE DEF c
    <3>3. ~due
      <4> SUFFICES ASSUME due PROVE FALSE OBVIOUS
      <4>1. r = SetState(c, "open", now) BY <3>1 DEF TripIfDue
      <4>2. r.state = "open" BY <3>2, <4>1, SetStateCloses DEF States
      <4> QED BY <4>2
    <3>4. r = c BY <3>1, <3>3 DEF TripIfDue
    <3>5. UsesWindow => ~WindowTrips(r.window, now) BY <3>3, <3>4, <3>d
    <3>6. r.counts = CountsOnSuccess(b.counts) BY <3>2, <3>4 DEF k
    <3>7. Judged(b.counts, r, now) BY <3>5, <3>6 DEF Judged
    <3> QED BY <2>1, <3>2, <3>4, <3>7
  <2>2. CASE b.state = "halfOpen"
    <3> DEFINE c == [b EXCEPT !.counts = k]
    <3>1. r = IF TrialsPassed(c.counts) THEN SetState(c, "closed", now) ELSE c
      BY <2>0, <2>2 DEF OnSuccess
    <3> HIDE DEF k
    <3>2. c \in Fields /\ c.state = "halfOpen" BY <2>2, <2>k DEF Fields
    <3> HIDE DEF c
    <3>3. r = SetState(c, "closed", now) BY <3>1, <3>2
    <3> QED BY <3>2, <3>3, SetStateCloses DEF States
  <2>3. CASE b.state \notin {"closed", "halfOpen"} BY <2>0, <2>3 DEF OnSuccess
  <2> QED BY <2>1, <2>2, <2>3
<1>3. CASE gen = b.generation /\ ~success
  <2>0. r = OnFailure(b, now) BY <1>3 DEF Settle
  <2>1. CASE b.state = "closed"
    <3> DEFINE k == CountsOnFailure(b.counts)
               w == WindowRecord(b.window, FALSE, now)
               c == [b EXCEPT !.counts = k, !.window = w]
               due == IF UsesWindow THEN WindowTrips(c.window, now) ELSE ReadyToTrip(c.counts)
    <3>k. k \in CountsType /\ w \in WindowSet BY CountsTyped, WindowTyped DEF Fields
    <3>1. r = TripIfDue(c, due, now) BY <2>0, <2>1 DEF OnFailure
    <3>d. /\ UsesWindow => (due <=> WindowTrips(c.window, now))
          /\ ~UsesWindow => (due <=> ReadyToTrip(c.counts))
      OBVIOUS
    <3> HIDE DEF k, w, due
    <3>2. c \in Fields /\ c.counts = k /\ c.window = w /\ c.state = "closed"
          /\ c.expiry = b.expiry
      BY <2>1, <3>k DEF Fields
    <3> HIDE DEF c
    <3>3. ~due
      <4> SUFFICES ASSUME due PROVE FALSE OBVIOUS
      <4>1. r = SetState(c, "open", now) BY <3>1 DEF TripIfDue
      <4>2. r.state = "open" BY <3>2, <4>1, SetStateCloses DEF States
      <4> QED BY <4>2
    <3>4. r = c BY <3>1, <3>3 DEF TripIfDue
    <3>5. IF UsesWindow THEN ~WindowTrips(r.window, now) ELSE ~ReadyToTrip(r.counts)
      BY <3>3, <3>4, <3>d
    <3>6. r.counts = CountsOnFailure(b.counts) BY <3>2, <3>4 DEF k
    <3>7. Judged(b.counts, r, now) BY <3>5, <3>6 DEF Judged
    <3> QED BY <2>1, <3>2, <3>4, <3>7
  <2>2. CASE b.state = "halfOpen"
    <3>1. r = SetState(b, "open", now) BY <2>0, <2>2 DEF OnFailure
    <3>2. r.state = "open" BY <2>2, <3>1, SetStateCloses DEF States
    <3> QED BY <3>2
  <2>3. CASE b.state \notin {"closed", "halfOpen"} BY <2>0, <2>3 DEF OnFailure
  <2> QED BY <2>1, <2>2, <2>3
<1> QED BY <1>1, <1>2, <1>3

\* A result after currentState.
LEMMA ResultCloses ==
  ASSUME NEW a \in Fields, Good(a, a), NEW now \in Nat, NEW gen, NEW success \in BOOLEAN,
         NEW r, r = Settle(CurrentState(a, now), gen, success, now), r.state = "closed"
  PROVE  Closes(a, r, now)
<1>0. PICK d : d = CurrentState(a, now) OBVIOUS
<1>1. d \in Fields BY <1>0, CurrentStateGood DEF Good
<1>2. \/ r = d
      \/ r.counts = NoCounts /\ r.expiry = now + Interval /\ r.window = NewWindow
      \/ d.state = "closed" /\ r.expiry = d.expiry /\ Judged(d.counts, r, now)
  BY <1>0, <1>1, SettleCloses
<1>3. d.state = "closed" =>
        /\ a.state = "closed"
        /\ \/ d = a /\ (Interval > 0 => a.expiry >= now)
           \/ a.expiry < now /\ d.counts = NoCounts /\ d.expiry = now + Interval
              /\ d.window = a.window
  BY <1>0, CurrentCloses
<1>4. CASE r = d BY <1>3, <1>4 DEF Closes, Fresh
<1>5. CASE r.counts = NoCounts /\ r.expiry = now + Interval /\ r.window = NewWindow
  BY <1>5 DEF Closes, Fresh
<1>6. CASE d.state = "closed" /\ r.expiry = d.expiry /\ Judged(d.counts, r, now)
  BY <1>3, <1>6 DEF Closes
<1> QED BY <1>2, <1>4, <1>5, <1>6

\* Reset.
LEMMA ResetCloses ==
  ASSUME NEW a \in Fields, NEW now \in Nat, NEW r, r = ResetFields(a, now)
  PROVE  Closes(a, r, now)
<1> DEFINE x == now + Interval
           g == a.generation + 1
           c == [a EXCEPT !.state = "closed", !.generation = g, !.counts = NoCounts,
                          !.window = NewWindow, !.expiry = x]
<1>1. r = Publish(c, Event(a.state, "closed")) BY DEF ResetFields
<1> HIDE DEF x, g
<1>2. r.counts = NoCounts /\ r.expiry = x /\ r.window = NewWindow
  BY <1>1 DEF Publish, Fields
<1> QED BY <1>2 DEF Closes, Fresh, x

\* What Critical makes of since.
Since(b) == CASE b.counts = NoCounts -> 0
              [] b.counts.Requests = 1 /\ b # cb -> clock
              [] OTHER -> since

\* What a step can do to the evidence of a breaker that is Closed after it.
LEMMA ClosedStep ==
  ASSUME IInv, [Next]_vars, cb'.state = "closed"
  PROVE  \/ SameEvidence(cb, cb') /\ since' = since /\ clock' \in {clock, clock + 1}
         \/ Closes(cb, cb', clock) /\ since' = Since(cb') /\ clock' = clock
<1>1. ASSUME UNCHANGED <<cb, since>>
      PROVE SameEvidence(cb, cb') /\ since' = since
  BY <1>1 DEF SameEvidence
<1>2. CASE UNCHANGED vars BY <1>1, <1>2 DEF vars
<1>3. ASSUME NEW c \in Callers, FastPath(c) \/ FnPanics(c)
      PROVE  SameEvidence(cb, cb') /\ since' = since /\ clock' = clock
  BY <1>1, <1>3 DEF FastPath, FastLoadState, FastReadClock, FastLoadExpiry, FastRecheck,
                    FastLoadGen, FnPanics
<1>4. ASSUME mu = Free PROVE cb \in Fields /\ clock \in Nat /\ Good(cb, cb)
  BY <1>4, FreeIsGood
<1>5. ASSUME mu = Free, cb' = CurrentState(cb, clock) PROVE Closes(cb, cb', clock)
  <2>1. /\ cb.state = "closed"
        /\ \/ cb' = cb /\ (Interval > 0 => cb.expiry >= clock)
           \/ cb.expiry < clock /\ cb'.counts = NoCounts /\ cb'.expiry = clock + Interval
              /\ cb'.window = cb.window
    BY <1>4, <1>5, CurrentCloses
  <2> QED BY <2>1 DEF Closes, Fresh
<1>6. ASSUME NEW c \in Callers, BeforeRequest(c)
      PROVE  Closes(cb, cb', clock) /\ since' = Since(cb') /\ clock' = clock
  <2>1. /\ mu = Free /\ cb' = CurrentState(cb, clock) /\ clock' = clock
        /\ since' = Since(cb')
    BY <1>6 DEF BeforeRequest, Critical, Since
  <2> QED BY <1>5, <2>1
<1>7. ASSUME NEW c \in Callers, NEW success \in BOOLEAN, AfterRequest(c, success)
      PROVE  Closes(cb, cb', clock) /\ since' = Since(cb') /\ clock' = clock
  <2>1. /\ mu = Free /\ cb' = Settle(CurrentState(cb, clock), call[c].gen, success, clock)
        /\ clock' = clock /\ since' = Since(cb')
    BY <1>7 DEF AfterRequest, Critical, Since
  <2> QED BY <1>4, <2>1, ResultCloses
<1>8. CASE State
  <2>1. /\ mu = Free /\ cb' = CurrentState(cb, clock) /\ clock' = clock
        /\ since' = Since(cb')
    BY <1>8 DEF State, Critical, Since
  <2> QED BY <1>5, <2>1
<1>9. CASE Reset
  <2>1. /\ mu = Free /\ cb' = ResetFields(cb, clock) /\ clock' = clock
        /\ since' = Since(cb')
    BY <1>9 DEF Reset, Critical, Since
  <2> QED BY <1>4, <2>1, ResetCloses
<1>10. CASE Publishing
  <2>1. since' = since /\ clock' = clock
    BY <1>10 DEF Publishing, StoreGen, StoreExpiry, StoreState, EmitSend, EmitDrop
  <2>2. CASE cb' = cb BY <1>1, <2>1, <2>2
  <2>3. CASE cb' # cb
    <3>1. Unlocking
      BY <1>10, <2>3 DEF Publishing, StoreGen, StoreExpiry, StoreState, EmitSend, EmitDrop
    <3>2. cb \in Fields BY DEF IInv, TypeOK, Fields
    <3>3. SameEvidence(cb, cb') BY <3>1, <3>2 DEF Unlocking, Fields, SameEvidence
    <3> QED BY <2>1, <3>3
  <2> QED BY <2>2, <2>3
<1>11. CASE Dispatcher \/ Close \/ Tick
  BY <1>1, <1>11 DEF Dispatcher, Deliver, CallbackReturns, DispatcherExits, Close, Tick
<1> QED BY <1>2, <1>3, <1>6, <1>7, <1>8, <1>9, <1>10, <1>11 DEF Next, Locking

-----------------------------------------------------------------------------
\* The inductive invariant: evidence is counted until the interval of its oldest outcome
\* ends, and that end is never more than Interval away.
Aged ==
  /\ since <= clock
  /\ cb.state = "closed" => cb.expiry <= clock + Interval
  /\ Interval > 0 /\ cb.state = "closed" /\ cb.counts # NoCounts =>
       cb.expiry <= since + Interval

\* The first outcome counted makes Requests 1.
LEMMA FirstOutcome ==
  /\ CountsOnSuccess(NoCounts).Requests = 1
  /\ CountsOnFailure(NoCounts).Requests = 1
<1>1. CountModulus \in Nat /\ CountModulus > 1 BY ConfigTyped
<1>2. Inc(0) = 1 BY <1>1 DEF Inc
<1> QED BY <1>2 DEF CountsOnSuccess, CountsOnFailure, NoCounts

\* since never runs ahead of the clock.
LEMMA SinceBounded ==
  ASSUME IInv, Aged, NEW b
  PROVE  Since(b) \in Nat /\ Since(b) <= clock
<1>1. clock \in Nat /\ since \in Nat BY DEF IInv, TypeOK
<1> QED BY <1>1 DEF Since, Aged

\* An outcome is counted inside the interval of the oldest one it is counted with: the
\* interval was not over when it was recorded, or the counts were cleared for it.
LEMMA OutcomeStep ==
  ASSUME IInv, IInv', Aged, [Next]_vars, cb'.state = "closed",
         Closes(cb, cb', clock), since' = Since(cb'), clock' = clock, cb' # cb,
         cb'.counts # NoCounts
  PROVE  /\ cb'.expiry <= clock + Interval
         /\ Interval > 0 => cb'.expiry <= since' + Interval
         /\ Interval > 0 => clock - since' <= Interval
<1>0. /\ clock \in Nat /\ since \in Nat /\ since' \in Nat /\ Interval \in Nat
      /\ cb.expiry \in Nat /\ cb'.expiry \in Nat
  BY ConfigTyped DEF IInv, TypeOK
<1>1. since' \in {clock, since} /\ (cb'.counts.Requests = 1 => since' = clock)
  BY DEF Since
<1>2. CASE /\ cb.state = "closed" /\ (Interval > 0 => cb.expiry >= clock)
           /\ cb'.expiry = cb.expiry /\ Judged(cb.counts, cb', clock)
  <2>1. cb.counts = NoCounts => since' = clock
    <3> SUFFICES ASSUME cb.counts = NoCounts PROVE cb'.counts.Requests = 1
      BY <1>1
    <3> QED BY <1>2, FirstOutcome DEF Judged
  <2>2. cb.expiry <= clock + Interval
        /\ (Interval > 0 /\ cb.counts # NoCounts => cb.expiry <= since + Interval)
    BY <1>2 DEF Aged
  <2> QED BY <1>0, <1>1, <1>2, <2>1, <2>2
<1>3. CASE cb'.expiry = clock + Interval /\ Judged(NoCounts, cb', clock)
  <2>1. cb'.counts.Requests = 1 BY <1>3, FirstOutcome DEF Judged
  <2> QED BY <1>0, <1>1, <1>3, <2>1
<1> QED BY <1>2, <1>3 DEF Closes, Fresh

\* The ages of the evidence, step by step.
LEMMA NextAged ==
  ASSUME IInv, IInv', Aged, [Next]_vars PROVE Aged'
<1>0. /\ clock \in Nat /\ clock' \in Nat /\ since \in Nat /\ Interval \in Nat
      /\ cb.expiry \in Nat /\ cb'.expiry \in Nat
  BY ConfigTyped DEF IInv, TypeOK
<1>1. since' <= clock'
  <2>1. since' = since \/ since' = Since(cb')
    BY DEF Next, vars, Dispatcher, Deliver, CallbackReturns, DispatcherExits, Close,
       Tick, FastPath, FastLoadState, FastReadClock, FastLoadExpiry, FastRecheck, FastLoadGen,
       FnPanics, Locking, BeforeRequest, AfterRequest, State, Reset, chanVars, Publishing,
       StoreGen, StoreExpiry, StoreState, EmitSend, EmitDrop, Critical, Since
  <2>2. clock' = clock \/ clock' = clock + 1
    BY DEF Next, vars, Dispatcher, Deliver, CallbackReturns, DispatcherExits, Close,
       Tick, FastPath, FastLoadState, FastReadClock, FastLoadExpiry, FastRecheck, FastLoadGen,
       FnPanics, Locking, BeforeRequest, AfterRequest, State, Reset, chanVars, Publishing,
       StoreGen, StoreExpiry, StoreState, EmitSend, EmitDrop
  <2>3. since' \in Nat /\ since' <= clock
    <3>1. PICK b : b = cb' OBVIOUS
    <3>2. Since(b) \in Nat /\ Since(b) <= clock BY SinceBounded
    <3>3. since <= clock BY DEF Aged
    <3> QED BY <1>0, <2>1, <3>1, <3>2, <3>3
  <2> QED BY <1>0, <2>2, <2>3
<1> SUFFICES ASSUME cb'.state = "closed"
             PROVE  /\ cb'.expiry <= clock' + Interval
                    /\ Interval > 0 /\ cb'.counts # NoCounts => cb'.expiry <= since' + Interval
  BY <1>1 DEF Aged
<1>2. CASE SameEvidence(cb, cb') /\ since' = since /\ clock' \in {clock, clock + 1}
  BY <1>0, <1>2 DEF Aged, SameEvidence
<1>3. CASE Closes(cb, cb', clock) /\ since' = Since(cb') /\ clock' = clock
  <2>1. CASE cb' = cb
    <3>1. cb.counts # NoCounts => since' = since BY <1>3, <2>1 DEF Since
    <3> QED BY <1>0, <1>3, <2>1, <3>1 DEF Aged
  <2>2. CASE cb' # cb /\ cb'.counts # NoCounts BY <1>3, <2>2, OutcomeStep
  <2>3. CASE cb' # cb /\ cb'.counts = NoCounts
    <3>1. cb'.expiry = clock + Interval \/ (cb'.expiry = cb.expiry /\ cb.state = "closed")
      BY <1>3, <2>3 DEF Closes, Fresh
    <3> QED BY <1>0, <1>3, <2>3, <3>1 DEF Aged
  <2> QED BY <2>1, <2>2, <2>3
<1> QED BY <1>2, <1>3, ClosedStep

\* Outcomes counted together in Closed are at most Interval apart, for every Interval, any
\* number of callers and counters that wrap at any width (breaker.go:393-399).
THEOREM OutcomesCountTogether == Spec => OutcomesShareAnInterval
<1>1. Init => Aged BY ConfigTyped DEF Init, Aged
<1>2. IInv /\ IInv' /\ Aged /\ [Next]_vars => Aged' BY NextAged
<1>3. ASSUME IInv, IInv', Aged, [Next]_vars, Interval > 0, cb'.state = "closed",
             cb'.counts # cb.counts, cb'.counts # NoCounts
      PROVE  clock - since' <= Interval
  <2>1. ~SameEvidence(cb, cb') /\ cb' # cb BY <1>3 DEF SameEvidence
  <2>2. Closes(cb, cb', clock) /\ since' = Since(cb') /\ clock' = clock
    BY <1>3, <2>1, ClosedStep
  <2> QED BY <1>3, <2>1, <2>2, OutcomeStep
<1>4. IInv /\ IInv' /\ Aged /\ [Next]_vars =>
        [/\ Interval > 0 /\ cb'.state = "closed"
         /\ cb'.counts # cb.counts /\ cb'.counts # NoCounts
         => clock - since' <= Interval]_vars
  BY <1>3
<1> QED BY <1>1, <1>2, <1>4, Invariance, PTL DEF Spec, OutcomesShareAnInterval

-----------------------------------------------------------------------------
\* A predicate that only a failure can make true.
NeedsFailure == /\ ~ReadyToTrip(NoCounts)
                /\ \A k \in CountsType : ~ReadyToTrip(CountsOnSuccess(k))

\* What a result leaves Closed, the trip policy has seen and not condemned, whatever
\* kind of evidence it goes by.
ResultsAreJudged ==
  [][/\ cb'.state = "closed" /\ cb'.counts # cb.counts /\ cb'.counts # NoCounts
     => ~TripDue(cb', clock)]_vars

\* A count window that has not called for tripping, whatever the time.
Calm == WindowType = "count" /\ cb.state = "closed" => ~WindowTrips(cb.window, 0)

\* Count windows do not age.
LEMMA CountWindowsDoNotAge ==
  ASSUME WindowType = "count", NEW w, NEW now
  PROVE  WindowTrips(w, now) <=> WindowTrips(w, 0)
BY DEF WindowTrips, WindowStats

\* An empty count window calls for nothing.
LEMMA EmptyIsCalm ==
  ASSUME WindowType = "count" PROVE ~WindowTrips(NewWindow, 0)
<1>1. NewWindow = NewCountWindow(WindowSize) BY DEF NewWindow
<1>2. WindowStats(NewWindow, 0).calls = 0
  BY <1>1 DEF WindowStats, CountStats, NewCountWindow
<1>3. MinimumCalls \in Nat \ {0} BY ConfigAssumption
<1> QED BY <1>2, <1>3 DEF WindowTrips

\* A judged outcome leaves nothing due.
LEMMA JudgedIsNotDue ==
  ASSUME UsesWindow \/ NeedsFailure, NEW k \in CountsType, NEW b, NEW now, Judged(k, b, now)
  PROVE  ~TripDue(b, now)
BY DEF Judged, TripDue, NeedsFailure

\* A Closed breaker keeps a count window that calls for nothing.
LEMMA NextCalm ==
  ASSUME IInv, Calm, [Next]_vars PROVE Calm'
<1> SUFFICES ASSUME WindowType = "count", cb'.state = "closed"
             PROVE  ~WindowTrips(cb'.window, 0)
  BY DEF Calm
<1>1. CASE SameEvidence(cb, cb') BY <1>1 DEF SameEvidence, Calm
<1>2. CASE Closes(cb, cb', clock)
  <2>1. CASE cb' = cb BY <2>1 DEF Calm
  <2>2. CASE Fresh(cb, cb', clock) BY <2>2, EmptyIsCalm DEF Fresh, Calm
  <2>3. ASSUME NEW k, Judged(k, cb', clock) PROVE ~WindowTrips(cb'.window, 0)
    <3>1. ~WindowTrips(cb'.window, clock) BY <2>3 DEF Judged, UsesWindow
    <3> QED BY <3>1, CountWindowsDoNotAge
  <2> QED BY <1>2, <2>1, <2>2, <2>3 DEF Closes
<1> QED BY <1>1, <1>2, ClosedStep

\* A change of the evidence that is not a fresh start is judged.
LEMMA ChangesAreJudged ==
  ASSUME IInv, [Next]_vars, cb'.state = "closed", cb'.counts # cb.counts
  PROVE  \/ Fresh(cb, cb', clock)
         \/ \E k \in CountsType : Judged(k, cb', clock)
<1>1. ~SameEvidence(cb, cb') /\ cb' # cb BY DEF SameEvidence
<1>2. Closes(cb, cb', clock) BY <1>1, ClosedStep
<1>3. cb.counts \in CountsType /\ NoCounts \in CountsType BY FreshTyped DEF IInv, TypeOK
<1> QED BY <1>1, <1>2, <1>3 DEF Closes

\* No result leaves the breaker Closed with evidence that calls for tripping, under either
\* window or a predicate that only a failure can make true (breaker.go:416-419).
THEOREM EveryResultIsJudged ==
  UsesWindow \/ NeedsFailure => (Spec => ResultsAreJudged)
<1> SUFFICES ASSUME UsesWindow \/ NeedsFailure PROVE Spec => ResultsAreJudged
  OBVIOUS
<1>1. ASSUME IInv, [Next]_vars, cb'.state = "closed", cb'.counts # cb.counts,
             cb'.counts # NoCounts
      PROVE  ~TripDue(cb', clock)
  <2>1. PICK k \in CountsType : Judged(k, cb', clock) BY <1>1, ChangesAreJudged DEF Fresh
  <2> QED BY <2>1, JudgedIsNotDue
<1>2. IInv /\ [Next]_vars =>
        [/\ cb'.state = "closed" /\ cb'.counts # cb.counts /\ cb'.counts # NoCounts
         => ~TripDue(cb', clock)]_vars
  BY <1>1
<1> QED BY <1>2, Invariance, PTL DEF Spec, ResultsAreJudged

\* With a count window, or such a predicate, neither does the end of an interval, a Reset
\* or a recovery.  (A time window ages: see ResultsAreJudged.)
THEOREM TripsAreNeverOverdue ==
  WindowType = "count" \/ (WindowType = "disabled" /\ NeedsFailure) => (Spec => NoTripOverdue)
<1> SUFFICES ASSUME WindowType = "count" \/ (WindowType = "disabled" /\ NeedsFailure)
             PROVE  Spec => NoTripOverdue
  OBVIOUS
<1>0. UsesWindow \/ NeedsFailure BY DEF UsesWindow
<1>1. Init => Calm BY EmptyIsCalm DEF Init, Calm
<1>2. IInv /\ Calm /\ [Next]_vars => Calm' BY NextCalm
<1>3. ASSUME IInv, Calm, Calm', [Next]_vars, cb'.state = "closed", cb'.counts # cb.counts
      PROVE  ~TripDue(cb', clock)
  <2>1. CASE Fresh(cb, cb', clock)
    <3>1. CASE WindowType = "count"
      <4>1. ~WindowTrips(cb'.window, 0) BY <1>3, <3>1 DEF Calm
      <4>2. ~WindowTrips(cb'.window, clock) BY <3>1, <4>1, CountWindowsDoNotAge
      <4> QED BY <3>1, <4>2 DEF TripDue, UsesWindow
    <3>2. CASE WindowType = "disabled" /\ NeedsFailure
      BY <2>1, <3>2 DEF TripDue, UsesWindow, NeedsFailure, Fresh
    <3> QED BY <3>1, <3>2
  <2>2. CASE \E k \in CountsType : Judged(k, cb', clock)
    BY <1>0, <2>2, JudgedIsNotDue
  <2> QED BY <1>3, <2>1, <2>2, ChangesAreJudged
<1>4. IInv /\ Calm /\ Calm' /\ [Next]_vars =>
        [cb'.state = "closed" /\ cb'.counts # cb.counts => ~TripDue(cb', clock)]_vars
  BY <1>3
<1> QED BY <1>1, <1>2, <1>4, Invariance, PTL DEF Spec, NoTripOverdue
==============================================================================
