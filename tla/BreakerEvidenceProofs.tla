------------------------- MODULE BreakerEvidenceProofs -------------------------
(***************************************************************************)
(* The evidence breakers judge by.                                          *)
(*                                                                          *)
(* Redis: what the shared hash counts is what the instances did, for any    *)
(* number of instances and callers, any drift of their clocks and any       *)
(* sequence of crashes, failures and lost replies.  The argument is that    *)
(* generations fence: as long as no Reset starts them again beside a        *)
(* running call, the generation changes exactly when the state does, so a   *)
(* call carries the hash's generation if and only if it was admitted in the *)
(* present period.                                                          *)
(*                                                                          *)
(* The configuration and the window of one process's breaker follow.        *)
(***************************************************************************)
EXTENDS BreakerEvidence, FiniteSetTheorems, TLAPS

Hashes == [state : States, generation : Nat, expiry : Int,
           consecutive_failures : Nat, half_open_admitted : Nat]

Seens == [streak : Nat, trials : Nat, leaked : Nat, resets : Nat, straddled : BOOLEAN]

Typed ==
  /\ cfg \in [threshold : Nat \ {0}, openTimeout : Nat \ {0}, maxRequests : Nat \ {0},
              failOpen : BOOLEAN]
  /\ hash \in Hashes /\ clock \in Nat
  /\ call \in [Callers -> {"idle", "running", "unguarded"}]
  /\ admitted \in [Callers -> Nat]
  /\ current \subseteq Callers
  /\ seen \in Seens

\* The calls admitted since the state last changed are those that carry the hash's
\* generation; no call carries a later one.
Fenced ==
  ~seen.straddled =>
    \A c \in Callers :
      /\ c \in current <=> call[c] = "running" /\ admitted[c] = hash.generation
      /\ call[c] = "running" => admitted[c] <= hash.generation

IInv == Typed /\ Fenced /\ StreakShared /\ TrialSlotsExact

-----------------------------------------------------------------------------
(* The scripts.                                                             *)

\* setDefaults leaves a positive threshold, timeout and number of trials.
LEMMA DefaultsTyped ==
  ASSUME NEW c \in Configs
  PROVE  setDefaults(c) \in [threshold : Nat \ {0}, openTimeout : Nat \ {0},
                             maxRequests : Nat \ {0}, failOpen : BOOLEAN]
<1>1. c \in [threshold : Int, openTimeout : Int, maxRequests : Int, failOpen : BOOLEAN]
  BY RedisAssumption
<1> DEFINE t == IF c.threshold <= 0 THEN 5 ELSE c.threshold
           o == IF c.openTimeout <= 0 THEN 30 ELSE c.openTimeout
           m == IF c.maxRequests <= 0 THEN 1 ELSE c.maxRequests
<1>2. t \in Nat \ {0} /\ o \in Nat \ {0} /\ m \in Nat \ {0}
  BY <1>1
<1>3. setDefaults(c) = [c EXCEPT !.threshold = t, !.openTimeout = o, !.maxRequests = m]
  BY DEF setDefaults
<1> HIDE DEF t, o, m
<1> QED BY <1>1, <1>2, <1>3

\* The admission script does one of three things: it half-opens the breaker and takes
\* the first slot, takes another one, or leaves the hash alone; the last one lets the
\* caller in only if the breaker is closed.
LEMMA AdmitScriptCases ==
  ASSUME Typed, NEW now \in Int
  PROVE  LET h == admitScript(hash, now)
         IN  /\ h \in Hashes
             /\ \/ /\ hash.state = "open" /\ h.state = "half-open"
                   /\ h.generation = hash.generation + 1 /\ h.half_open_admitted = 1
                   /\ Allows(Woken(hash, now))
                \/ /\ hash.state = "half-open" /\ h.state = "half-open"
                   /\ h.generation = hash.generation
                   /\ h.half_open_admitted = hash.half_open_admitted + 1
                   /\ h.half_open_admitted <= cfg.maxRequests
                   /\ Allows(Woken(hash, now))
                \/ h = hash /\ (Allows(Woken(hash, now)) => hash.state = "closed")
<1> USE DEF Typed, Hashes, States, admitScript, Allows, Woken
<1>1. CASE hash.state = "closed"
  BY <1>1
<1>2. CASE hash.state = "half-open"
  BY <1>2
<1>3. CASE hash.state = "open" /\ now >= hash.expiry
  <2> DEFINE g == hash.generation + 1
             w == [hash EXCEPT !.state = "half-open", !.generation = g,
                               !.half_open_admitted = 0]
  <2>1. Woken(hash, now) = w
    BY <1>3
  <2>2. g \in Nat
    OBVIOUS
  <2> HIDE DEF g
  <2>3. w \in Hashes /\ w.state = "half-open" /\ w.generation = g /\ w.half_open_admitted = 0
    BY <2>2
  <2>4. Allows(w)
    BY <2>3
  <2> HIDE DEF w
  <2>5. admitScript(hash, now) = [w EXCEPT !.half_open_admitted = w.half_open_admitted + 1]
    BY <2>1, <2>3, <2>4
  <2>6. /\ admitScript(hash, now) \in Hashes
        /\ admitScript(hash, now).state = "half-open"
        /\ admitScript(hash, now).generation = g
        /\ admitScript(hash, now).half_open_admitted = 1
    <3>1. w.half_open_admitted + 1 = 1
      BY <2>3
    <3> HIDE DEF admitScript, Allows, Woken
    <3> QED BY <2>3, <2>5, <3>1
  <2> QED
    <3> HIDE DEF admitScript, Allows, Woken
    <3> QED BY <1>3, <2>1, <2>4, <2>6 DEF g
<1>4. CASE hash.state = "open" /\ ~(now >= hash.expiry)
  BY <1>4
<1> QED BY <1>1, <1>2, <1>3, <1>4

\* A trip starts a new generation with nothing counted.
LEMMA OpenedIs ==
  ASSUME Typed, NEW now \in Int
  PROVE  /\ Opened(hash, now) \in Hashes
         /\ Opened(hash, now).state = "open"
         /\ Opened(hash, now).generation = hash.generation + 1
         /\ Opened(hash, now).consecutive_failures = 0
<1> DEFINE g == hash.generation + 1
           e == now + cfg.openTimeout
           a == IF hash.state = "half-open" THEN 0 ELSE hash.half_open_admitted
           r == [hash EXCEPT !.state = "open", !.generation = g, !.expiry = e,
                             !.consecutive_failures = 0, !.half_open_admitted = a]
<1>1. Opened(hash, now) = r
  BY DEF Opened
<1>2. g \in Nat /\ e \in Int /\ a \in Nat /\ hash \in Hashes
  BY DEF Typed, Hashes
<1> HIDE DEF g, e, a
<1>3. r \in Hashes /\ r.state = "open" /\ r.generation = g /\ r.consecutive_failures = 0
  BY <1>2 DEF Hashes, States
<1> HIDE DEF r
<1> QED BY <1>1, <1>3 DEF g

\* The record script leaves the hash alone for a call of another generation and in
\* Open; in Closed it counts or trips, in Half-Open it opens, closes or frees a slot.
LEMMA RecordScriptCases ==
  ASSUME Typed, NEW gen \in Nat, NEW ok \in BOOLEAN, NEW now \in Int
  PROVE  LET h == recordScript(hash, gen, ok, now)
         IN  /\ h \in Hashes
             /\ gen # hash.generation => h = hash
             /\ \/ h = hash /\ (gen = hash.generation => hash.state = "open")
                \/ /\ h.state # hash.state /\ h.generation = hash.generation + 1
                   /\ h.state \in {"open", "closed"} /\ h.consecutive_failures = 0
                \/ /\ hash.state = "closed" /\ h.state = "closed" /\ h.generation = hash.generation
                   /\ h.consecutive_failures = IF ok THEN 0 ELSE hash.consecutive_failures + 1
                \/ /\ hash.state = "half-open" /\ h.state = "half-open"
                   /\ h.generation = hash.generation
                   /\ h.half_open_admitted = hash.half_open_admitted - 1
<1> USE DEF Typed, Hashes, States, recordScript, SuccessRecorded, FailureRecorded
<1>1. CASE gen # hash.generation \/ hash.state = "open"
  BY <1>1
<1>2. CASE gen = hash.generation /\ hash.state = "closed"
  <2>1. CASE ok
    BY <1>2, <2>1
  <2>2. CASE ~ok /\ hash.consecutive_failures + 1 < cfg.threshold
    BY <1>2, <2>2
  <2>3. CASE ~ok /\ ~(hash.consecutive_failures + 1 < cfg.threshold)
    BY <1>2, <2>3, OpenedIs
  <2> QED BY <2>1, <2>2, <2>3
<1>3. CASE gen = hash.generation /\ hash.state = "half-open"
  <2>1. CASE ok /\ hash.half_open_admitted - 1 <= 0
    <3>1. recordScript(hash, gen, ok, now) =
            [state |-> "closed", generation |-> hash.generation + 1, expiry |-> hash.expiry,
             consecutive_failures |-> 0, half_open_admitted |-> 0]
      BY <1>3, <2>1
    <3> QED BY <1>3, <2>1, <3>1
  <2>2. CASE ok /\ ~(hash.half_open_admitted - 1 <= 0)
    <3>1. recordScript(hash, gen, ok, now) =
            [hash EXCEPT !.half_open_admitted = hash.half_open_admitted - 1]
      BY <1>3, <2>2
    <3>2. hash.half_open_admitted - 1 \in Nat
      BY <2>2
    <3> QED BY <1>3, <2>2, <3>1, <3>2
  <2>3. CASE ~ok
    BY <1>3, <2>3, OpenedIs
  <2> QED BY <2>1, <2>2, <2>3
<1> QED BY <1>1, <1>2, <1>3
-----------------------------------------------------------------------------
(* The history.                                                             *)

\* Any reading of a clock is an integer.
LEMMA ReadingIsInt ==
  ASSUME Typed, NEW now \in Readings
  PROVE  now \in Int
BY RedisAssumption DEF Typed, Readings

\* What a script's step does to the history: a change of state clears it, a slot taken
\* by nobody is leaked, and a Reset beside running calls is remembered.
LEMMA HistoryOfAdmission ==
  ASSUME Typed, hash' \in Hashes, NEW running \in BOOLEAN
  PROVE  /\ Trial(Period, running) \in Seens
         /\ Trial(Period, running).straddled = seen.straddled
         /\ Changes => Trial(Period, running).streak = 0
         /\ ~Changes => Trial(Period, running).streak = seen.streak
         /\ Changes /\ (running \/ ~SlotTaken) => Trial(Period, running).leaked = 0
         /\ Changes /\ ~running /\ SlotTaken => Trial(Period, running).leaked = 1
         /\ ~Changes /\ (running \/ ~SlotTaken) => Trial(Period, running).leaked = seen.leaked
         /\ ~Changes /\ ~running /\ SlotTaken => Trial(Period, running).leaked = seen.leaked + 1
<1>1. /\ Period \in Seens /\ Period.straddled = seen.straddled
      /\ Changes => Period.streak = 0 /\ Period.leaked = 0
      /\ ~Changes => Period.streak = seen.streak /\ Period.leaked = seen.leaked
  BY DEF Typed, Seens, Period, NewPeriod
<1>2. CASE ~SlotTaken
  BY <1>1, <1>2 DEF Trial, Seens
<1>3. CASE SlotTaken
  <2> DEFINE t == IF Period.trials > cfg.maxRequests THEN Period.trials ELSE Period.trials + 1
             l == IF running THEN Period.leaked ELSE Period.leaked + 1
             r == [Period EXCEPT !.trials = t, !.leaked = l]
  <2>1. Trial(Period, running) = r
    BY <1>3 DEF Trial
  <2>2. t \in Nat /\ l \in Nat
        /\ (running => l = Period.leaked) /\ (~running => l = Period.leaked + 1)
    BY <1>1 DEF Seens, Typed
  <2> HIDE DEF t, l
  <2>3. r \in Seens /\ r.straddled = Period.straddled /\ r.streak = Period.streak /\ r.leaked = l
    BY <1>1, <2>2 DEF Seens
  <2> HIDE DEF r
  <2> QED BY <1>1, <1>3, <2>1, <2>2, <2>3
<1> QED BY <1>2, <1>3

\* A record's step: likewise, and the streak goes on or ends.
LEMMA HistoryOfRecord ==
  ASSUME Typed, hash' \in Hashes, NEW c \in Callers, NEW ok \in BOOLEAN,
         seen' = IF c \in current /\ ~Changes
                 THEN [Period EXCEPT !.streak = IF ok THEN 0 ELSE @ + 1]
                 ELSE Period
  PROVE  /\ seen' \in Seens /\ seen'.straddled = seen.straddled
         /\ Changes => seen'.streak = 0 /\ seen'.leaked = 0
         /\ ~Changes => seen'.leaked = seen.leaked
         /\ ~Changes /\ c \notin current => seen'.streak = seen.streak
         /\ ~Changes /\ c \in current => seen'.streak = IF ok THEN 0 ELSE seen.streak + 1
<1>1. /\ Period \in Seens /\ Period.straddled = seen.straddled
      /\ Changes => Period.streak = 0 /\ Period.leaked = 0
      /\ ~Changes => Period.streak = seen.streak /\ Period.leaked = seen.leaked
  BY DEF Typed, Seens, Period, NewPeriod
<1>2. CASE ~(c \in current /\ ~Changes)
  BY <1>1, <1>2
<1>3. CASE c \in current /\ ~Changes
  <2> DEFINE n == IF ok THEN 0 ELSE Period.streak + 1
             r == [Period EXCEPT !.streak = n]
  <2>1. seen' = r
    BY <1>3
  <2>2. n \in Nat /\ n = IF ok THEN 0 ELSE seen.streak + 1
    BY <1>1, <1>3 DEF Seens
  <2> HIDE DEF n
  <2>3. r \in Seens /\ r.straddled = Period.straddled /\ r.streak = n /\ r.leaked = Period.leaked
    BY <1>1, <2>2 DEF Seens
  <2> HIDE DEF r
  <2> QED BY <1>1, <1>3, <2>1, <2>2, <2>3
<1> QED BY <1>2, <1>3

\* Calls that end without a record leave their slots taken: the trials running and the
\* slots leaked are as many as before.
LEMMA HistoryOfLeak ==
  ASSUME Typed, NEW cs \in SUBSET Callers
  PROVE  /\ Leak(seen, cs) \in Seens
         /\ Leak(seen, cs).straddled = seen.straddled /\ Leak(seen, cs).streak = seen.streak
         /\ hash.state = "half-open" =>
              Cardinality(current \ cs) + Leak(seen, cs).leaked
                = Cardinality(current) + seen.leaked
<1>1. IsFiniteSet(current)
  BY RedisAssumption, FS_Subset DEF Typed
<1>2. /\ IsFiniteSet(cs \cap current) /\ Cardinality(cs \cap current) \in Nat
      /\ Cardinality(current) \in Nat
  BY <1>1, FS_Subset, FS_CardinalityType
<1>3. Cardinality(current \ cs) = Cardinality(current) - Cardinality(cs \cap current)
  <2>1. current \cap cs = cs \cap current
    OBVIOUS
  <2> QED BY <1>1, <2>1, FS_Difference, SMTT(30)
<1> DEFINE k == Cardinality(cs \cap current)
           l == seen.leaked + IF hash.state = "half-open" THEN k ELSE 0
<1>4. Leak(seen, cs) = [seen EXCEPT !.leaked = l]
  BY DEF Leak
<1>5. l \in Nat /\ (hash.state = "half-open" => l = seen.leaked + k)
  BY <1>2 DEF Typed, Seens
<1> HIDE DEF l
<1>6. /\ Leak(seen, cs) \in Seens /\ Leak(seen, cs).leaked = l
      /\ Leak(seen, cs).straddled = seen.straddled /\ Leak(seen, cs).streak = seen.streak
  BY <1>4, <1>5 DEF Typed, Seens
<1> QED BY <1>2, <1>3, <1>5, <1>6 DEF Typed, Seens
-----------------------------------------------------------------------------
(* The steps.                                                               *)

\* An admission that reaches its caller: c joins the running calls when it is let in.
LEMMA AdmitStep ==
  ASSUME IInv, NEW c \in Callers, Admit(c)
  PROVE  IInv'
<1>1. /\ call[c] = "idle" /\ cfg' = cfg /\ clock' = clock /\ Typed
      /\ seen' = Trial(Period, TRUE)
  BY DEF Admit, IInv
<1>2. PICK now \in Readings :
        /\ hash' = admitScript(hash, now)
        /\ IF Allows(Woken(hash, now))
           THEN /\ call' = [call EXCEPT ![c] = "running"]
                /\ admitted' = [admitted EXCEPT ![c] = hash'.generation]
                /\ current' = Admitted \cup {c}
           ELSE current' = Admitted /\ UNCHANGED <<call, admitted>>
  BY DEF Admit
<1> DEFINE in == Allows(Woken(hash, now))
<1>3. /\ hash' \in Hashes
      /\ \/ /\ hash.state = "open" /\ hash'.state = "half-open"
            /\ hash'.generation = hash.generation + 1 /\ hash'.half_open_admitted = 1 /\ in
         \/ /\ hash.state = "half-open" /\ hash'.state = "half-open"
            /\ hash'.generation = hash.generation
            /\ hash'.half_open_admitted = hash.half_open_admitted + 1
            /\ hash'.half_open_admitted <= cfg.maxRequests /\ in
         \/ hash' = hash /\ (in => hash.state = "closed")
  BY <1>1, <1>2, ReadingIsInt, AdmitScriptCases
<1>4. /\ seen' \in Seens /\ seen'.straddled = seen.straddled
      /\ Changes => seen'.streak = 0 /\ seen'.leaked = 0
      /\ ~Changes => seen'.streak = seen.streak /\ seen'.leaked = seen.leaked
  BY <1>1, <1>3, HistoryOfAdmission
<1>5. Typed'
  BY <1>1, <1>2, <1>3, <1>4 DEF Typed, Admitted, Hashes
<1> HIDE DEF in
<1> SUFFICES ASSUME ~seen.straddled PROVE Fenced' /\ StreakShared' /\ TrialSlotsExact'
  BY <1>4, <1>5 DEF IInv, Fenced, StreakShared, TrialSlotsExact
<1>6. /\ c \notin current /\ IsFiniteSet(current)
      /\ \A d \in Callers : /\ d \in current <=> call[d] = "running" /\ admitted[d] = hash.generation
                            /\ call[d] = "running" => admitted[d] <= hash.generation
  BY <1>1, RedisAssumption, FS_Subset DEF Typed, IInv, Fenced
<1>7. CASE hash.state = "open" /\ hash'.state = "half-open"
  <2>1. Changes /\ in /\ current' = {c}
    BY <1>2, <1>3, <1>7 DEF Changes, Admitted, in
  <2>2. Fenced'
    BY <1>1, <1>2, <1>3, <1>6, <1>7, <2>1 DEF Fenced, in, Typed, Hashes
  <2>3. Cardinality(current') = 1
    BY <2>1, FS_Singleton
  <2>4. seen'.leaked = 0
    BY <1>4, <2>1
  <2>5. hash'.half_open_admitted = 1 /\ 1 <= cfg'.maxRequests
    BY <1>1, <1>3, <1>7 DEF Typed
  <2>6. StreakShared'
    BY <1>7 DEF StreakShared
  <2>7. TrialSlotsExact'
    BY <2>3, <2>4, <2>5 DEF TrialSlotsExact
  <2> QED BY <2>2, <2>6, <2>7
<1>8. CASE hash.state = "half-open" /\ hash' # hash
  <2>1. ~Changes /\ in /\ current' = current \cup {c}
    BY <1>2, <1>3, <1>8 DEF Changes, Admitted, in
  <2>2. Fenced'
    BY <1>1, <1>2, <1>3, <1>6, <1>8, <2>1 DEF Fenced, in, Typed, Hashes
  <2>3. Cardinality(current') = Cardinality(current) + 1 /\ Cardinality(current) \in Nat
    BY <1>6, <2>1, FS_AddElement, FS_CardinalityType
  <2>4. hash.half_open_admitted = Cardinality(current) + seen.leaked
    BY <1>8 DEF IInv, TrialSlotsExact
  <2>5. seen'.leaked = seen.leaked /\ seen.leaked \in Nat
    BY <1>1, <1>4, <2>1 DEF Typed, Seens
  <2>6. /\ hash'.state = "half-open" /\ hash'.half_open_admitted = hash.half_open_admitted + 1
        /\ hash'.half_open_admitted <= cfg'.maxRequests
    BY <1>1, <1>3, <1>8
  <2>7. StreakShared'
    BY <2>6 DEF StreakShared
  <2>8. TrialSlotsExact'
    BY <2>3, <2>4, <2>5, <2>6 DEF TrialSlotsExact
  <2> QED BY <2>2, <2>7, <2>8
<1>9. CASE hash' = hash
  <2>1. ~Changes /\ Admitted = current
    BY <1>9 DEF Changes, Admitted
  <2>2. CASE in
    <3>1. hash.state = "closed" /\ current' = current \cup {c}
      BY <1>2, <2>1, <2>2, <1>9, <1>3 DEF in, Hashes
    <3>2. Fenced'
      BY <1>1, <1>2, <1>6, <1>9, <2>2, <3>1 DEF Fenced, in, Typed, Hashes
    <3> QED BY <1>4, <1>9, <2>1, <3>1, <3>2 DEF IInv, StreakShared, TrialSlotsExact
  <2>3. CASE ~in
    <3>1. current' = current /\ call' = call /\ admitted' = admitted
      BY <1>2, <2>1, <2>3 DEF in
    <3> QED BY <1>1, <1>4, <1>9, <2>1, <3>1 DEF IInv, Fenced, StreakShared, TrialSlotsExact
  <2> QED BY <2>2, <2>3
<1> QED BY <1>3, <1>7, <1>8, <1>9

\* An admission nobody runs under: State, or one whose answer did not arrive.
SilentAdmission ==
  /\ hash' = hash \/ \E now \in Readings : hash' = admitScript(hash, now)
  /\ current' = Admitted /\ seen' = Trial(Period, FALSE)
  /\ call' \in [Callers -> {"idle", "running", "unguarded"}]
  /\ \A d \in Callers : call'[d] = "running" <=> call[d] = "running"
  /\ UNCHANGED <<cfg, clock, admitted>>

\* A slot it takes is leaked at once; a call already running keeps its place.
LEMMA AdmitForNobody ==
  ASSUME IInv, SilentAdmission
  PROVE  IInv'
<1>1. /\ Typed /\ cfg' = cfg /\ clock' = clock /\ admitted' = admitted /\ current' = Admitted
      /\ call' \in [Callers -> {"idle", "running", "unguarded"}]
      /\ \A d \in Callers : call'[d] = "running" <=> call[d] = "running"
  BY DEF IInv, SilentAdmission
<1>2. /\ hash' \in Hashes
      /\ \/ /\ hash.state = "open" /\ hash'.state = "half-open"
            /\ hash'.generation = hash.generation + 1 /\ hash'.half_open_admitted = 1
         \/ /\ hash.state = "half-open" /\ hash'.state = "half-open"
            /\ hash'.generation = hash.generation
            /\ hash'.half_open_admitted = hash.half_open_admitted + 1
            /\ hash'.half_open_admitted <= cfg.maxRequests
         \/ hash' = hash
  <2>1. CASE hash' = hash
    BY <1>1, <2>1 DEF Typed
  <2>2. CASE \E now \in Readings : hash' = admitScript(hash, now)
    <3>1. PICK now \in Readings : hash' = admitScript(hash, now)
      BY <2>2
    <3> QED BY <1>1, <3>1, ReadingIsInt, AdmitScriptCases
  <2> QED BY <2>1, <2>2 DEF SilentAdmission
<1>3. /\ seen' \in Seens /\ seen'.straddled = seen.straddled
      /\ Changes => seen'.streak = 0 /\ (SlotTaken => seen'.leaked = 1)
      /\ ~Changes => /\ seen'.streak = seen.streak
                     /\ SlotTaken => seen'.leaked = seen.leaked + 1
                     /\ ~SlotTaken => seen'.leaked = seen.leaked
  BY <1>1, <1>2, HistoryOfAdmission DEF SilentAdmission
<1>4. Typed'
  BY <1>1, <1>2, <1>3 DEF Typed, Admitted
<1> SUFFICES ASSUME ~seen.straddled PROVE Fenced' /\ StreakShared' /\ TrialSlotsExact'
  BY <1>3, <1>4 DEF IInv, Fenced, StreakShared, TrialSlotsExact
<1>5. \A d \in Callers : /\ d \in current <=> call[d] = "running" /\ admitted[d] = hash.generation
                         /\ call[d] = "running" => admitted[d] <= hash.generation
  BY DEF IInv, Fenced
<1>6. CASE hash.state = "open" /\ hash'.state = "half-open"
  <2>1. Changes /\ SlotTaken /\ current' = {}
    BY <1>1, <1>2, <1>6 DEF Changes, Admitted, SlotTaken
  <2>2. Fenced'
    BY <1>1, <1>2, <1>5, <1>6, <2>1 DEF Fenced, Typed, Hashes
  <2>3. Cardinality(current') = 0
    BY <2>1, FS_EmptySet
  <2>4. seen'.leaked = 1
    BY <1>3, <2>1
  <2>5. hash'.half_open_admitted = 1 /\ 1 <= cfg'.maxRequests
    BY <1>1, <1>2, <1>6 DEF Typed
  <2>6. StreakShared'
    BY <1>6 DEF StreakShared
  <2>7. TrialSlotsExact'
    <3>1. hash'.half_open_admitted = Cardinality(current') + seen'.leaked
      BY <2>3, <2>4, <2>5
    <3> QED BY <2>5, <3>1 DEF TrialSlotsExact
  <2> QED BY <2>2, <2>6, <2>7
<1>7. CASE hash.state = "half-open" /\ hash' # hash
  <2>1. ~Changes /\ SlotTaken /\ current' = current
    BY <1>1, <1>2, <1>7 DEF Changes, Admitted, SlotTaken, Typed, Hashes
  <2>2. Fenced'
    BY <1>1, <1>2, <1>5, <1>7, <2>1 DEF Fenced
  <2>3. /\ hash.half_open_admitted = Cardinality(current) + seen.leaked
        /\ Cardinality(current) \in Nat
    BY <1>1, <1>7, RedisAssumption, FS_Subset, FS_CardinalityType DEF IInv, TrialSlotsExact, Typed
  <2>4. seen'.leaked = seen.leaked + 1 /\ seen.leaked \in Nat
    BY <1>1, <1>3, <2>1 DEF Typed, Seens
  <2>5. /\ hash'.state = "half-open" /\ hash'.half_open_admitted = hash.half_open_admitted + 1
        /\ hash'.half_open_admitted <= cfg'.maxRequests
    BY <1>1, <1>2, <1>7
  <2>6. StreakShared'
    BY <2>5 DEF StreakShared
  <2>7. TrialSlotsExact'
    <3>1. hash'.half_open_admitted = Cardinality(current') + seen'.leaked
      BY <1>1, <2>1, <2>3, <2>4, <2>5 DEF Typed, Hashes
    <3> QED BY <2>5, <3>1 DEF TrialSlotsExact
  <2> QED BY <2>2, <2>6, <2>7
<1>8. CASE hash' = hash
  <2>1. ~Changes /\ ~SlotTaken /\ current' = current
    BY <1>1, <1>8 DEF Changes, Admitted, SlotTaken, Typed, Hashes
  <2>2. seen'.streak = seen.streak /\ seen'.leaked = seen.leaked
    BY <1>1, <1>3, <2>1 DEF Typed, Seens
  <2> QED BY <1>1, <1>5, <1>8, <2>1, <2>2 DEF IInv, Fenced, StreakShared, TrialSlotsExact
<1> QED BY <1>2, <1>6, <1>7, <1>8

\* The reply lost, or FailMode's decision taken without one.
LEMMA AdmitFailsStep ==
  ASSUME IInv, NEW c \in Callers, AdmitFails(c)
  PROVE  IInv'
<1>1. /\ call' \in [Callers -> {"idle", "running", "unguarded"}]
      /\ \A d \in Callers : call'[d] = "running" <=> call[d] = "running"
  BY DEF IInv, Typed, AdmitFails
<1>2. hash' = hash \/ \E now \in Readings : hash' = admitScript(hash, now)
  BY DEF AdmitFails
<1> QED BY <1>1, <1>2, AdmitForNobody DEF AdmitFails, SilentAdmission

\* A poll of the state.
LEMMA StateStep ==
  ASSUME IInv, State
  PROVE  IInv'
<1>1. \E now \in Readings : hash' = admitScript(hash, now)
  BY DEF State
<1>2. call' \in [Callers -> {"idle", "running", "unguarded"}]
  BY DEF IInv, Typed, State
<1> QED BY <1>1, <1>2, AdmitForNobody DEF State, SilentAdmission

\* A result reaches the hash: it counts if and only if its call is of this period.
LEMMA RecordStep ==
  ASSUME IInv, NEW c \in Callers, NEW ok \in BOOLEAN, Record(c, ok)
  PROVE  IInv'
<1>1. /\ call[c] = "running" /\ cfg' = cfg /\ clock' = clock /\ Typed
      /\ call' = [call EXCEPT ![c] = "idle"] /\ admitted' = [admitted EXCEPT ![c] = 0]
      /\ current' = Admitted \ {c} /\ admitted[c] \in Nat
  BY DEF Record, IInv, Typed
<1>2. PICK now \in Readings : hash' = recordScript(hash, admitted[c], ok, now)
  BY DEF Record
<1>3. /\ hash' \in Hashes
      /\ admitted[c] # hash.generation => hash' = hash
      /\ \/ hash' = hash /\ (admitted[c] = hash.generation => hash.state = "open")
         \/ /\ hash'.state # hash.state /\ hash'.generation = hash.generation + 1
            /\ hash'.state \in {"open", "closed"} /\ hash'.consecutive_failures = 0
         \/ /\ hash.state = "closed" /\ hash'.state = "closed" /\ hash'.generation = hash.generation
            /\ hash'.consecutive_failures = IF ok THEN 0 ELSE hash.consecutive_failures + 1
         \/ /\ hash.state = "half-open" /\ hash'.state = "half-open"
            /\ hash'.generation = hash.generation
            /\ hash'.half_open_admitted = hash.half_open_admitted - 1
  <2>1. PICK g \in Nat : g = admitted[c]
    BY <1>1
  <2> QED BY <1>1, <1>2, <2>1, ReadingIsInt, RecordScriptCases
<1>4. /\ seen' \in Seens /\ seen'.straddled = seen.straddled
      /\ Changes => seen'.streak = 0 /\ seen'.leaked = 0
      /\ ~Changes => seen'.leaked = seen.leaked
      /\ ~Changes /\ c \notin current => seen'.streak = seen.streak
      /\ ~Changes /\ c \in current => seen'.streak = IF ok THEN 0 ELSE seen.streak + 1
  <2>1. seen' = IF c \in current /\ ~Changes
                THEN [Period EXCEPT !.streak = IF ok THEN 0 ELSE @ + 1]
                ELSE Period
    BY DEF Record
  <2> QED BY <1>1, <1>3, <2>1, HistoryOfRecord
<1>5. Typed'
  BY <1>1, <1>3, <1>4 DEF Typed, Admitted
<1> SUFFICES ASSUME ~seen.straddled PROVE Fenced' /\ StreakShared' /\ TrialSlotsExact'
  BY <1>4, <1>5 DEF IInv, Fenced, StreakShared, TrialSlotsExact
<1>6. /\ IsFiniteSet(current) /\ Cardinality(current) \in Nat
      /\ \A d \in Callers : /\ d \in current <=> call[d] = "running" /\ admitted[d] = hash.generation
                            /\ call[d] = "running" => admitted[d] <= hash.generation
  BY <1>1, RedisAssumption, FS_Subset, FS_CardinalityType DEF Typed, IInv, Fenced
<1>7. c \in current <=> admitted[c] = hash.generation
  BY <1>1, <1>6
<1>8. CASE c \notin current
  <2>1. hash' = hash /\ ~Changes /\ current' = current
    BY <1>1, <1>3, <1>7, <1>8 DEF Changes, Admitted
  <2>2. Fenced'
    BY <1>1, <1>6, <1>8, <2>1 DEF Fenced, Typed
  <2>3. seen'.streak = seen.streak /\ seen'.leaked = seen.leaked
    BY <1>4, <1>8, <2>1
  <2> QED BY <1>1, <2>1, <2>2, <2>3 DEF IInv, StreakShared, TrialSlotsExact
<1>9. CASE hash'.state # hash.state
  <2>1. Changes /\ current' = {} /\ hash' # hash
    BY <1>1, <1>9 DEF Changes, Admitted
  <2>2. Fenced'
    BY <1>1, <1>3, <1>6, <1>9, <2>1 DEF Fenced, Typed, Hashes
  <2>3. seen'.streak = 0
    BY <1>4, <2>1
  <2>4. StreakShared'
    BY <1>3, <1>9, <2>1, <2>3 DEF StreakShared
  <2>5. TrialSlotsExact'
    BY <1>3, <1>9, <2>1 DEF TrialSlotsExact
  <2> QED BY <2>2, <2>4, <2>5
<1>10. CASE c \in current /\ hash'.state = hash.state
  <2>1. ~Changes /\ c \in current /\ current' = current \ {c} /\ hash'.generation = hash.generation
    BY <1>1, <1>3, <1>7, <1>10 DEF Changes, Admitted
  <2>2. Fenced'
    BY <1>1, <1>6, <2>1 DEF Fenced, Typed
  <2>3. /\ seen'.leaked = seen.leaked /\ seen.leaked \in Nat
        /\ seen'.streak = IF ok THEN 0 ELSE seen.streak + 1
    BY <1>1, <1>4, <2>1 DEF Typed, Seens
  <2>4. Cardinality(current') = Cardinality(current) - 1
    BY <1>6, <2>1, FS_RemoveElement
  <2>5. StreakShared'
    <3> SUFFICES ASSUME hash.state = "closed"
                 PROVE  hash'.consecutive_failures = seen'.streak
      BY <1>10 DEF StreakShared
    <3>1. hash'.consecutive_failures = IF ok THEN 0 ELSE hash.consecutive_failures + 1
      BY <1>3, <1>7, <1>10
    <3>2. hash.consecutive_failures = seen.streak
      BY DEF IInv, StreakShared
    <3> QED BY <2>3, <3>1, <3>2
  <2>6. TrialSlotsExact'
    <3> SUFFICES ASSUME hash.state = "half-open"
                 PROVE  /\ hash'.half_open_admitted = Cardinality(current') + seen'.leaked
                        /\ hash'.half_open_admitted <= cfg'.maxRequests
      BY <1>10 DEF TrialSlotsExact
    <3>1. hash'.half_open_admitted = hash.half_open_admitted - 1
      BY <1>3, <1>7, <1>10
    <3>2. /\ hash.half_open_admitted = Cardinality(current) + seen.leaked
          /\ hash.half_open_admitted <= cfg.maxRequests
      BY DEF IInv, TrialSlotsExact
    <3> QED BY <1>1, <1>6, <2>3, <2>4, <3>1, <3>2 DEF Typed, Hashes
  <2> QED BY <2>2, <2>5, <2>6
<1> QED BY <1>8, <1>9, <1>10

\* A call ends without a record.
LEMMA NoRecordStep ==
  ASSUME IInv, NEW c \in Callers, NoRecord(c)
  PROVE  IInv'
<1>1. /\ cfg' = cfg /\ hash' = hash /\ clock' = clock
      /\ call' = [call EXCEPT ![c] = "idle"] /\ admitted' = [admitted EXCEPT ![c] = 0]
      /\ current' = current \ {c} /\ seen' = Leak(seen, {c}) /\ Typed
  BY DEF NoRecord, IInv
<1>2. /\ seen' \in Seens /\ seen'.straddled = seen.straddled /\ seen'.streak = seen.streak
      /\ hash.state = "half-open" =>
           Cardinality(current') + seen'.leaked = Cardinality(current) + seen.leaked
  BY <1>1, HistoryOfLeak
<1>3. Typed'
  BY <1>1, <1>2 DEF Typed
<1>4. Fenced'
  BY <1>1, <1>2 DEF IInv, Fenced, Typed
<1> QED BY <1>1, <1>2, <1>3, <1>4 DEF IInv, StreakShared, TrialSlotsExact

\* A process dies with all its calls.
LEMMA CrashStep ==
  ASSUME IInv, NEW i \in Instances, Crash(i)
  PROVE  IInv'
<1> DEFINE gone == {c \in Callers : Home[c] = i}
<1>1. /\ cfg' = cfg /\ hash' = hash /\ clock' = clock
      /\ call' = [c \in Callers |-> IF c \in gone THEN "idle" ELSE call[c]]
      /\ admitted' = [c \in Callers |-> IF c \in gone THEN 0 ELSE admitted[c]]
      /\ current' = current \ gone /\ seen' = Leak(seen, gone) /\ Typed
      /\ gone \in SUBSET Callers
  BY DEF Crash, IInv
<1> HIDE DEF gone
<1>2. /\ seen' \in Seens /\ seen'.straddled = seen.straddled /\ seen'.streak = seen.streak
      /\ hash.state = "half-open" =>
           Cardinality(current') + seen'.leaked = Cardinality(current) + seen.leaked
  BY <1>1, HistoryOfLeak
<1>3. Typed'
  BY <1>1, <1>2 DEF Typed
<1>4. Fenced'
  BY <1>1, <1>2 DEF IInv, Fenced, Typed
<1> QED BY <1>1, <1>2, <1>3, <1>4 DEF IInv, StreakShared, TrialSlotsExact

\* Reset starts the generations again: sound when no call is running.
LEMMA ResetStep ==
  ASSUME IInv, NEW i \in Instances, Reset(i)
  PROVE  IInv'
<1>1. /\ cfg' = cfg /\ clock' = clock /\ call' = call /\ admitted' = admitted /\ Typed
      /\ hash' \in {NoHash, hash}
  BY DEF Reset, IInv
<1>2. CASE hash' = NoHash
  <2> DEFINE n == seen.resets + 1
             t == seen.straddled \/ \E c \in Callers : call[c] = "running"
  <2>1. current' = {} /\ seen' = [NewPeriod(seen) EXCEPT !.resets = NewPeriod(seen).resets + 1,
                          !.straddled = NewPeriod(seen).straddled \/ \E c \in Callers : call[c] = "running"]
    BY <1>2 DEF Reset
  <2>2. /\ NewPeriod(seen) \in Seens /\ NewPeriod(seen).streak = 0
        /\ NewPeriod(seen).resets = seen.resets /\ NewPeriod(seen).straddled = seen.straddled
    BY <1>1 DEF NewPeriod, Typed, Seens
  <2>3. seen' = [NewPeriod(seen) EXCEPT !.resets = n, !.straddled = t]
    BY <2>1, <2>2
  <2>4. n \in Nat /\ t \in BOOLEAN
    BY <1>1 DEF Typed, Seens
  <2>5. ~t => ~\E c \in Callers : call[c] = "running"
    OBVIOUS
  <2> HIDE DEF n, t
  <2>6. seen' \in Seens /\ seen'.streak = 0 /\ seen'.straddled = t
    BY <2>2, <2>3, <2>4 DEF Seens
  <2>7. Typed'
    BY <1>1, <1>2, <2>1, <2>6 DEF Typed, NoHash, Hashes, States
  <2>8. Fenced'
    BY <1>1, <2>1, <2>5, <2>6 DEF Fenced
  <2> QED BY <1>2, <2>6, <2>7, <2>8 DEF IInv, StreakShared, TrialSlotsExact, NoHash
<1>3. CASE hash' = hash /\ hash' # NoHash
  <2> DEFINE n == seen.resets + 1
  <2>1. current' = current /\ seen' = [seen EXCEPT !.resets = n]
    BY <1>3 DEF Reset
  <2>2. n \in Nat
    BY <1>1 DEF Typed, Seens
  <2> HIDE DEF n
  <2>3. /\ seen' \in Seens /\ seen'.streak = seen.streak /\ seen'.leaked = seen.leaked
        /\ seen'.straddled = seen.straddled
    BY <1>1, <2>1, <2>2 DEF Typed, Seens
  <2> QED BY <1>1, <1>3, <2>1, <2>3 DEF IInv, Typed, Fenced, StreakShared, TrialSlotsExact
<1> QED BY <1>1, <1>2, <1>3

-----------------------------------------------------------------------------
(* The theorems.                                                            *)

\* Every reachable state satisfies the inductive invariant.
THEOREM Invariance == Spec => []IInv
<1>1. Init => IInv
  <2> SUFFICES ASSUME Init PROVE IInv
    OBVIOUS
  <2>1. PICK c \in Configs : cfg = setDefaults(c)
    BY DEF Init
  <2>2. Typed
    BY <2>1, DefaultsTyped DEF Init, Typed, NoHash, Hashes, States, Seens
  <2>3. Fenced /\ StreakShared /\ TrialSlotsExact
    BY DEF Init, Fenced, StreakShared, TrialSlotsExact, NoHash
  <2> QED BY <2>2, <2>3 DEF IInv
<1>2. IInv /\ [Next]_vars => IInv'
  <2> SUFFICES ASSUME IInv, [Next]_vars PROVE IInv'
    OBVIOUS
  <2>1. ASSUME NEW c \in Callers, Admit(c) PROVE IInv'
    BY <2>1, AdmitStep
  <2>2. ASSUME NEW c \in Callers, AdmitFails(c) PROVE IInv'
    BY <2>2, AdmitFailsStep
  <2>3. ASSUME NEW c \in Callers, Ends(c) PROVE IInv'
    BY <2>3, RecordStep, NoRecordStep DEF Ends
  <2>4. ASSUME NEW c \in Callers, UnguardedReturns(c) PROVE IInv'
    <3>1. /\ call' = [call EXCEPT ![c] = "idle"] /\ call[c] = "unguarded"
          /\ UNCHANGED <<cfg, hash, clock, admitted, current, seen>>
      BY <2>4 DEF UnguardedReturns
    <3>2. Typed'
      BY <3>1 DEF IInv, Typed
    <3>3. Fenced'
      BY <3>1 DEF IInv, Fenced, Typed
    <3> QED BY <3>1, <3>2, <3>3 DEF IInv, StreakShared, TrialSlotsExact
  <2>5. CASE State
    BY <2>5, StateStep
  <2>6. ASSUME NEW i \in Instances, Reset(i) PROVE IInv'
    BY <2>6, ResetStep
  <2>7. ASSUME NEW i \in Instances, Crash(i) PROVE IInv'
    BY <2>7, CrashStep
  <2>8. CASE Tick
    BY <2>8 DEF Tick, IInv, Typed, Fenced, StreakShared, TrialSlotsExact
  <2>9. CASE UNCHANGED vars
    BY <2>9 DEF vars, IInv, Typed, Fenced, StreakShared, TrialSlotsExact
  <2> QED BY <2>1, <2>2, <2>3, <2>4, <2>5, <2>6, <2>7, <2>8, <2>9 DEF Next
<1> QED BY <1>1, <1>2, PTL DEF Spec

\* The streak in the hash is the streak of the calls admitted since the breaker closed,
\* on however many instances (lua recordScript's generation check, breaker.go).
THEOREM StreakIsShared == Spec => []StreakShared
BY Invariance, PTL DEF IInv

\* The trial slots taken are the trials running anywhere and the slots leaked, and never
\* more than MaxRequests (lua admitScript's and recordScript's half_open_admitted).
THEOREM TrialSlotsAreExact == Spec => []TrialSlotsExact
BY Invariance, PTL DEF IInv

-----------------------------------------------------------------------------
(***************************************************************************)
(* The breaker of one process: the Config it is built from and its sliding  *)
(* window, as an instance of BreakerWindow.  Counted back from the ring's   *)
(* next slot, the d-th slot holds the d-th most recent outcome; so the slot *)
(* about to be overwritten holds the one outcome that leaves the window.    *)
(***************************************************************************)

\* A float64 rate: whole percentages and NaN.
Rates == [nan : BOOLEAN, pct : Int]

\* What a rate is after normalizeSlidingWindow: within (0, 100], or the caller's NaN.
Usable(rate, asked) == /\ rate \in Rates /\ (rate.nan <=> asked.nan)
                       /\ rate.nan \/ rate.pct \in 1..100

\* Configs as Go types them; predicates are abstract.
Written ==
  [MaxRequests : 0..MaxUint32, Timeout : Int, Interval : Int,
   ReadyToTrip : {"nil", "shipped", "custom"}, FailuresToTrip : Int,
   SlidingWindowType : {"disabled", "count", "time", "unknown"},
   SlidingWindowSize : Int, MinimumCalls : Int,
   FailureRateThreshold : Rates]

\* The callers' configurations are Configs, and those put to use have a window.
GoConfigs == /\ MaxUint32 \in Nat \ {0}
             /\ RawConfigs \subseteq Written /\ Exercised \subseteq Written
             /\ \A c \in Exercised : c.SlidingWindowType \in {"count", "time"}

\* New has done its work on the Config it was given.
Built == raw \in Written /\ built \in BOOLEAN /\ (built => local = W!SetDefaults(raw))

\* A rate of at most 100 percent of k is at most k.
LEMMA PercentOf ==
  ASSUME NEW r \in Int, r <= 100, NEW k \in Nat
  PROVE  k * 100 >= r * k
<1>1. k * (100 - r) >= 0 BY SMT
<1>2. k * (100 - r) = k * 100 - r * k BY SMT
<1> QED BY <1>1, <1>2

\* The largest window holds the default ones.  (The bound itself is kept opaque below:
\* a prover that counts to a million does not return.)
LEMMA SizeBound ==
  W!MaxSlidingWindowSize \in Nat /\ 100 <= W!MaxSlidingWindowSize
BY SMT DEF W!MaxSlidingWindowSize

\* normalizeSlidingWindow leaves a size the window can be built with.
LEMMA SizeUsable ==
  ASSUME NEW c \in Written
  PROVE  W!NormalizedSize(c) \in 1..W!MaxSlidingWindowSize
BY SizeBound DEF Written, W!NormalizedSize, W!DefaultCountWindowSize, W!DefaultTimeWindowSeconds

\* It asks for at least one call, and of a count window for no more than it holds.
LEMMA MinimumUsable ==
  ASSUME NEW c \in Written
  PROVE  /\ W!NormalizedMinimum(c) \in Nat \ {0}
         /\ c.SlidingWindowType = "count" => W!NormalizedMinimum(c) <= W!NormalizedSize(c)
<1>1. W!NormalizedSize(c) \in Nat \ {0} BY SizeUsable, SizeBound
<1>2. c.MinimumCalls \in Int BY DEF Written
<1> QED BY <1>1, <1>2 DEF W!NormalizedMinimum, W!DefaultMinimumCalls

\* normalizeSlidingWindow sets the window fields and leaves the others alone.
LEMMA Normalized ==
  ASSUME NEW c \in Written, NEW n, n = W!NormalizeSlidingWindow(c)
  PROVE  /\ n.MaxRequests = c.MaxRequests /\ n.Timeout = c.Timeout
         /\ n.Interval = c.Interval /\ n.ReadyToTrip = c.ReadyToTrip
         /\ n.FailuresToTrip = c.FailuresToTrip
         /\ c.SlidingWindowType \in {"count", "time"} =>
              /\ n.SlidingWindowType = c.SlidingWindowType
              /\ n.SlidingWindowSize = W!NormalizedSize(c)
              /\ n.MinimumCalls = W!NormalizedMinimum(c)
              /\ Usable(n.FailureRateThreshold, c.FailureRateThreshold)
         /\ c.SlidingWindowType \notin {"count", "time"} => n.SlidingWindowType = "disabled"
         /\ n.FailureRateThreshold \in Rates
         /\ n \in Written
<1>1. CASE c.SlidingWindowType \in {"count", "time"}
  <2> DEFINE s == W!NormalizedSize(c)
             m == W!NormalizedMinimum(c)
             f == IF W!OutsideRange(c.FailureRateThreshold)
                    THEN W!DefaultFailureRateThreshold ELSE c.FailureRateThreshold
  <2>1. s \in Int /\ m \in Int /\ f \in Rates /\ Usable(f, c.FailureRateThreshold)
    <3>1. c.FailureRateThreshold \in Rates BY DEF Written
    <3>2. f \in Rates /\ Usable(f, c.FailureRateThreshold)
      BY <3>1 DEF W!OutsideRange, W!DefaultFailureRateThreshold, W!Percent, Usable, Rates
    <3> QED BY <3>2, SizeUsable, SizeBound, MinimumUsable
  <2>2. n = [c EXCEPT !.SlidingWindowSize = s, !.MinimumCalls = m, !.FailureRateThreshold = f]
    BY <1>1 DEF W!NormalizeSlidingWindow
  <2> HIDE DEF s, m, f
  <2>3. /\ n.SlidingWindowSize = s /\ n.MinimumCalls = m /\ n.FailureRateThreshold = f
        /\ n.MaxRequests = c.MaxRequests /\ n.Timeout = c.Timeout
        /\ n.Interval = c.Interval /\ n.ReadyToTrip = c.ReadyToTrip
        /\ n.FailuresToTrip = c.FailuresToTrip /\ n.SlidingWindowType = c.SlidingWindowType
    BY <2>2 DEF Written
  <2>4. n = [MaxRequests |-> c.MaxRequests, Timeout |-> c.Timeout, Interval |-> c.Interval,
             ReadyToTrip |-> c.ReadyToTrip, FailuresToTrip |-> c.FailuresToTrip,
             SlidingWindowType |-> c.SlidingWindowType, SlidingWindowSize |-> s,
             MinimumCalls |-> m, FailureRateThreshold |-> f]
    BY <2>2 DEF Written
  <2>5. n \in Written BY <2>1, <2>4 DEF Written
  <2> QED BY <1>1, <2>1, <2>3, <2>5 DEF s, m
<1>2. CASE c.SlidingWindowType \notin {"count", "time"}
  <2>1. n = [c EXCEPT !.SlidingWindowType = "disabled"]
    BY <1>2 DEF W!NormalizeSlidingWindow
  <2>2. n \in Written BY <2>1 DEF Written
  <2>3. n.FailureRateThreshold \in Rates BY <2>2 DEF Written
  <2>4. n.SlidingWindowType = "disabled" BY <2>1 DEF Written
  <2>5. /\ n.MaxRequests = c.MaxRequests /\ n.Timeout = c.Timeout
        /\ n.Interval = c.Interval /\ n.ReadyToTrip = c.ReadyToTrip
        /\ n.FailuresToTrip = c.FailuresToTrip
    BY <2>1 DEF Written
  <2> QED BY <1>2, <2>2, <2>3, <2>4, <2>5
<1> QED BY <1>1, <1>2

\* What New leaves in each field, whatever the caller wrote.
LEMMA Defaulted ==
  ASSUME GoConfigs, NEW c \in Written, NEW d, d = W!SetDefaults(c)
  PROVE  /\ d.MaxRequests \in 1..MaxUint32 /\ d.Timeout \in Int /\ d.Timeout > 0
         /\ d.Interval \in Int /\ d.Interval >= 0
         /\ d.ReadyToTrip # "nil" /\ d.FailuresToTrip \in Int
         /\ d.FailureRateThreshold \in Rates
         /\ d.SlidingWindowType # "disabled" =>
              /\ d.SlidingWindowType = c.SlidingWindowType
              /\ d.SlidingWindowSize \in 1..W!MaxSlidingWindowSize
              /\ d.MinimumCalls \in Int /\ d.MinimumCalls > 0
              /\ Usable(d.FailureRateThreshold, c.FailureRateThreshold)
         /\ d.SlidingWindowType = "count" => d.SlidingWindowSize >= d.MinimumCalls
         /\ c.SlidingWindowType \in {"count", "time"} =>
              d.SlidingWindowType = c.SlidingWindowType
<1> DEFINE q == IF c.MaxRequests = 0 THEN 1 ELSE c.MaxRequests
           t == IF c.Timeout <= 0 THEN W!DefaultTimeout ELSE c.Timeout
           i == IF c.Interval < 0 THEN 0 ELSE c.Interval
           e == [c EXCEPT !.MaxRequests = q, !.Timeout = t, !.Interval = i]
           n == W!NormalizeSlidingWindow(e)
<1>1. q \in 1..MaxUint32 /\ t \in Int /\ t > 0 /\ i \in Int /\ i >= 0
  <2>1. c.MaxRequests \in 0..MaxUint32 /\ c.Timeout \in Int /\ c.Interval \in Int
    BY DEF Written
  <2> QED BY <2>1 DEF GoConfigs, W!DefaultTimeout
<1>2. d = IF c.ReadyToTrip # "nil" THEN n
          ELSE [n EXCEPT !.ReadyToTrip = "shipped", !.FailuresToTrip = W!DefaultFailuresToTrip]
  BY DEF W!SetDefaults
<1> HIDE DEF q, t, i
<1>3. /\ e.MaxRequests = q /\ e.Timeout = t /\ e.Interval = i
      /\ e.ReadyToTrip = c.ReadyToTrip /\ e.SlidingWindowType = c.SlidingWindowType
      /\ e.FailureRateThreshold = c.FailureRateThreshold
  BY DEF Written
<1>4. e \in Written
  <2>1. q \in 0..MaxUint32 BY <1>1 DEF GoConfigs
  <2> QED BY <1>1, <2>1 DEF Written
<1> HIDE DEF e
<1>5. /\ n.MaxRequests = q /\ n.Timeout = t /\ n.Interval = i
      /\ n.ReadyToTrip = c.ReadyToTrip /\ n.FailureRateThreshold \in Rates /\ n \in Written
  BY <1>3, <1>4, Normalized
<1>6. /\ n.SlidingWindowType # "disabled" =>
           /\ n.SlidingWindowType = c.SlidingWindowType
           /\ n.SlidingWindowSize \in 1..W!MaxSlidingWindowSize
           /\ n.MinimumCalls \in Int /\ n.MinimumCalls > 0
           /\ Usable(n.FailureRateThreshold, c.FailureRateThreshold)
      /\ n.SlidingWindowType = "count" => n.SlidingWindowSize >= n.MinimumCalls
      /\ c.SlidingWindowType \in {"count", "time"} =>
           n.SlidingWindowType = c.SlidingWindowType
  <2>1. W!NormalizedSize(e) \in Int /\ W!NormalizedMinimum(e) \in Nat \ {0}
    BY <1>4, SizeUsable, SizeBound, MinimumUsable
  <2>2. CASE c.SlidingWindowType \in {"count", "time"}
    <3>1. /\ n.SlidingWindowType = e.SlidingWindowType
          /\ n.SlidingWindowSize = W!NormalizedSize(e) /\ n.MinimumCalls = W!NormalizedMinimum(e)
          /\ Usable(n.FailureRateThreshold, e.FailureRateThreshold)
      BY <1>3, <1>4, <2>2, Normalized
    <3> QED BY <1>3, <1>4, <2>1, <3>1, SizeUsable, MinimumUsable
  <2>3. CASE c.SlidingWindowType \notin {"count", "time"}
    <3>1. n.SlidingWindowType = "disabled" BY <1>3, <1>4, <2>3, Normalized
    <3> QED BY <2>3, <3>1
  <2> QED BY <2>2, <2>3
<1> HIDE DEF n
<1>7. CASE c.ReadyToTrip # "nil"
  <2>1. d = n BY <1>2, <1>7
  <2>2. n.FailuresToTrip \in Int BY <1>5 DEF Written
  <2> QED BY <1>1, <1>5, <1>6, <1>7, <2>1, <2>2
<1>8. CASE c.ReadyToTrip = "nil"
  <2>1. d = [n EXCEPT !.ReadyToTrip = "shipped", !.FailuresToTrip = W!DefaultFailuresToTrip]
    BY <1>2, <1>8
  <2>2. /\ d.ReadyToTrip = "shipped" /\ d.FailuresToTrip = W!DefaultFailuresToTrip
        /\ d.MaxRequests = n.MaxRequests /\ d.Timeout = n.Timeout /\ d.Interval = n.Interval
        /\ d.SlidingWindowType = n.SlidingWindowType
        /\ d.SlidingWindowSize = n.SlidingWindowSize /\ d.MinimumCalls = n.MinimumCalls
        /\ d.FailureRateThreshold = n.FailureRateThreshold
    BY <1>5, <2>1 DEF Written
  <2>3. d.FailuresToTrip \in Int BY <2>2 DEF W!DefaultFailuresToTrip
  <2> QED BY <1>1, <1>5, <1>6, <2>2, <2>3
<1> QED BY <1>7, <1>8

\* Built from any int and any ratio, the shipped predicates trip on a full Counts and not
\* on an empty one.
LEMMA ShippedReachable ==
  ASSUME GoConfigs, NEW n \in Int, NEW r \in Rates, NEW c0, NEW c1,
         c0 = [Requests |-> 0, TotalFailures |-> 0, ConsecutiveFailures |-> 0],
         c1 = [Requests |-> MaxUint32, TotalFailures |-> MaxUint32,
               ConsecutiveFailures |-> MaxUint32]
  PROVE  /\ ~W!TripOnConsecutiveFailures(n, MaxUint32, c0)
         /\ ~W!TripOnFailureRatio(r, n, MaxUint32, c0)
         /\ W!TripOnConsecutiveFailures(n, MaxUint32, c1)
         /\ W!TripOnFailureRatio(r, n, MaxUint32, c1)
<1>1. MaxUint32 \in Nat \ {0} BY DEF GoConfigs
<1>2. W!ClampToUint32(n, MaxUint32) \in 1..MaxUint32 BY <1>1 DEF W!ClampToUint32
<1>3. W!ClampRatio(r) \in Rates /\ ~W!ClampRatio(r).nan /\ W!ClampRatio(r).pct <= 100
  BY DEF W!ClampRatio, W!Percent, Rates
<1>4. W!Reaches(MaxUint32, MaxUint32, W!ClampRatio(r))
  <2>1. W!ClampRatio(r).pct \in Int BY <1>3 DEF Rates
  <2>2. MaxUint32 * 100 >= W!ClampRatio(r).pct * MaxUint32 BY <1>1, <1>3, <2>1, PercentOf
  <2> QED BY <1>3, <2>2 DEF W!Reaches
<1>5. c0.Requests = 0 /\ c0.ConsecutiveFailures = 0 OBVIOUS
<1>6. c1.Requests = MaxUint32 /\ c1.ConsecutiveFailures = MaxUint32
      /\ c1.TotalFailures = MaxUint32
  OBVIOUS
<1>7. ~W!TripOnConsecutiveFailures(n, MaxUint32, c0) /\ ~W!TripOnFailureRatio(r, n, MaxUint32, c0)
  BY <1>2, <1>5 DEF W!TripOnConsecutiveFailures, W!TripOnFailureRatio
<1>8. W!TripOnConsecutiveFailures(n, MaxUint32, c1)
  BY <1>1, <1>2, <1>6 DEF W!TripOnConsecutiveFailures
<1>9. W!TripOnFailureRatio(r, n, MaxUint32, c1)
  BY <1>1, <1>2, <1>4, <1>6 DEF W!TripOnFailureRatio
<1> QED BY <1>7, <1>8, <1>9

\* A configuration that setDefaults has been through can trip.
LEMMA BuiltCanTrip ==
  ASSUME GoConfigs, Built PROVE EveryConfigCanTrip
<1> SUFFICES ASSUME built PROVE W!FieldsUsable /\ W!WindowCanTrip /\ W!PredicatesReachable
  BY DEF EveryConfigCanTrip, W!EveryConfigCanTrip
<1>1. raw \in Written /\ local = W!SetDefaults(raw) BY DEF Built
<1>2. /\ local.MaxRequests \in 1..MaxUint32 /\ local.Timeout > 0 /\ local.Interval >= 0
      /\ local.ReadyToTrip # "nil" /\ local.FailuresToTrip \in Int
      /\ local.FailureRateThreshold \in Rates
  BY <1>1, Defaulted
<1>3. /\ local.SlidingWindowType # "disabled" =>
           /\ local.SlidingWindowSize \in 1..W!MaxSlidingWindowSize
           /\ local.MinimumCalls \in Int /\ local.MinimumCalls > 0
           /\ Usable(local.FailureRateThreshold, raw.FailureRateThreshold)
      /\ local.SlidingWindowType = "count" => local.SlidingWindowSize >= local.MinimumCalls
  BY <1>1, Defaulted
<1>4. W!FieldsUsable BY <1>2, <1>3 DEF W!FieldsUsable, Usable
<1>5. W!WindowCanTrip
  <2> DEFINE min == local.MinimumCalls
             rate == local.FailureRateThreshold
  <2>1. SUFFICES ASSUME local.SlidingWindowType # "disabled"
                 PROVE  /\ W!Counting => W!Size >= min
                        /\ W!Reaches(min, min, rate) <=> ~raw.FailureRateThreshold.nan
                        /\ ~W!Reaches(0, min, rate)
    BY <1>1 DEF W!WindowCanTrip, W!UsesWindow
  <2>2. W!Counting => W!Size >= min
    BY <1>3 DEF W!Counting, W!Size
  <2>3. min \in Nat /\ min > 0 /\ Usable(rate, raw.FailureRateThreshold)
    BY <1>3, <2>1
  <2> HIDE DEF min, rate
  <2>4. CASE rate.nan
    BY <2>2, <2>3, <2>4 DEF W!Reaches, Usable
  <2>5. CASE ~rate.nan
    <3>1. ~raw.FailureRateThreshold.nan /\ rate.pct \in 1..100
      BY <2>3, <2>5 DEF Usable
    <3>2. rate.pct \in Int /\ rate.pct <= 100 /\ rate.pct > 0
      BY <3>1
    <3>3. min * 100 >= rate.pct * min
      BY <2>3, <3>2, PercentOf
    <3>4. rate.pct * min > 0
      BY <2>3, <3>2
    <3>5. ~(0 * 100 >= rate.pct * min)
      BY <2>3, <3>2, <3>4
    <3> QED BY <2>2, <2>5, <3>1, <3>3, <3>5 DEF W!Reaches
  <2> QED BY <2>4, <2>5
<1>6. W!PredicatesReachable
  BY <1>2, ShippedReachable DEF W!PredicatesReachable
<1> QED BY <1>4, <1>5, <1>6

\* Whatever a caller writes into a Config, New makes a breaker that can be used and can
\* trip, and that does not trip without a failure; but for a window whose threshold is
\* NaN, which never trips (window.go:235, 247).
THEOREM ConfigsCanTrip == GoConfigs => (W!Spec => []EveryConfigCanTrip)
<1> SUFFICES ASSUME GoConfigs PROVE W!Spec => []EveryConfigCanTrip
  OBVIOUS
<1>1. W!Init => Built BY DEF W!Init, Built, GoConfigs
<1>2. Built /\ [W!Next]_W!vars => Built'
  <2> SUFFICES ASSUME Built, [W!Next]_W!vars PROVE Built'
    OBVIOUS
  <2>1. CASE W!New BY <2>1 DEF W!New, Built
  <2>2. CASE UNCHANGED W!vars BY <2>2 DEF W!vars, Built
  <2>3. CASE ~W!New /\ W!Next
    <3>1. UNCHANGED <<raw, local, built>>
      BY <2>3 DEF W!Next, W!Record, W!Reset, W!ClockAdvances, W!ClockStepsBack
    <3> QED BY <3>1 DEF Built
  <2> QED BY <2>1, <2>2, <2>3
<1>3. Built => EveryConfigCanTrip BY BuiltCanTrip
<1> QED BY <1>1, <1>2, <1>3, PTL DEF W!Spec

-----------------------------------------------------------------------------
\* The slot of the d-th most recent outcome (0 is the last one).
Slot(next, d, n) == IF d < next THEN next - 1 - d ELSE next - 1 - d + n

Outcomes == [failed : BOOLEAN, sec : Int]
Rings(n) == [outcomes : [W!Slots(n) -> BOOLEAN], next : W!Slots(n), filled : 0..n, failures : Int]

\* The ring and the history agree, slot by slot and in number.
Ring ==
  /\ window \in Rings(W!Size)
  /\ window.filled = IF Len(hist) < W!Size THEN Len(hist) ELSE W!Size
  /\ \A d \in 0..(window.filled - 1) :
       window.outcomes[Slot(window.next, d, W!Size)] <=> hist[Len(hist) - d].failed
  /\ window.failures = Cardinality(W!Failed(W!LastN))

\* The inductive invariant: in use, a count window's ring agrees with the history.
Ringed ==
  /\ raw \in Written /\ built \in BOOLEAN
  /\ built => local = W!SetDefaults(raw)
  /\ hist \in Seq(Outcomes) /\ sec \in Int
  /\ ~W!InUse => hist = <<>>
  /\ W!InUse /\ W!Counting => Ring

\* (next + 1) % n, for a slot of the ring.
LEMMA Wraps ==
  ASSUME NEW n \in Nat \ {0}, NEW x \in W!Slots(n)
  PROVE  (x + 1) % n = (IF x + 1 = n THEN 0 ELSE x + 1)
<1>0. x \in Int /\ 0 <= x /\ x < n BY DEF W!Slots
<1>1. CASE x + 1 = n
  <2>1. n % n = 0 BY SMT
  <2> QED BY <1>1, <2>1
<1>2. CASE x + 1 # n
  <2>1. 0 <= x + 1 /\ x + 1 < n BY <1>0, <1>2
  <2>2. PICK y \in Int : y = x + 1 BY <1>0
  <2>3. y % n = y BY <2>1, <2>2, SMT
  <2> QED BY <1>2, <2>2, <2>3
<1> QED BY <1>1, <1>2

\* A breaker in use has a window of at least one slot.
LEMMA SizesPositive ==
  ASSUME GoConfigs, Ringed, W!InUse PROVE W!Size \in Nat \ {0}
<1>1. raw \in Exercised /\ built BY DEF W!InUse
<1>2. raw.SlidingWindowType \in {"count", "time"} /\ raw \in Written BY <1>1 DEF GoConfigs
<1>3. local = W!SetDefaults(raw) BY <1>1 DEF Ringed
<1>4. local.SlidingWindowType \in {"count", "time"} BY <1>2, <1>3, Defaulted
<1>5. local.SlidingWindowSize \in 1..W!MaxSlidingWindowSize BY <1>2, <1>3, <1>4, Defaulted
<1> QED BY <1>5, SizeBound DEF W!Size

\* How many outcomes the last Size are.
LEMMA LastNIs ==
  ASSUME hist \in Seq(Outcomes), W!Size \in Nat \ {0}
  PROVE  /\ IsFiniteSet(W!LastN) /\ IsFiniteSet(W!Failed(W!LastN))
         /\ Cardinality(W!LastN) = IF Len(hist) < W!Size THEN Len(hist) ELSE W!Size
<1> DEFINE first == IF Len(hist) < W!Size THEN 1 ELSE Len(hist) - W!Size + 1
<1>1. Len(hist) \in Nat OBVIOUS
<1>2. first \in Int BY <1>1
<1>3. W!LastN = first..Len(hist) BY <1>1 DEF W!LastN
<1>4. /\ IsFiniteSet(first..Len(hist))
      /\ Cardinality(first..Len(hist)) =
           IF first > Len(hist) THEN 0 ELSE Len(hist) - first + 1
  <2> HIDE DEF first
  <2> QED BY <1>1, <1>2, FS_Interval
<1>5. IsFiniteSet(W!LastN) BY <1>3, <1>4
<1>6. W!Failed(W!LastN) \subseteq W!LastN BY DEF W!Failed
<1>7. IsFiniteSet(W!Failed(W!LastN)) BY <1>5, <1>6, FS_Subset
<1>8. Cardinality(W!LastN) = IF Len(hist) < W!Size THEN Len(hist) ELSE W!Size
  <2>1. Cardinality(W!LastN) = IF first > Len(hist) THEN 0 ELSE Len(hist) - first + 1
    BY <1>3, <1>4
  <2>2. CASE Len(hist) < W!Size
    <3>1. first = 1 BY <2>2
    <3> HIDE DEF first
    <3> QED BY <1>1, <2>1, <2>2, <3>1
  <2>3. CASE ~(Len(hist) < W!Size)
    <3>1. first = Len(hist) - W!Size + 1 BY <2>3
    <3> HIDE DEF first
    <3> QED BY <1>1, <2>1, <2>3, <3>1
  <2> QED BY <2>2, <2>3
<1> QED BY <1>5, <1>7, <1>8

\* Recording takes the outcome that leaves the ring out of the count, and only that one:
\* the slot about to be overwritten holds the oldest of the last Size outcomes.
LEMMA RecordedFailures ==
  ASSUME GoConfigs, Ringed, W!InUse, W!Counting, NEW success \in BOOLEAN, W!Record(success)
  PROVE  Cardinality(W!Failed(W!LastN))' =
           window.failures
             - (IF window.filled = W!Size /\ window.outcomes[window.next] THEN 1 ELSE 0)
             + (IF success THEN 0 ELSE 1)
<1>n. W!Size \in Nat \ {0} /\ W!Size' = W!Size BY SizesPositive DEF W!Record, W!Size
<1>h. /\ hist \in Seq(Outcomes) /\ Len(hist) \in Nat
  BY DEF Ringed
<1>a. hist' = Append(hist, [failed |-> ~success, sec |-> sec]) BY DEF W!Record
<1> DEFINE len == Len(hist)
           old == W!Failed(W!LastN)
           out == len - W!Size + 1
           evicted == window.filled = W!Size /\ window.outcomes[window.next]
<1>0. PICK new \in Outcomes : new = [failed |-> ~success, sec |-> sec]
  <2>1. (~success) \in BOOLEAN OBVIOUS
  <2>2. sec \in Int BY DEF Ringed
  <2> QED BY <2>1, <2>2 DEF Outcomes
<1>b. new.failed <=> ~success BY <1>0
<1>1. /\ Len(hist') = len + 1 /\ (hist'[len + 1].failed <=> ~success)
      /\ \A i \in 1..len : hist'[i] = hist[i]
  <2>1. hist' = Append(hist, new) BY <1>a, <1>0
  <2>2. /\ Len(hist') = len + 1 /\ hist'[len + 1] = new
        /\ \A i \in 1..len : hist'[i] = hist[i]
    BY <1>h, <2>1
  <2> QED BY <1>b, <2>2
<1>2. IsFiniteSet(old) /\ Cardinality(old) = window.failures /\ Cardinality(old) \in Int
  BY <1>n, <1>h, LastNIs, FS_CardinalityType DEF Ringed, Ring
<1>3. W!LastN' = {i \in 1..(len + 1) : i > out}
  BY <1>n, <1>h, <1>1 DEF W!LastN
<1>4. evicted <=> len >= W!Size /\ hist[out].failed
  <2>1. window \in Rings(W!Size) /\ window.filled = (IF len < W!Size THEN len ELSE W!Size)
        /\ \A d \in 0..(window.filled - 1) :
              window.outcomes[Slot(window.next, d, W!Size)] <=> hist[len - d].failed
    BY DEF Ringed, Ring
  <2>2. CASE len < W!Size BY <1>n, <1>h, <2>1, <2>2
  <2>3. CASE len >= W!Size
    <3>1. window.filled = W!Size BY <1>n, <1>h, <2>1, <2>3
    <3>2. W!Size - 1 \in 0..(window.filled - 1) BY <1>n, <3>1
    <3>3. window.next \in Int /\ 0 <= window.next /\ window.next < W!Size
      BY <1>n, <2>1 DEF Rings, W!Slots
    <3>4. Slot(window.next, W!Size - 1, W!Size) = window.next BY <1>n, <3>3 DEF Slot
    <3>5. len - (W!Size - 1) = out BY <1>n, <1>h
    <3>6. window.outcomes[window.next] <=> hist[out].failed BY <2>1, <3>2, <3>4, <3>5
    <3> QED BY <2>3, <3>1, <3>6
  <2> QED BY <1>n, <1>h, <2>2, <2>3
<1> HIDE DEF evicted
<1> DEFINE kept == IF evicted THEN old \ {out} ELSE old
<1>5. W!Failed(W!LastN)' = IF success THEN kept ELSE kept \union {len + 1}
  <2>1. old = {i \in 1..len : i > len - W!Size /\ hist[i].failed} BY DEF W!Failed, W!LastN
  <2>2. kept = {i \in 1..len : i > out /\ hist[i].failed}
    <3>1. CASE evicted BY <1>n, <1>h, <1>4, <2>1, <3>1
    <3>2. CASE ~evicted
      <4>1. ~(len >= W!Size /\ hist[out].failed) BY <1>4, <3>2
      <4> QED BY <1>n, <1>h, <2>1, <3>2, <4>1
    <3> QED BY <3>1, <3>2
  <2>3. W!Failed(W!LastN)' = {i \in 1..(len + 1) : i > out /\ hist'[i].failed}
    BY <1>3 DEF W!Failed
  <2>4. len + 1 > out BY <1>n, <1>h
  <2> HIDE DEF kept
  <2>5. CASE success
    <3>1. ~hist'[len + 1].failed BY <1>1, <2>5
    <3>2. \A i : i \in W!Failed(W!LastN)' <=> i \in kept
      BY <1>h, <1>1, <2>2, <2>3, <3>1
    <3> QED BY <2>5, <3>2
  <2>6. CASE ~success
    <3>1. hist'[len + 1].failed BY <1>1, <2>6
    <3>2. \A i : i \in W!Failed(W!LastN)' <=> i \in kept \/ i = len + 1
      BY <1>h, <1>1, <2>2, <2>3, <2>4, <3>1
    <3> QED BY <2>6, <3>2
  <2> QED BY <2>5, <2>6
<1>6. evicted => out \in old
  BY <1>n, <1>h, <1>4 DEF W!Failed, W!LastN
<1>7. len + 1 \notin old /\ len + 1 \notin kept BY <1>h DEF W!Failed, W!LastN
<1>8. IsFiniteSet(kept) /\ Cardinality(kept) = Cardinality(old) - (IF evicted THEN 1 ELSE 0)
  <2>1. CASE evicted
    <3>1. IsFiniteSet(old \ {out}) /\ Cardinality(old \ {out}) = Cardinality(old) - 1
      <4> HIDE DEF old, out
      <4> QED BY <1>2, <1>6, <2>1, FS_RemoveElement
    <3> QED BY <2>1, <3>1
  <2>2. CASE ~evicted BY <1>2, <2>2
  <2> QED BY <2>1, <2>2
<1>9. Cardinality(kept \union {len + 1}) = Cardinality(kept) + 1
  BY <1>7, <1>8, FS_AddElement
<1> HIDE DEF kept, old
<1>10. Cardinality(W!Failed(W!LastN))' = Cardinality(old) - (IF evicted THEN 1 ELSE 0)
                                       + (IF success THEN 0 ELSE 1)
  <2>1. CASE success
    <3>1. Cardinality(W!Failed(W!LastN))' = Cardinality(kept) BY <1>5, <2>1
    <3> QED BY <1>2, <1>8, <2>1, <3>1
  <2>2. CASE ~success
    <3>1. Cardinality(W!Failed(W!LastN))' = Cardinality(kept) + 1 BY <1>5, <1>9, <2>2
    <3> QED BY <1>2, <1>8, <2>2, <3>1
  <2> QED BY <2>1, <2>2
<1> QED BY <1>2, <1>10 DEF evicted

\* record keeps the ring in step with the history.
LEMMA RecordedRing ==
  ASSUME GoConfigs, Ringed, W!InUse, W!Counting, NEW success \in BOOLEAN, W!Record(success)
  PROVE  Ring'
<1>n. W!Size \in Nat \ {0} BY SizesPositive
<1>h. hist \in Seq(Outcomes) /\ Len(hist) \in Nat BY DEF Ringed
<1>r. /\ window \in Rings(W!Size)
      /\ window.filled = IF Len(hist) < W!Size THEN Len(hist) ELSE W!Size
      /\ \A d \in 0..(window.filled - 1) :
           window.outcomes[Slot(window.next, d, W!Size)] <=> hist[Len(hist) - d].failed
  BY DEF Ringed, Ring
<1> DEFINE len == Len(hist)
           at == window.next
           next == (at + 1) % W!Size
           filled == IF window.filled < W!Size THEN window.filled + 1 ELSE window.filled
           failures == window.failures
                         - (IF window.filled = W!Size /\ window.outcomes[at] THEN 1 ELSE 0)
                         + (IF success THEN 0 ELSE 1)
           outcomes == [window.outcomes EXCEPT ![at] = ~success]
<1>w. window' = [outcomes |-> outcomes, next |-> next, filled |-> filled, failures |-> failures]
  BY DEF W!Record, W!CountRecord
<1>1. at \in W!Slots(W!Size) /\ at \in Int /\ 0 <= at /\ at < W!Size
  BY <1>n, <1>r DEF Rings, W!Slots
<1>2. next = (IF at + 1 = W!Size THEN 0 ELSE at + 1) BY <1>n, <1>1, Wraps
<1>3. next \in W!Slots(W!Size) BY <1>n, <1>1, <1>2 DEF W!Slots
<1>4. failures = Cardinality(W!Failed(W!LastN))' BY RecordedFailures
<1>5. window.failures \in Int /\ window.filled \in 0..W!Size BY <1>r DEF Rings
<1>6. failures \in Int BY <1>5
<1>7. filled \in 0..W!Size BY <1>n, <1>5
<1>8. outcomes \in [W!Slots(W!Size) -> BOOLEAN]
  <2>1. window.outcomes \in [W!Slots(W!Size) -> BOOLEAN] BY <1>r DEF Rings
  <2>2. (~success) \in BOOLEAN OBVIOUS
  <2> QED BY <2>1, <2>2
<1>9. hist' = Append(hist, [failed |-> ~success, sec |-> sec]) BY DEF W!Record
<1>10. /\ Len(hist') = len + 1 /\ (hist'[len + 1].failed <=> ~success)
       /\ \A i \in 1..len : hist'[i] = hist[i]
  <2>1. PICK new \in Outcomes : new = [failed |-> ~success, sec |-> sec]
    <3>1. (~success) \in BOOLEAN OBVIOUS
    <3>2. sec \in Int BY DEF Ringed
    <3> QED BY <3>1, <3>2 DEF Outcomes
  <2>2. new.failed <=> ~success BY <2>1
  <2>3. hist' = Append(hist, new) BY <1>9, <2>1
  <2>4. /\ Len(hist') = len + 1 /\ hist'[len + 1] = new
        /\ \A i \in 1..len : hist'[i] = hist[i]
    BY <1>h, <2>3
  <2> QED BY <2>2, <2>4
<1>11. filled = IF Len(hist') < W!Size THEN Len(hist') ELSE W!Size
  BY <1>n, <1>h, <1>r, <1>10
<1>12. \A d \in 0..(filled - 1) :
         outcomes[Slot(next, d, W!Size)] <=> hist'[len + 1 - d].failed
  <2>0. window.outcomes \in [W!Slots(W!Size) -> BOOLEAN] BY <1>r DEF Rings
  <2> SUFFICES ASSUME NEW d \in 0..(filled - 1)
               PROVE  outcomes[Slot(next, d, W!Size)] <=> hist'[len + 1 - d].failed
    OBVIOUS
  <2>1. CASE d = 0
    <3>1. Slot(next, d, W!Size) = at BY <1>n, <1>1, <1>2, <2>1 DEF Slot
    <3>2. outcomes[at] <=> ~success BY <1>1, <2>0
    <3>3. len + 1 - d = len + 1 BY <1>h, <2>1
    <3> QED BY <1>10, <3>1, <3>2, <3>3
  <2>2. CASE d # 0
    <3>d. d \in Int /\ 1 <= d /\ d <= filled - 1 BY <1>7, <2>2
    <3>1. d - 1 \in 0..(window.filled - 1) BY <1>n, <1>5, <3>d
    <3>2. d < W!Size BY <1>n, <1>7, <3>d
    <3>3. Slot(next, d, W!Size) = Slot(at, d - 1, W!Size)
      BY <1>n, <1>1, <1>2, <3>d, <3>2 DEF Slot
    <3>4. Slot(at, d - 1, W!Size) \in W!Slots(W!Size) /\ Slot(at, d - 1, W!Size) # at
      BY <1>n, <1>1, <3>d, <3>2 DEF Slot, W!Slots
    <3>5. outcomes[Slot(at, d - 1, W!Size)] = window.outcomes[Slot(at, d - 1, W!Size)]
      BY <1>1, <2>0, <3>4
    <3>6. len - (d - 1) = len + 1 - d /\ len - (d - 1) \in 1..len
      BY <1>n, <1>h, <1>r, <3>1, <3>d
    <3>7. window.outcomes[Slot(at, d - 1, W!Size)] <=> hist[len + 1 - d].failed
      BY <1>r, <3>1, <3>6
    <3>8. hist'[len + 1 - d] = hist[len + 1 - d] BY <1>10, <3>6
    <3> QED BY <3>3, <3>5, <3>7, <3>8
  <2> QED BY <2>1, <2>2
<1> HIDE DEF next, filled, failures, outcomes
<1>13. window' \in Rings(W!Size) BY <1>3, <1>6, <1>7, <1>8, <1>w DEF Rings
<1>14. /\ window'.outcomes = outcomes /\ window'.next = next /\ window'.filled = filled
       /\ window'.failures = failures
  BY <1>w
<1>15. W!Size' = W!Size BY DEF W!Record, W!Size
<1>16. \A d \in 0..(window'.filled - 1) :
          window'.outcomes[Slot(window'.next, d, W!Size)] <=> hist'[Len(hist') - d].failed
  <2> SUFFICES ASSUME NEW d \in 0..(filled - 1)
               PROVE  outcomes[Slot(next, d, W!Size)] <=> hist'[Len(hist') - d].failed
    BY <1>14
  <2>1. Len(hist') - d = len + 1 - d BY <1>10
  <2> QED BY <1>12, <2>1
<1>17. window'.filled = (IF Len(hist') < W!Size THEN Len(hist') ELSE W!Size)
  BY <1>11, <1>14
<1> QED BY <1>4, <1>13, <1>14, <1>15, <1>16, <1>17 DEF Ring

\* A new or reset ring is empty.
LEMMA FreshRing ==
  ASSUME NEW n \in Nat \ {0}, NEW w, w = W!NewCountWindow(n)
  PROVE  w \in Rings(n) /\ w.filled = 0 /\ w.failures = 0
<1>1. [i \in W!Slots(n) |-> FALSE] \in [W!Slots(n) -> BOOLEAN] OBVIOUS
<1>2. 0 \in W!Slots(n) /\ 0 \in 0..n BY DEF W!Slots
<1> QED BY <1>1, <1>2 DEF W!NewCountWindow, Rings

\* Every step keeps the ring in step with the history.
LEMMA RingKept ==
  ASSUME GoConfigs, Ringed, [W!Next]_W!vars PROVE Ringed'
<1>1. CASE \E success \in BOOLEAN : W!Record(success)
  <2>1. PICK success \in BOOLEAN : W!Record(success) BY <1>1
  <2>2. /\ UNCHANGED <<raw, local, built, sec>> /\ W!InUse
        /\ hist' = Append(hist, [failed |-> ~success, sec |-> sec])
    BY <2>1 DEF W!Record
  <2>3. hist' \in Seq(Outcomes)
    <3>1. (~success) \in BOOLEAN OBVIOUS
    <3>2. hist \in Seq(Outcomes) /\ sec \in Int BY DEF Ringed
    <3>3. [failed |-> ~success, sec |-> sec] \in Outcomes BY <3>1, <3>2 DEF Outcomes
    <3> QED BY <2>2, <3>2, <3>3
  <2>4. W!InUse' /\ W!Size' = W!Size /\ (W!Counting' <=> W!Counting)
    BY <2>2 DEF W!InUse, W!Size, W!Counting
  <2>5. CASE ~W!Counting BY <2>2, <2>3, <2>4, <2>5 DEF Ringed
  <2>6. CASE W!Counting
    <3>1. Ring'
      BY <2>1, <2>2, <2>6, RecordedRing
    <3> QED BY <2>2, <2>3, <2>4, <3>1 DEF Ringed
  <2> QED BY <2>5, <2>6
<1>2. ASSUME hist' = <<>>, UNCHANGED <<raw, sec>>, built', W!InUse', local' = W!SetDefaults(raw),
             window' = W!NewWindow(local')
      PROVE  Ringed'
  <2>1. raw \in Exercised /\ raw \in Written BY <1>2 DEF W!InUse, Ringed
  <2>2. local'.SlidingWindowType \in {"count", "time"}
    BY <1>2, <2>1, Defaulted DEF GoConfigs
  <2>3. local'.SlidingWindowSize \in Nat \ {0} BY <1>2, <2>1, <2>2, Defaulted, SizeBound
  <2>4. CASE W!Counting'
    <3>1. window' = W!NewCountWindow(W!Size') BY <1>2, <2>4 DEF W!NewWindow, W!Counting, W!Size
    <3>2. window' \in Rings(W!Size') /\ window'.filled = 0 /\ window'.failures = 0
      BY <2>3, <3>1, FreshRing DEF W!Size
    <3>3. Len(hist') = 0 /\ hist' \in Seq(Outcomes) BY <1>2
    <3>4. W!Failed(W!LastN)' = {} BY <3>3 DEF W!Failed, W!LastN
    <3>5. Cardinality(W!Failed(W!LastN))' = 0 BY <3>4, FS_EmptySet
    <3>6. W!Size' \in Nat \ {0} BY <2>3 DEF W!Size
    <3>7. /\ window'.filled = (IF Len(hist') < W!Size' THEN Len(hist') ELSE W!Size')
          /\ 0..(window'.filled - 1) = {}
      BY <3>2, <3>3, <3>6
    <3>8. Ring' BY <3>2, <3>5, <3>7 DEF Ring
    <3> QED BY <1>2, <3>3, <3>8 DEF Ringed
  <2>5. CASE ~W!Counting'
    <3>1. hist' \in Seq(Outcomes) BY <1>2
    <3> QED BY <1>2, <2>5, <3>1 DEF Ringed
  <2> QED BY <2>4, <2>5
<1>3. CASE W!New
  <2>1. /\ ~built /\ built' /\ local' = W!SetDefaults(raw) /\ UNCHANGED <<raw, hist, sec>>
        /\ raw \in Exercised => window' = W!NewWindow(local')
    BY <1>3 DEF W!New
  <2>2. hist = <<>> BY <2>1 DEF Ringed, W!InUse
  <2>3. CASE raw \in Exercised
    <3>1. W!InUse' BY <2>1, <2>3 DEF W!InUse
    <3> QED BY <1>2, <2>1, <2>2, <2>3, <3>1
  <2>4. CASE raw \notin Exercised
    <3>1. ~W!InUse' BY <2>1, <2>4 DEF W!InUse
    <3>2. built' \in BOOLEAN BY <1>3 DEF W!New
    <3> QED BY <2>1, <2>2, <3>1, <3>2 DEF Ringed
  <2> QED BY <2>3, <2>4
<1>4. CASE W!Reset
  <2>1. W!InUse /\ hist' = <<>> /\ window' = W!NewWindow(local)
          /\ UNCHANGED <<raw, local, built, sec>>
    BY <1>4 DEF W!Reset
  <2>2. W!InUse' /\ built' /\ local' = W!SetDefaults(raw) BY <2>1 DEF W!InUse, Ringed
  <2> QED BY <1>2, <2>1, <2>2
<1>5. CASE W!ClockAdvances \/ W!ClockStepsBack \/ UNCHANGED W!vars
  <2>1. UNCHANGED <<raw, local, built, window, hist>>
    BY <1>5 DEF W!ClockAdvances, W!ClockStepsBack, W!vars
  <2>2. sec' \in Int BY <1>5 DEF W!ClockAdvances, W!ClockStepsBack, W!vars, Ringed
  <2>3. /\ (W!InUse' <=> W!InUse) /\ (W!Counting' <=> W!Counting) /\ W!Size' = W!Size
        /\ (Ring' <=> Ring)
    <3>1. W!Size' = W!Size BY <2>1 DEF W!Size
    <3>2. W!Failed(W!LastN)' = W!Failed(W!LastN) BY <2>1, <3>1 DEF W!Failed, W!LastN
    <3>3. Ring' <=> Ring BY <2>1, <3>1, <3>2 DEF Ring
    <3> QED BY <2>1, <3>1, <3>3 DEF W!InUse, W!Counting
  <2> QED BY <2>1, <2>2, <2>3 DEF Ringed
<1> QED BY <1>1, <1>3, <1>4, <1>5 DEF W!Next

\* The cardinality the window's module speaks of.
LEMMA WindowCardinality == \A S : W!Cardinality(S) = Cardinality(S)
BY DEF W!Cardinality, Cardinality

\* However often its ring has wrapped, a count window of any size reports exactly the last
\* Size outcomes since the reset (countWindow.record and stats).
THEOREM CountWindowsAreExact ==
  GoConfigs /\ FirstSec \in Int => (W!Spec => []W!CountWindowExact)
<1> SUFFICES ASSUME GoConfigs, FirstSec \in Int PROVE W!Spec => []W!CountWindowExact
  OBVIOUS
<1>1. W!Init => Ringed
  <2> SUFFICES ASSUME W!Init PROVE Ringed
    OBVIOUS
  <2>1. ~built /\ built \in BOOLEAN /\ hist = <<>> /\ sec \in Int BY DEF W!Init
  <2>2. raw \in Written BY DEF W!Init, GoConfigs
  <2>3. hist \in Seq(Outcomes) BY <2>1
  <2> QED BY <2>1, <2>2, <2>3 DEF Ringed, W!InUse
<1>2. Ringed /\ [W!Next]_W!vars => Ringed' BY RingKept
<1>3. Ringed => W!CountWindowExact
  <2> SUFFICES ASSUME Ringed, W!InUse, W!Counting
               PROVE  W!CountStats(window) =
                        [calls |-> Cardinality(W!LastN),
                         failures |-> Cardinality(W!Failed(W!LastN))]
    BY WindowCardinality DEF W!CountWindowExact
  <2>1. W!Size \in Nat \ {0} BY SizesPositive
  <2>2. Cardinality(W!LastN) = window.filled BY <2>1, LastNIs DEF Ringed, Ring
  <2>3. Cardinality(W!Failed(W!LastN)) = window.failures BY DEF Ringed, Ring
  <2> QED BY <2>2, <2>3 DEF W!CountStats
<1> QED BY <1>1, <1>2, <1>3, PTL DEF W!Spec

-----------------------------------------------------------------------------
(****************************************************************************)
(* A time window: seconds less than a lap apart have slots of their own, so  *)
(* what record overwrites is outside the window, and until the clock is set  *)
(* back the bucket of every second in it is whole.                           *)
(****************************************************************************)

\* A multiple of n other than 0 is at least n away from 0.
LEMMA Multiples ==
  ASSUME NEW n \in Nat \ {0}, NEW k \in Int, k >= 1
  PROVE  n * k >= n
<1>1. n * (k - 1) >= 0 BY SMT
<1>2. n * (k - 1) = n * k - n BY SMT
<1> QED BY <1>1, <1>2

\* What \div and % are.
LEMMA Division ==
  ASSUME NEW n \in Nat \ {0}, NEW x \in Int
  PROVE  /\ x \div n \in Int /\ x % n \in 0..(n - 1)
         /\ x = n * (x \div n) + (x % n)
OBVIOUS

\* Two seconds less than a lap apart have slots of their own.
LEMMA SlotsOfALap ==
  ASSUME NEW n \in Nat \ {0}, NEW x \in Int, NEW y \in Int, x % n = y % n,
         x - y < n, y - x < n
  PROVE  x = y
<1>a. x \div n \in Int /\ y \div n \in Int BY Division
<1>b. PICK p \in Int : p = x \div n BY <1>a
<1>c. PICK q \in Int : q = y \div n BY <1>a
<1>d. PICK r \in Int : r = n * p OBVIOUS
<1>e. PICK s \in Int : s = n * q OBVIOUS
<1>0. p = x \div n /\ q = y \div n /\ r = n * p /\ s = n * q BY <1>b, <1>c, <1>d, <1>e
<1>1. x = r + (x % n) /\ y = s + (x % n) /\ x % n \in Int BY <1>0, Division
<1>2. x - y = r - s BY <1>1
<1>3. r - s = n * (p - q) /\ s - r = n * (q - p) BY <1>0, SMT
<1>4. ~(p - q >= 1)
  <2> SUFFICES ASSUME p - q >= 1 PROVE FALSE OBVIOUS
  <2>1. n * (p - q) >= n BY Multiples
  <2> QED BY <1>0, <1>2, <1>3, <2>1
<1>5. ~(q - p >= 1)
  <2> SUFFICES ASSUME q - p >= 1 PROVE FALSE OBVIOUS
  <2>1. n * (q - p) >= n BY Multiples
  <2> QED BY <1>0, <1>2, <1>3, <2>1
<1>6. p = q BY <1>0, <1>4, <1>5
<1>7. r = s BY <1>0, <1>6
<1> QED BY <1>1, <1>7

\* timeBucket.
Buckets == [epoch : Int, calls : Nat, failures : Nat]

\* The outcomes of second e.
Of(e) == {j \in 1..Len(hist) : hist[j].sec = e}

\* The buckets timeWindow.stats adds up.
LiveAt(w, n, e) == {i \in W!Slots(n) : /\ w[i].calls # 0
                                       /\ w[i].epoch >= e - n + 1
                                       /\ w[i].epoch <= e}
Live == LiveAt(window, W!Size, sec)

\* Every bucket that stats adds up counts outcomes of a second of its own, and while the
\* clock was not set back all of them, with no second of the window left out.
TimeBucketsExact ==
  W!InUse /\ ~W!Counting =>
    /\ \A i \in Live : /\ window[i].calls <= Cardinality(Of(window[i].epoch))
                       /\ window[i].failures <= Cardinality(W!Failed(Of(window[i].epoch)))
    /\ \A i, j \in Live : window[i].epoch = window[j].epoch => i = j
    /\ ~stepped =>
         /\ \A i \in Live : /\ window[i].calls = Cardinality(Of(window[i].epoch))
                            /\ window[i].failures = Cardinality(W!Failed(Of(window[i].epoch)))
         /\ \A k \in W!InLastSeconds : \E i \in Live : window[i].epoch = hist[k].sec

\* No bucket holds more than its second had, and it stands in that second's slot.
Sound == \A i \in W!Slots(W!Size) : window[i].calls # 0 =>
           /\ window[i].epoch % W!Size = i
           /\ window[i].calls <= Cardinality(Of(window[i].epoch))
           /\ window[i].failures <= Cardinality(W!Failed(Of(window[i].epoch)))

\* No bucket without calls holds failures.
Blank == \A i \in W!Slots(W!Size) : window[i].calls = 0 => window[i].failures = 0

\* The bucket of second e holds it, whole.
Kept(e) == /\ window[e % W!Size].epoch = e
           /\ window[e % W!Size].calls = Cardinality(Of(e))
           /\ window[e % W!Size].failures = Cardinality(W!Failed(Of(e)))

\* Without a step back, a second of the window that had outcomes has them in its bucket.
Complete == ~stepped =>
              /\ \A j \in 1..Len(hist) : hist[j].sec <= sec
              /\ \A e \in Int : e > sec - W!Size /\ Of(e) # {} => Kept(e)

\* The inductive invariant: in use, a time window's buckets agree with the history.
Lapped ==
  /\ raw \in Written /\ built \in BOOLEAN /\ stepped \in BOOLEAN
  /\ built => local = W!SetDefaults(raw)
  /\ hist \in Seq(Outcomes) /\ sec \in Int
  /\ ~W!InUse => hist = <<>>
  /\ W!InUse /\ ~W!Counting =>
       window \in [W!Slots(W!Size) -> Buckets] /\ Blank /\ Sound /\ Complete

\* The outcomes of a second are finitely many.
LEMMA OfFinite ==
  ASSUME hist \in Seq(Outcomes), NEW e \in Int
  PROVE  /\ IsFiniteSet(Of(e)) /\ IsFiniteSet(W!Failed(Of(e)))
         /\ Cardinality(Of(e)) \in Nat /\ Cardinality(W!Failed(Of(e))) \in Nat
         /\ Of(e) = {} <=> Cardinality(Of(e)) = 0
         /\ Cardinality(W!Failed(Of(e))) <= Cardinality(Of(e))
<1>1. IsFiniteSet(1..Len(hist)) BY FS_Interval
<1>2. Of(e) \subseteq 1..Len(hist) /\ W!Failed(Of(e)) \subseteq Of(e) BY DEF Of, W!Failed
<1>3. IsFiniteSet(Of(e)) BY <1>1, <1>2, FS_Subset
<1>4. IsFiniteSet(W!Failed(Of(e))) /\ Cardinality(W!Failed(Of(e))) <= Cardinality(Of(e))
  BY <1>2, <1>3, FS_Subset
<1> QED BY <1>3, <1>4, FS_CardinalityType, FS_EmptySet

\* An outcome is one more of its second, and of no other.
LEMMA OfRecorded ==
  ASSUME hist \in Seq(Outcomes), sec \in Int, NEW success \in BOOLEAN, NEW e \in Int,
         hist' = Append(hist, [failed |-> ~success, sec |-> sec])
  PROVE  /\ hist' \in Seq(Outcomes)
         /\ e # sec => Of(e)' = Of(e) /\ W!Failed(Of(e))' = W!Failed(Of(e))
         /\ e = sec => /\ Cardinality(Of(e))' = Cardinality(Of(e)) + 1
                       /\ Cardinality(W!Failed(Of(e)))' =
                            Cardinality(W!Failed(Of(e))) + (IF success THEN 0 ELSE 1)
<1> DEFINE len == Len(hist)
<1>h. len \in Nat OBVIOUS
<1>0. PICK new \in Outcomes : new = [failed |-> ~success, sec |-> sec]
  <2>1. (~success) \in BOOLEAN OBVIOUS
  <2> QED BY <2>1 DEF Outcomes
<1>b. (new.failed <=> ~success) /\ new.sec = sec BY <1>0
<1>1. /\ hist' \in Seq(Outcomes)
      /\ Len(hist') = len + 1 /\ hist'[len + 1] = new
      /\ \A i \in 1..len : hist'[i] = hist[i]
  BY <1>0
<1>2. Of(e)' = IF e = sec THEN Of(e) \union {len + 1} ELSE Of(e)
  <2>1. \A i : i \in Of(e)' <=> i \in 1..(len + 1) /\ hist'[i].sec = e BY <1>1 DEF Of
  <2>2. CASE e = sec
    <3>1. \A i : i \in Of(e)' <=> i \in Of(e) \/ i = len + 1
      BY <1>h, <1>1, <1>b, <2>1, <2>2 DEF Of
    <3> QED BY <2>2, <3>1
  <2>3. CASE e # sec
    <3>1. \A i : i \in Of(e)' <=> i \in Of(e)
      BY <1>h, <1>1, <1>b, <2>1, <2>3 DEF Of
    <3> QED BY <2>3, <3>1
  <2> QED BY <2>2, <2>3
<1>3. /\ \A i \in Of(e) : hist'[i] = hist[i]
      /\ len + 1 \notin Of(e)
  BY <1>h, <1>1 DEF Of
<1>4. \A i : i \in W!Failed(Of(e))' <=> i \in Of(e)' /\ hist'[i].failed BY DEF W!Failed
<1>5. CASE e # sec
  <2>1. Of(e)' = Of(e) BY <1>2, <1>5
  <2>2. \A i : i \in W!Failed(Of(e))' <=> i \in W!Failed(Of(e)) BY <1>3, <1>4, <2>1 DEF W!Failed
  <2> QED BY <1>1, <1>5, <2>1, <2>2
<1>6. CASE e = sec
  <2>f. /\ IsFiniteSet(Of(e)) /\ IsFiniteSet(W!Failed(Of(e)))
        /\ Cardinality(Of(e)) \in Nat /\ Cardinality(W!Failed(Of(e))) \in Nat
    BY OfFinite
  <2>1. Of(e)' = Of(e) \union {len + 1} BY <1>2, <1>6
  <2>2. Cardinality(Of(e) \union {len + 1}) = Cardinality(Of(e)) + 1
    BY <1>3, <2>f, FS_AddElement
  <2>3. CASE success
    <3>1. ~hist'[len + 1].failed BY <1>1, <1>b, <2>3
    <3>2. \A i : i \in W!Failed(Of(e))' <=> i \in W!Failed(Of(e))
      BY <1>3, <1>4, <2>1, <3>1 DEF W!Failed
    <3>3. W!Failed(Of(e))' = W!Failed(Of(e)) BY <3>2
    <3> QED BY <1>1, <1>6, <2>1, <2>2, <2>3, <2>f, <3>3
  <2>4. CASE ~success
    <3>1. hist'[len + 1].failed BY <1>1, <1>b, <2>4
    <3>2. \A i : i \in W!Failed(Of(e))' <=> i \in W!Failed(Of(e)) \/ i = len + 1
      BY <1>3, <1>4, <2>1, <3>1 DEF W!Failed
    <3>3. W!Failed(Of(e))' = W!Failed(Of(e)) \union {len + 1} BY <3>2
    <3>4. len + 1 \notin W!Failed(Of(e)) BY <1>3 DEF W!Failed
    <3>5. Cardinality(W!Failed(Of(e)) \union {len + 1}) = Cardinality(W!Failed(Of(e))) + 1
      BY <2>f, <3>4, FS_AddElement
    <3> QED BY <1>1, <1>6, <2>1, <2>2, <2>4, <3>3, <3>5
  <2> QED BY <2>3, <2>4
<1> QED BY <1>5, <1>6

\* The bucket that timeWindow.record writes.
LEMMA RecordedBucket ==
  ASSUME GoConfigs, Lapped, W!InUse, ~W!Counting, W!Size \in Nat \ {0},
         NEW success \in BOOLEAN, W!Record(success),
         NEW e \in Int, e = sec, NEW t, t = e % W!Size
  PROVE  /\ t \in W!Slots(W!Size)
         /\ window' \in [W!Slots(W!Size) -> Buckets]
         /\ \A i \in W!Slots(W!Size) : i # t => window'[i] = window[i]
         /\ window'[t].epoch = e /\ window'[t].calls # 0
         /\ window'[t].calls <= Cardinality(Of(e))'
         /\ window'[t].failures <= Cardinality(W!Failed(Of(e)))'
         /\ ~stepped => /\ window'[t].calls = Cardinality(Of(e))'
                        /\ window'[t].failures = Cardinality(W!Failed(Of(e)))'
<1>t. t \in W!Slots(W!Size) BY Division DEF W!Slots
<1>l. /\ window \in [W!Slots(W!Size) -> Buckets] /\ Blank /\ Sound /\ Complete
      /\ hist \in Seq(Outcomes) /\ sec \in Int
  BY DEF Lapped
<1>r. /\ window' = W!TimeRecord(window, W!Size, success, e)
      /\ hist' = Append(hist, [failed |-> ~success, sec |-> sec])
  BY DEF W!Record
<1> DEFINE b == W!BucketFor(window, W!Size, e)
           k == b.calls + 1
           f == b.failures + (IF success THEN 0 ELSE 1)
           n == [b EXCEPT !.calls = k, !.failures = f]
<1>1. window' = [window EXCEPT ![t] = n] BY <1>r DEF W!TimeRecord
<1>2. window[t] \in Buckets BY <1>t, <1>l
<1>f. /\ Cardinality(Of(e)) \in Nat /\ Cardinality(W!Failed(Of(e))) \in Nat
      /\ Of(e) = {} <=> Cardinality(Of(e)) = 0
      /\ Cardinality(W!Failed(Of(e))) <= Cardinality(Of(e))
  BY <1>l, OfFinite
<1>3. /\ b \in Buckets /\ b.epoch = e
      /\ b.calls <= Cardinality(Of(e)) /\ b.failures <= Cardinality(W!Failed(Of(e)))
      /\ ~stepped => b.calls = Cardinality(Of(e)) /\ b.failures = Cardinality(W!Failed(Of(e)))
  <2>0. ~stepped /\ Of(e) # {} => window[t].epoch = e /\ window[t].calls = Cardinality(Of(e))
                                  /\ window[t].failures = Cardinality(W!Failed(Of(e)))
    <3>1. e > sec - W!Size BY <1>l
    <3> QED BY <1>l, <3>1 DEF Complete, Kept
  <2>1. CASE window[t].epoch = e
    <3>1. b = window[t] BY <2>1 DEF W!BucketFor
    <3>2. CASE window[t].calls # 0
      <4>1. window[t].calls <= Cardinality(Of(e))
              /\ window[t].failures <= Cardinality(W!Failed(Of(e)))
        BY <1>t, <1>l, <2>1, <3>2 DEF Sound
      <4>2. Of(e) # {} BY <1>2, <1>f, <3>2, <4>1 DEF Buckets
      <4> QED BY <1>2, <2>0, <2>1, <3>1, <4>1, <4>2
    <3>3. CASE window[t].calls = 0
      <4>1. window[t].failures = 0 BY <1>t, <1>l, <3>3 DEF Blank
      <4>2. ~stepped => Cardinality(Of(e)) = 0 /\ Cardinality(W!Failed(Of(e))) = 0
        BY <1>f, <2>0, <3>3
      <4> QED BY <1>2, <1>f, <2>1, <3>1, <3>3, <4>1, <4>2
    <3> QED BY <3>2, <3>3
  <2>2. CASE window[t].epoch # e
    <3>1. b = [W!EmptyBucket EXCEPT !.epoch = e] BY <2>2 DEF W!BucketFor
    <3>2. b \in Buckets /\ b.epoch = e /\ b.calls = 0 /\ b.failures = 0
      BY <3>1 DEF W!EmptyBucket, Buckets
    <3>3. ~stepped => Cardinality(Of(e)) = 0 /\ Cardinality(W!Failed(Of(e))) = 0
      BY <1>f, <2>0, <2>2
    <3> QED BY <1>f, <3>2, <3>3
  <2> QED BY <2>1, <2>2
<1> HIDE DEF b
<1>4. b.calls \in Nat /\ b.failures \in Nat BY <1>3 DEF Buckets
<1>5. k \in Nat /\ f \in Nat /\ k # 0 BY <1>4
<1>6. /\ Cardinality(Of(e))' = Cardinality(Of(e)) + 1
      /\ Cardinality(W!Failed(Of(e)))' = Cardinality(W!Failed(Of(e))) + (IF success THEN 0 ELSE 1)
  BY <1>l, <1>r, OfRecorded
<1>7. /\ k <= Cardinality(Of(e))' /\ f <= Cardinality(W!Failed(Of(e)))'
      /\ ~stepped => k = Cardinality(Of(e))' /\ f = Cardinality(W!Failed(Of(e)))'
  BY <1>3, <1>4, <1>6, <1>f
<1> HIDE DEF k, f
<1>8. n \in Buckets /\ n.epoch = e /\ n.calls = k /\ n.failures = f
  BY <1>3, <1>5 DEF Buckets
<1> HIDE DEF n
<1>9. /\ window' \in [W!Slots(W!Size) -> Buckets] /\ window'[t] = n
      /\ \A i \in W!Slots(W!Size) : i # t => window'[i] = window[i]
  BY <1>1, <1>8, <1>l, <1>t
<1> QED BY <1>5, <1>7, <1>8, <1>9, <1>t

\* A breaker in use has a window of at least one slot.
LEMMA LapsPositive ==
  ASSUME GoConfigs, Lapped, W!InUse PROVE W!Size \in Nat \ {0}
<1>1. raw \in Exercised /\ built BY DEF W!InUse
<1>2. raw.SlidingWindowType \in {"count", "time"} /\ raw \in Written BY <1>1 DEF GoConfigs
<1>3. local = W!SetDefaults(raw) BY <1>1 DEF Lapped
<1>4. local.SlidingWindowType \in {"count", "time"} BY <1>2, <1>3, Defaulted
<1>5. local.SlidingWindowSize \in 1..W!MaxSlidingWindowSize BY <1>2, <1>3, <1>4, Defaulted
<1> QED BY <1>5, SizeBound DEF W!Size

\* record keeps the buckets sound, and complete while the clock was not set back: the slot
\* it takes over held no second of the window but its own.
LEMMA RecordedLap ==
  ASSUME GoConfigs, Lapped, W!InUse, ~W!Counting, NEW success \in BOOLEAN, W!Record(success)
  PROVE  (window \in [W!Slots(W!Size) -> Buckets] /\ Blank /\ Sound /\ Complete)'
<1>n. W!Size \in Nat \ {0} /\ W!Size' = W!Size /\ sec' = sec /\ (stepped' <=> stepped)
  BY LapsPositive DEF W!Record, W!Size
<1>l. /\ window \in [W!Slots(W!Size) -> Buckets] /\ Blank /\ Sound /\ Complete
      /\ hist \in Seq(Outcomes) /\ sec \in Int
  BY DEF Lapped
<1>h. hist' = Append(hist, [failed |-> ~success, sec |-> sec]) BY DEF W!Record
<1>s. PICK s \in Int : s = sec BY <1>l
<1>t. PICK t : t = s % W!Size OBVIOUS
<1>1. /\ t \in W!Slots(W!Size) /\ window' \in [W!Slots(W!Size) -> Buckets]
      /\ \A i \in W!Slots(W!Size) : i # t => window'[i] = window[i]
      /\ window'[t].epoch = s /\ window'[t].calls # 0
      /\ window'[t].calls <= Cardinality(Of(s))'
      /\ window'[t].failures <= Cardinality(W!Failed(Of(s)))'
      /\ ~stepped => /\ window'[t].calls = Cardinality(Of(s))'
                     /\ window'[t].failures = Cardinality(W!Failed(Of(s)))'
  BY <1>n, <1>s, <1>t, RecordedBucket
<1>2. Blank' BY <1>n, <1>l, <1>1 DEF Blank
<1>3. Sound'
  <2>1. SUFFICES ASSUME NEW i \in W!Slots(W!Size), window'[i].calls # 0
                 PROVE  (/\ window[i].epoch % W!Size = i
                         /\ window[i].calls <= Cardinality(Of(window[i].epoch))
                         /\ window[i].failures <= Cardinality(W!Failed(Of(window[i].epoch))))'
    BY <1>n DEF Sound
  <2>2. PICK e \in Int : e = window'[i].epoch BY <1>1 DEF Buckets
  <2>3. SUFFICES /\ e % W!Size = i /\ window'[i].calls <= Cardinality(Of(e))'
                 /\ window'[i].failures <= Cardinality(W!Failed(Of(e)))'
    BY <1>n, <2>2 DEF Of, W!Failed
  <2>4. CASE i = t BY <1>1, <1>s, <1>t, <2>2, <2>4
  <2>5. CASE i # t
    <3>1. window[i] = window'[i] BY <1>1, <2>5
    <3>2. /\ e % W!Size = i /\ window[i].calls <= Cardinality(Of(e))
          /\ window[i].failures <= Cardinality(W!Failed(Of(e)))
      BY <1>l, <2>1, <2>2, <3>1 DEF Sound
    <3>3. e # s BY <1>t, <2>5, <3>2
    <3>4. Of(e)' = Of(e) /\ W!Failed(Of(e))' = W!Failed(Of(e))
      BY <1>l, <1>h, <1>s, <3>3, OfRecorded
    <3> QED BY <3>1, <3>2, <3>4
  <2> QED BY <2>4, <2>5
<1>4. Complete'
  <2>1. SUFFICES ASSUME ~stepped
                 PROVE  /\ \A j \in 1..Len(hist') : hist'[j].sec <= sec
                        /\ \A e \in Int : e > sec - W!Size /\ Of(e)' # {} => Kept(e)'
    BY <1>n DEF Complete
  <2>2. \A j \in 1..Len(hist') : hist'[j].sec <= sec
    <3>1. PICK new \in Outcomes : new = [failed |-> ~success, sec |-> sec]
      <4>1. (~success) \in BOOLEAN OBVIOUS
      <4> QED BY <1>l, <4>1 DEF Outcomes
    <3>2. new.sec = sec BY <3>1
    <3>3. /\ Len(hist) \in Nat /\ Len(hist') = Len(hist) + 1 /\ hist'[Len(hist) + 1] = new
          /\ \A j \in 1..Len(hist) : hist'[j] = hist[j]
      BY <1>l, <1>h, <3>1
    <3>4. \A j \in 1..Len(hist) : hist[j].sec <= sec BY <1>l, <2>1 DEF Complete
    <3> QED BY <1>l, <3>2, <3>3, <3>4
  <2>3. ASSUME NEW e \in Int, e > sec - W!Size, Of(e)' # {} PROVE Kept(e)'
    <3>1. SUFFICES /\ window'[e % W!Size].epoch = e
                   /\ window'[e % W!Size].calls = Cardinality(Of(e))'
                   /\ window'[e % W!Size].failures = Cardinality(W!Failed(Of(e)))'
      BY <1>n DEF Kept
    <3>2. CASE e = s BY <1>1, <1>t, <2>1, <3>2
    <3>3. CASE e # s
      <4>1. Of(e)' = Of(e) /\ W!Failed(Of(e))' = W!Failed(Of(e))
        BY <1>l, <1>h, <1>s, <3>3, OfRecorded
      <4>2. Kept(e) BY <1>l, <2>1, <2>3, <4>1 DEF Complete
      <4>3. PICK j \in 1..Len(hist) : hist[j].sec = e BY <2>3, <4>1 DEF Of
      <4>4. e <= s BY <1>l, <1>s, <2>1, <4>3 DEF Complete
      <4>5. e % W!Size # t
        <5> SUFFICES ASSUME e % W!Size = s % W!Size PROVE FALSE BY <1>t
        <5>1. s - e < W!Size /\ e - s < W!Size BY <1>n, <1>s, <2>3, <4>4
        <5> QED BY <1>n, <3>3, <5>1, SlotsOfALap
      <4>6. e % W!Size \in W!Slots(W!Size) BY <1>n, Division DEF W!Slots
      <4>7. window'[e % W!Size] = window[e % W!Size] BY <1>1, <4>5, <4>6
      <4> QED BY <4>1, <4>2, <4>7 DEF Kept
    <3> QED BY <3>2, <3>3
  <2> QED BY <2>2, <2>3
<1> QED BY <1>n, <1>1, <1>2, <1>3, <1>4

\* Every step keeps the buckets in step with the history.
LEMMA LapKept ==
  ASSUME GoConfigs, Lapped, [W!Next]_W!vars PROVE Lapped'
<1>1. CASE \E success \in BOOLEAN : W!Record(success)
  <2>1. PICK success \in BOOLEAN : W!Record(success) BY <1>1
  <2>2. /\ UNCHANGED <<raw, local, built, sec, stepped>> /\ W!InUse
        /\ hist' = Append(hist, [failed |-> ~success, sec |-> sec])
    BY <2>1 DEF W!Record
  <2>3. hist' \in Seq(Outcomes)
    <3>1. hist \in Seq(Outcomes) /\ sec \in Int BY DEF Lapped
    <3> QED BY <2>2, <3>1, OfRecorded
  <2>4. W!InUse' /\ (W!Counting' <=> W!Counting) BY <2>2 DEF W!InUse, W!Counting
  <2>5. CASE W!Counting BY <2>2, <2>3, <2>4, <2>5 DEF Lapped
  <2>6. CASE ~W!Counting
    <3>1. (window \in [W!Slots(W!Size) -> Buckets] /\ Blank /\ Sound /\ Complete)'
      BY <2>1, <2>2, <2>6, RecordedLap
    <3> QED BY <2>2, <2>3, <2>4, <3>1 DEF Lapped
  <2> QED BY <2>5, <2>6
<1>2. ASSUME hist' = <<>>, UNCHANGED <<raw, sec>>, built' = TRUE, stepped' \in BOOLEAN, W!InUse',
             local' = W!SetDefaults(raw), window' = W!NewWindow(local')
      PROVE  Lapped'
  <2>1. hist' \in Seq(Outcomes) /\ Len(hist') = 0 BY <1>2
  <2>2. CASE W!Counting' BY <1>2, <2>1, <2>2 DEF Lapped
  <2>3. CASE ~W!Counting'
    <3>1. window' = [i \in W!Slots(W!Size') |-> W!EmptyBucket]
      BY <1>2, <2>3 DEF W!NewWindow, W!NewTimeWindow, W!Counting, W!Size
    <3>2. W!EmptyBucket \in Buckets /\ W!EmptyBucket.calls = 0 /\ W!EmptyBucket.failures = 0
      BY DEF W!EmptyBucket, Buckets
    <3>3. window' \in [W!Slots(W!Size') -> Buckets] BY <3>1, <3>2
    <3>4. Blank' /\ Sound' BY <3>1, <3>2 DEF Blank, Sound
    <3>5. \A e \in Int : Of(e)' = {} BY <2>1 DEF Of
    <3>6. Complete' BY <2>1, <3>5 DEF Complete
    <3> QED BY <1>2, <2>1, <3>3, <3>4, <3>6 DEF Lapped
  <2> QED BY <2>2, <2>3
<1>3. CASE W!New
  <2>1. /\ ~built /\ built' = TRUE /\ local' = W!SetDefaults(raw)
        /\ UNCHANGED <<raw, hist, sec, stepped>>
        /\ raw \in Exercised => window' = W!NewWindow(local')
    BY <1>3 DEF W!New
  <2>2. hist = <<>> /\ stepped \in BOOLEAN BY <2>1 DEF Lapped, W!InUse
  <2>3. CASE raw \in Exercised
    <3>1. W!InUse' BY <2>1, <2>3 DEF W!InUse
    <3> QED BY <1>2, <2>1, <2>2, <2>3, <3>1
  <2>4. CASE raw \notin Exercised
    <3>1. ~W!InUse' BY <2>1, <2>4 DEF W!InUse
    <3> QED BY <2>1, <2>2, <3>1 DEF Lapped
  <2> QED BY <2>3, <2>4
<1>4. CASE W!Reset
  <2>1. /\ W!InUse /\ hist' = <<>> /\ window' = W!NewWindow(local) /\ stepped' = FALSE
        /\ UNCHANGED <<raw, local, built, sec>>
    BY <1>4 DEF W!Reset
  <2>2. W!InUse' /\ built' = TRUE /\ local' = W!SetDefaults(raw) BY <2>1 DEF W!InUse, Lapped
  <2> QED BY <1>2, <2>1, <2>2
<1>5. CASE W!ClockAdvances \/ W!ClockStepsBack \/ UNCHANGED W!vars
  <2>1. UNCHANGED <<raw, local, built, window, hist>>
    BY <1>5 DEF W!ClockAdvances, W!ClockStepsBack, W!vars
  <2>2. sec' \in Int /\ stepped' \in BOOLEAN /\ (~stepped' => ~stepped /\ sec' >= sec)
    <3>0. sec \in Int /\ stepped \in BOOLEAN BY DEF Lapped
    <3>1. CASE W!ClockAdvances BY <3>0, <3>1 DEF W!ClockAdvances
    <3>2. CASE W!ClockStepsBack BY <3>0, <3>2 DEF W!ClockStepsBack
    <3>3. CASE UNCHANGED W!vars BY <3>0, <3>3 DEF W!vars
    <3> QED BY <1>5, <3>1, <3>2, <3>3
  <2>3. /\ (W!InUse' <=> W!InUse) /\ (W!Counting' <=> W!Counting) /\ W!Size' = W!Size
    BY <2>1 DEF W!InUse, W!Counting, W!Size
  <2>4. CASE W!InUse /\ ~W!Counting
    <3>0. /\ window \in [W!Slots(W!Size) -> Buckets] /\ Blank /\ Sound /\ Complete
          /\ hist \in Seq(Outcomes) /\ sec \in Int /\ W!Size \in Nat \ {0}
      BY <2>4, LapsPositive DEF Lapped
    <3>1. Blank' BY <2>1, <2>3, <3>0 DEF Blank
    <3>2. Sound' BY <2>1, <2>3, <3>0 DEF Sound, Of, W!Failed
    <3>3. \A e \in Int : Of(e)' = Of(e) /\ (Kept(e)' <=> Kept(e))
      BY <2>1, <2>3 DEF Of, Kept, W!Failed
    <3>4. Complete'
      <4>1. SUFFICES ASSUME ~stepped'
                     PROVE  /\ \A j \in 1..Len(hist) : hist[j].sec <= sec'
                            /\ \A e \in Int : e > sec' - W!Size /\ Of(e) # {} => Kept(e)
        BY <2>1, <2>3, <3>3 DEF Complete
      <4>0. sec' \in Int /\ sec' >= sec /\ ~stepped BY <2>2, <4>1
      <4>2. \A j \in 1..Len(hist) : hist[j].sec \in Int /\ hist[j].sec <= sec
        <5>1. \A j \in 1..Len(hist) : hist[j] \in Outcomes BY <3>0
        <5> QED BY <3>0, <4>0, <5>1 DEF Complete, Outcomes
      <4>3. \A e \in Int : e > sec' - W!Size => e > sec - W!Size
        <5>1. PICK n \in Int : n = W!Size BY <3>0
        <5>2. PICK new \in Int : new = sec' BY <4>0
        <5>3. PICK old \in Int : old = sec BY <3>0
        <5>4. new >= old BY <4>0, <5>2, <5>3
        <5>5. \A e \in Int : e > new - n => e > old - n BY <5>4
        <5> QED BY <5>1, <5>2, <5>3, <5>5
      <4>4. \A e \in Int : e > sec - W!Size /\ Of(e) # {} => Kept(e)
        BY <2>2, <3>0, <4>1 DEF Complete
      <4>5. \A j \in 1..Len(hist) : hist[j].sec <= sec'
        <5>1. PICK new \in Int : new = sec' BY <4>0
        <5>2. \A j \in 1..Len(hist) : hist[j].sec <= new BY <3>0, <4>0, <4>2, <5>1
        <5> QED BY <5>1, <5>2
      <4> QED BY <4>3, <4>4, <4>5
    <3> QED BY <2>1, <2>2, <2>3, <3>0, <3>1, <3>2, <3>4 DEF Lapped
  <2>5. CASE ~(W!InUse /\ ~W!Counting) BY <2>1, <2>2, <2>3, <2>5 DEF Lapped
  <2> QED BY <2>4, <2>5
<1> QED BY <1>1, <1>3, <1>4, <1>5 DEF W!Next

\* Buckets in step with the history are what stats should add up.
LEMMA LappedIsExact ==
  ASSUME GoConfigs, Lapped PROVE TimeBucketsExact
<1>1. SUFFICES ASSUME W!InUse, ~W!Counting
      PROVE /\ \A i \in Live : /\ window[i].calls <= Cardinality(Of(window[i].epoch))
                        /\ window[i].failures <= Cardinality(W!Failed(Of(window[i].epoch)))
            /\ \A i, j \in Live : window[i].epoch = window[j].epoch => i = j
            /\ ~stepped =>
                /\ \A i \in Live : /\ window[i].calls = Cardinality(Of(window[i].epoch))
                             /\ window[i].failures = Cardinality(W!Failed(Of(window[i].epoch)))
                /\ \A k \in W!InLastSeconds : \E i \in Live : window[i].epoch = hist[k].sec
  BY DEF TimeBucketsExact
<1>l. /\ window \in [W!Slots(W!Size) -> Buckets] /\ Blank /\ Sound /\ Complete
      /\ hist \in Seq(Outcomes) /\ sec \in Int /\ W!Size \in Nat \ {0}
  BY <1>1, LapsPositive DEF Lapped
<1>2. ASSUME NEW i \in Live
      PROVE  /\ i \in W!Slots(W!Size) /\ window[i].calls # 0 /\ window[i].epoch \in Int
             /\ window[i].calls \in Nat
             /\ window[i].epoch % W!Size = i /\ window[i].epoch > sec - W!Size
             /\ window[i].calls <= Cardinality(Of(window[i].epoch))
             /\ window[i].failures <= Cardinality(W!Failed(Of(window[i].epoch)))
  <2>1. i \in W!Slots(W!Size) /\ window[i].calls # 0 /\ window[i].epoch >= sec - W!Size + 1
    BY DEF Live, LiveAt
  <2>2. window[i].epoch \in Int /\ window[i].calls \in Nat BY <1>l, <2>1 DEF Buckets
  <2>3. window[i].epoch > sec - W!Size BY <1>l, <2>1, <2>2
  <2> QED BY <1>l, <2>1, <2>2, <2>3 DEF Sound
<1>3. \A i, j \in Live : window[i].epoch = window[j].epoch => i = j
  <2> SUFFICES ASSUME NEW i \in Live, NEW j \in Live, window[i].epoch = window[j].epoch
               PROVE  i = j
    OBVIOUS
  <2>1. i = window[i].epoch % W!Size /\ j = window[j].epoch % W!Size BY <1>2
  <2> QED BY <2>1
<1>4. ASSUME ~stepped, NEW i \in Live
      PROVE  /\ window[i].calls = Cardinality(Of(window[i].epoch))
             /\ window[i].failures = Cardinality(W!Failed(Of(window[i].epoch)))
  <2>1. PICK e \in Int : e = window[i].epoch BY <1>2
  <2>2. e % W!Size = i /\ e > sec - W!Size /\ window[i].calls # 0 /\ window[i].calls \in Nat
        /\ window[i].calls <= Cardinality(Of(e))
    BY <1>2, <2>1
  <2>3. Of(e) # {}
    <3>1. Cardinality(Of(e)) \in Nat /\ (Of(e) = {} <=> Cardinality(Of(e)) = 0)
      BY <1>l, OfFinite
    <3> QED BY <2>2, <3>1
  <2>4. Kept(e) BY <1>l, <1>4, <2>2, <2>3 DEF Complete
  <2> QED BY <2>1, <2>2, <2>4 DEF Kept
<1>5. ASSUME ~stepped, NEW k \in W!InLastSeconds
      PROVE  \E i \in Live : window[i].epoch = hist[k].sec
  <2>1. k \in 1..Len(hist) /\ hist[k].sec > sec - W!Size /\ hist[k].sec <= sec
    BY DEF W!InLastSeconds
  <2>0. hist[k] \in Outcomes BY <1>l, <2>1
  <2>2. PICK e \in Int : e = hist[k].sec BY <2>0 DEF Outcomes
  <2>3. Of(e) # {} BY <2>1, <2>2 DEF Of
  <2>4. Kept(e) BY <1>l, <1>5, <2>1, <2>2, <2>3 DEF Complete
  <2>5. PICK i \in W!Slots(W!Size) : i = e % W!Size BY <1>l, Division DEF W!Slots
  <2>6. Cardinality(Of(e)) # 0 BY <1>l, <2>3, OfFinite
  <2>7. window[i].calls # 0 /\ window[i].epoch = e BY <2>4, <2>5, <2>6 DEF Kept
  <2>8. window[i].epoch >= sec - W!Size + 1 /\ window[i].epoch <= sec
    BY <1>l, <2>1, <2>2, <2>7
  <2>9. i \in Live BY <2>7, <2>8 DEF Live, LiveAt
  <2> QED BY <2>2, <2>7, <2>9
<1> QED BY <1>2, <1>3, <1>4, <1>5

-----------------------------------------------------------------------------
(****************************************************************************)
(* timeWindow.stats adds those buckets up.  The number of outcomes in a      *)
(* family of disjoint sets is the sum of their numbers: an induction over the*)
(* subsets of a finite set, from the well-foundedness of strict inclusion.   *)
(****************************************************************************)

\* Induction over the subsets of a finite set, for a set of them in place of a predicate.
LEMMA SubsetInduction ==
  ASSUME NEW S, IsFiniteSet(S), NEW T, {} \in T,
         \A s \in SUBSET S : s # {} /\ (\A x \in s : s \ {x} \in T) => s \in T
  PROVE  SUBSET S \subseteq T
<1> DEFINE F == (SUBSET S) \ T
<1> SUFFICES ASSUME F # {} PROVE FALSE
  OBVIOUS
<1>1. F \subseteq FiniteSubsetsOf(S) BY FS_FiniteSubsetsOfFinite
<1>2. IsWellFoundedOn(StrictSubsetOrdering(S), FiniteSubsetsOf(S))
  BY FS_StrictSubsetOrderingWellFounded
<1>3. PICK m \in F : \A r \in F : ~(<<r, m>> \in StrictSubsetOrdering(S))
  <2> HIDE DEF F
  <2> QED BY <1>1, <1>2, WFMin
<1>4. m # {} /\ m \in SUBSET S /\ m \notin T OBVIOUS
<1>5. \A x \in m : m \ {x} \in T
  <2> SUFFICES ASSUME NEW x \in m PROVE m \ {x} \in T
    OBVIOUS
  <2>1. m \ {x} \in SUBSET S /\ m \ {x} # m BY <1>4
  <2>2. <<m \ {x}, m>> \in StrictSubsetOrdering(S)
    BY <1>4, <2>1 DEF StrictSubsetOrdering
  <2> QED BY <1>3, <2>1, <2>2
<1> QED BY <1>4, <1>5

\* The elements of the parts D[i].
Parts(D, s) == UNION {D[i] : i \in s}

\* Finitely many finite parts.
LEMMA PartsFinite ==
  ASSUME NEW S, IsFiniteSet(S), NEW D, \A i \in S : IsFiniteSet(D[i])
  PROVE  \A s \in SUBSET S : IsFiniteSet(Parts(D, s))
<1> DEFINE T == {s \in SUBSET S : IsFiniteSet(Parts(D, s))}
<1>1. {} \in T
  <2>1. Parts(D, {}) = {} BY DEF Parts
  <2> QED BY <2>1, FS_EmptySet
<1>2. ASSUME NEW s \in SUBSET S, s # {}, \A x \in s : s \ {x} \in T PROVE s \in T
  <2>1. PICK x \in s : TRUE BY <1>2
  <2>2. IsFiniteSet(Parts(D, s \ {x})) /\ IsFiniteSet(D[x]) BY <1>2, <2>1
  <2>3. IsFiniteSet(D[x] \union Parts(D, s \ {x})) BY <2>2, FS_Union
  <2>4. Parts(D, s) = D[x] \union Parts(D, s \ {x}) BY <2>1 DEF Parts
  <2> QED BY <2>3, <2>4
<1>3. SUBSET S \subseteq T
  <2> HIDE DEF T
  <2> QED BY <1>1, <1>2, SubsetInduction
<1> QED BY <1>3

\* No two parts share an element.
Disjoint(D, S) == \A i, j \in S : i # j => D[i] \cap D[j] = {}

\* Disjoint parts: their sizes add up.
LEMMA PartsGrow ==
  ASSUME NEW S, IsFiniteSet(S), NEW D, \A i \in S : IsFiniteSet(D[i]), Disjoint(D, S),
         NEW s, s \in SUBSET S, NEW x, x \in s
  PROVE  /\ Cardinality(D[x]) \in Nat /\ Cardinality(Parts(D, s \ {x})) \in Nat
         /\ Cardinality(Parts(D, s)) = Cardinality(D[x]) + Cardinality(Parts(D, s \ {x}))
<1>1. s \ {x} \in SUBSET S /\ x \in S OBVIOUS
<1>2. IsFiniteSet(D[x]) /\ IsFiniteSet(Parts(D, s \ {x})) BY <1>1, PartsFinite
<1>3. D[x] \cap Parts(D, s \ {x}) = {} BY <1>1 DEF Disjoint, Parts
<1>4. Cardinality(D[x] \cap Parts(D, s \ {x})) = 0 BY <1>3, FS_EmptySet
<1>5. Cardinality(D[x]) \in Nat /\ Cardinality(Parts(D, s \ {x})) \in Nat
  BY <1>2, FS_CardinalityType
<1>6. Cardinality(D[x] \union Parts(D, s \ {x})) =
        Cardinality(D[x]) + Cardinality(Parts(D, s \ {x})) - 0
  BY <1>2, <1>4, FS_Union
<1>7. Parts(D, s) = D[x] \union Parts(D, s \ {x}) BY DEF Parts
<1> QED BY <1>5, <1>6, <1>7

\* g is the function that MapThenSumSet defines to add the numbers f[i].
Picked(s) == CHOOSE x \in s : TRUE
Adds(g, f, S) ==
  g = [s \in SUBSET S |-> IF s = {} THEN 0 ELSE f[Picked(s)] + g[s \ {Picked(s)}]]

\* There is one: it counts the pairs of an index and a number up to its own.
LEMMA SumsExist ==
  ASSUME NEW S, IsFiniteSet(S), NEW f, \A i \in S : f[i] \in Nat
  PROVE  \E g : Adds(g, f, S)
<1> DEFINE D == [i \in S |-> {i} \X (1..f[i])]
           g == [s \in SUBSET S |-> Cardinality(Parts(D, s))]
<1>1. \A i \in S : IsFiniteSet(D[i]) /\ Cardinality(D[i]) = f[i]
  <2> SUFFICES ASSUME NEW i \in S PROVE IsFiniteSet(D[i]) /\ Cardinality(D[i]) = f[i]
    OBVIOUS
  <2>1. IsFiniteSet({i}) /\ Cardinality({i}) = 1 BY FS_Singleton
  <2>2. IsFiniteSet(1..f[i]) /\ Cardinality(1..f[i]) = f[i] BY FS_Interval
  <2>3. IsFiniteSet({i} \X (1..f[i])) /\ Cardinality({i} \X (1..f[i])) = 1 * f[i]
    BY <2>1, <2>2, FS_Product
  <2> QED BY <2>3
<1>2. Disjoint(D, S) BY DEF Disjoint
<1> HIDE DEF D
<1>3. Cardinality(Parts(D, {})) = 0
  <2>1. Parts(D, {}) = {} BY DEF Parts
  <2> QED BY <2>1, FS_EmptySet
<1>4. \A s \in SUBSET S :
        g[s] = IF s = {} THEN 0 ELSE f[Picked(s)] + g[s \ {Picked(s)}]
  <2> SUFFICES ASSUME NEW s \in SUBSET S, s # {}
               PROVE  g[s] = f[Picked(s)] + g[s \ {Picked(s)}]
    BY <1>3
  <2>1. PICK x \in s : x = Picked(s) BY DEF Picked
  <2>2. Cardinality(Parts(D, s)) = Cardinality(D[x]) + Cardinality(Parts(D, s \ {x}))
    BY <1>1, <1>2, PartsGrow
  <2>3. Cardinality(D[x]) = f[x] BY <1>1
  <2>4. s \ {x} \in SUBSET S OBVIOUS
  <2> QED BY <2>1, <2>2, <2>3, <2>4
<1>5. Adds(g, f, S) BY <1>4 DEF Adds
<1> QED BY <1>5

\* Numbers that do not exceed, or that are, the sizes of disjoint parts add up to no more
\* than, or exactly, the size of the whole.
LEMMA SumsOfParts ==
  ASSUME NEW S, IsFiniteSet(S), NEW D, \A i \in S : IsFiniteSet(D[i]), Disjoint(D, S),
         NEW f, \A i \in S : f[i] \in Nat /\ f[i] <= Cardinality(D[i]),
         NEW g, Adds(g, f, S)
  PROVE  /\ g[S] \in Nat /\ g[S] <= Cardinality(Parts(D, S))
         /\ (\A i \in S : f[i] = Cardinality(D[i])) => g[S] = Cardinality(Parts(D, S))
<1> DEFINE Exact == \A i \in S : f[i] = Cardinality(D[i])
           T == {s \in SUBSET S : /\ g[s] \in Nat /\ g[s] <= Cardinality(Parts(D, s))
                                  /\ Exact => g[s] = Cardinality(Parts(D, s))}
<1>0. \A s \in SUBSET S : g[s] = IF s = {} THEN 0 ELSE f[Picked(s)] + g[s \ {Picked(s)}]
  BY DEF Adds
<1>1. {} \in T
  <2>1. Parts(D, {}) = {} BY DEF Parts
  <2>2. g[{}] = 0 BY <1>0
  <2> QED BY <2>1, <2>2, FS_EmptySet
<1>2. ASSUME NEW s \in SUBSET S, s # {}, \A x \in s : s \ {x} \in T PROVE s \in T
  <2>1. PICK x \in s : x = Picked(s) BY <1>2 DEF Picked
  <2>2. g[s] = f[x] + g[s \ {x}] BY <1>0, <1>2, <2>1
  <2>3. /\ Cardinality(D[x]) \in Nat /\ Cardinality(Parts(D, s \ {x})) \in Nat
        /\ Cardinality(Parts(D, s)) = Cardinality(D[x]) + Cardinality(Parts(D, s \ {x}))
    <3> HIDE DEF T, Exact
    <3> QED BY <1>2, <2>1, PartsGrow, SMTT(30)
  <2>4. /\ g[s \ {x}] \in Nat /\ g[s \ {x}] <= Cardinality(Parts(D, s \ {x}))
        /\ Exact => g[s \ {x}] = Cardinality(Parts(D, s \ {x}))
    BY <1>2
  <2>5. /\ f[x] \in Nat /\ f[x] <= Cardinality(D[x])
        /\ Exact => f[x] = Cardinality(D[x])
    OBVIOUS
  <2> HIDE DEF Exact
  <2>6. /\ g[s] \in Nat /\ g[s] <= Cardinality(Parts(D, s))
        /\ Exact => g[s] = Cardinality(Parts(D, s))
    BY <2>2, <2>3, <2>4, <2>5
  <2> QED BY <2>6
<1>3. SUBSET S \subseteq T
  <2> HIDE DEF T
  <2> QED BY <1>1, <1>2, SubsetInduction
<1> QED BY <1>3

\* What timeWindow.stats adds up.
CallsIn(w, live) == [i \in live |-> w[i].calls]
FailuresIn(w, live) == [i \in live |-> w[i].failures]

\* What timeWindow.stats returns are such sums over the live buckets.
LEMMA StatsAdd ==
  ASSUME NEW w, NEW n, NEW e, NEW live, live = LiveAt(w, n, e),
         IsFiniteSet(live), \A i \in live : w[i].calls \in Nat /\ w[i].failures \in Nat
  PROVE  \E g, h : /\ Adds(g, CallsIn(w, live), live) /\ Adds(h, FailuresIn(w, live), live)
                   /\ W!TimeStats(w, n, e) = [calls |-> g[live], failures |-> h[live]]
<1> DEFINE calls == CallsIn(w, live)
           failures == FailuresIn(w, live)
           C(g) == [s \in SUBSET live |-> IF s = {} THEN 0 ELSE
                      w[CHOOSE x \in s : TRUE].calls + g[s \ {CHOOSE x \in s : TRUE}]]
           F(g) == [s \in SUBSET live |-> IF s = {} THEN 0 ELSE
                      w[CHOOSE x \in s : TRUE].failures + g[s \ {CHOOSE x \in s : TRUE}]]
           c == CHOOSE g : g = C(g)
           f == CHOOSE g : g = F(g)
<1>1. W!TimeStats(w, n, e) = [calls |-> c[live], failures |-> f[live]]
  BY DEF LiveAt, W!TimeStats, W!MapThenSumSet, W!MapThenFoldSet
<1>2. \A s \in SUBSET live : s # {} => /\ calls[Picked(s)] = w[CHOOSE x \in s : TRUE].calls
                                       /\ failures[Picked(s)] = w[CHOOSE x \in s : TRUE].failures
  <2> SUFFICES ASSUME NEW s \in SUBSET live, s # {}
               PROVE  calls[Picked(s)] = w[Picked(s)].calls
                        /\ failures[Picked(s)] = w[Picked(s)].failures
    BY DEF Picked
  <2>1. Picked(s) \in s BY DEF Picked
  <2> QED BY <2>1 DEF CallsIn, FailuresIn
<1>3. \A g : (Adds(g, calls, live) <=> g = C(g)) /\ (Adds(g, failures, live) <=> g = F(g))
  <2> SUFFICES ASSUME NEW g
               PROVE  /\ Adds(g, calls, live) <=> g = C(g)
                      /\ Adds(g, failures, live) <=> g = F(g)
    OBVIOUS
  <2>1.               /\ C(g) = [s \in SUBSET live |->
                                   IF s = {} THEN 0 ELSE calls[Picked(s)] + g[s \ {Picked(s)}]]
                      /\ F(g) = [s \in SUBSET live |->
                                   IF s = {} THEN 0 ELSE failures[Picked(s)] + g[s \ {Picked(s)}]]
    <3> HIDE DEF calls, failures
    <3> QED BY <1>2 DEF Picked
  <2> HIDE DEF calls, failures, C, F
  <2> QED BY <2>1 DEF Adds
<1>4. \A i \in live : calls[i] \in Nat /\ failures[i] \in Nat BY DEF CallsIn, FailuresIn
<1> HIDE DEF calls, failures, C, F
<1>5. (\E g : Adds(g, calls, live)) /\ (\E g : Adds(g, failures, live)) BY <1>4, SumsExist
<1>6. c = C(c) BY <1>3, <1>5
<1>7. f = F(f) BY <1>3, <1>5
<1>8. Adds(c, calls, live) /\ Adds(f, failures, live) BY <1>3, <1>6, <1>7
<1> HIDE DEF c, f
<1> QED BY <1>1, <1>8 DEF calls, failures

\* Buckets in step with the history add up to what the time window should report.
LEMMA BucketsAddUp ==
  ASSUME GoConfigs, Lapped PROVE W!TimeWindowExact
<1>1. SUFFICES ASSUME W!InUse, ~W!Counting, NEW st, st = W!TimeStats(window, W!Size, sec)
      PROVE  /\ st.calls <= Cardinality(W!InLastSeconds)
             /\ st.failures <= Cardinality(W!Failed(W!InLastSeconds))
             /\ ~stepped => /\ st.calls = Cardinality(W!InLastSeconds)
                            /\ st.failures = Cardinality(W!Failed(W!InLastSeconds))
  BY WindowCardinality DEF W!TimeWindowExact
<1>l. /\ window \in [W!Slots(W!Size) -> Buckets] /\ hist \in Seq(Outcomes) /\ sec \in Int
      /\ W!Size \in Nat \ {0}
  BY <1>1, LapsPositive DEF Lapped
<1>x. /\ \A i \in Live : /\ window[i].calls <= Cardinality(Of(window[i].epoch))
                         /\ window[i].failures <= Cardinality(W!Failed(Of(window[i].epoch)))
      /\ \A i, j \in Live : window[i].epoch = window[j].epoch => i = j
      /\ ~stepped =>
          /\ \A i \in Live : /\ window[i].calls = Cardinality(Of(window[i].epoch))
                             /\ window[i].failures = Cardinality(W!Failed(Of(window[i].epoch)))
          /\ \A k \in W!InLastSeconds : \E i \in Live : window[i].epoch = hist[k].sec
  BY <1>1, LappedIsExact DEF TimeBucketsExact
<1>2. \A i \in Live : /\ i \in W!Slots(W!Size) /\ window[i].epoch \in Int
                      /\ window[i].calls \in Nat /\ window[i].failures \in Nat
                      /\ window[i].epoch > sec - W!Size /\ window[i].epoch <= sec
  <2> SUFFICES ASSUME NEW i \in Live
               PROVE  /\ i \in W!Slots(W!Size) /\ window[i].epoch \in Int
                      /\ window[i].calls \in Nat /\ window[i].failures \in Nat
                      /\ window[i].epoch > sec - W!Size /\ window[i].epoch <= sec
    OBVIOUS
  <2>1. i \in W!Slots(W!Size) /\ window[i].epoch >= sec - W!Size + 1 /\ window[i].epoch <= sec
    BY DEF Live, LiveAt
  <2>2. window[i] \in Buckets BY <1>l, <2>1
  <2>3. window[i].epoch \in Int /\ window[i].calls \in Nat /\ window[i].failures \in Nat
    BY <2>2 DEF Buckets
  <2> QED BY <1>l, <2>1, <2>3
<1>3. IsFiniteSet(Live)
  <2>1. IsFiniteSet(0..(W!Size - 1)) BY <1>l, FS_Interval
  <2> QED BY <2>1, FS_Subset DEF Live, LiveAt, W!Slots
<1> DEFINE calls == CallsIn(window, Live)
           failures == FailuresIn(window, Live)
           D == [i \in Live |-> Of(window[i].epoch)]
           E == [i \in Live |-> W!Failed(Of(window[i].epoch))]
<1>4. PICK g, h : /\ Adds(g, calls, Live) /\ Adds(h, failures, Live)
                  /\ st = [calls |-> g[Live], failures |-> h[Live]]
  <2>1. Live = LiveAt(window, W!Size, sec) BY DEF Live
  <2>2. \A i \in Live : window[i].calls \in Nat /\ window[i].failures \in Nat BY <1>2
  <2> HIDE DEF calls, failures
  <2>3. \E g, h : /\ Adds(g, CallsIn(window, Live), Live)
                  /\ Adds(h, FailuresIn(window, Live), Live)
                  /\ W!TimeStats(window, W!Size, sec) = [calls |-> g[Live], failures |-> h[Live]]
    BY <1>3, <2>1, <2>2, StatsAdd
  <2> QED BY <1>1, <2>3 DEF calls, failures
<1>5. \A i \in Live : /\ IsFiniteSet(D[i]) /\ IsFiniteSet(E[i])
                      /\ calls[i] \in Nat /\ calls[i] <= Cardinality(D[i])
                      /\ failures[i] \in Nat /\ failures[i] <= Cardinality(E[i])
                      /\ ~stepped => /\ calls[i] = Cardinality(D[i])
                                     /\ failures[i] = Cardinality(E[i])
  <2>1. \A i \in Live : IsFiniteSet(Of(window[i].epoch))
          /\ IsFiniteSet(W!Failed(Of(window[i].epoch)))
    BY <1>l, <1>2, OfFinite
  <2> QED BY <1>2, <1>x, <2>1 DEF CallsIn, FailuresIn
<1>6. Disjoint(D, Live) /\ Disjoint(E, Live)
  BY <1>x DEF Disjoint, Of, W!Failed
<1>7. /\ Parts(D, Live) \subseteq W!InLastSeconds
      /\ Parts(E, Live) \subseteq W!Failed(W!InLastSeconds)
  BY <1>2 DEF Parts, Of, W!Failed, W!InLastSeconds
<1>8. ~stepped => /\ W!InLastSeconds \subseteq Parts(D, Live)
                  /\ W!Failed(W!InLastSeconds) \subseteq Parts(E, Live)
  BY <1>x DEF Parts, Of, W!Failed, W!InLastSeconds
<1> HIDE DEF calls, failures, D, E
<1>9. IsFiniteSet(W!InLastSeconds) /\ IsFiniteSet(W!Failed(W!InLastSeconds))
  <2>1. IsFiniteSet(1..Len(hist)) BY <1>l, FS_Interval
  <2>2. W!InLastSeconds \subseteq 1..Len(hist) /\ W!Failed(W!InLastSeconds) \subseteq 1..Len(hist)
    BY DEF W!InLastSeconds, W!Failed
  <2> QED BY <2>1, <2>2, FS_Subset
<1>10. /\ Cardinality(W!InLastSeconds) \in Nat /\ Cardinality(W!Failed(W!InLastSeconds)) \in Nat
       /\ Cardinality(Parts(D, Live)) <= Cardinality(W!InLastSeconds)
       /\ Cardinality(Parts(E, Live)) <= Cardinality(W!Failed(W!InLastSeconds))
       /\ Cardinality(Parts(D, Live)) \in Nat /\ Cardinality(Parts(E, Live)) \in Nat
  BY <1>7, <1>9, FS_Subset, FS_CardinalityType
<1>11. /\ g[Live] \in Nat /\ g[Live] <= Cardinality(Parts(D, Live))
       /\ (\A i \in Live : calls[i] = Cardinality(D[i])) => g[Live] = Cardinality(Parts(D, Live))
  BY <1>3, <1>4, <1>5, <1>6, SumsOfParts
<1>12. /\ h[Live] \in Nat /\ h[Live] <= Cardinality(Parts(E, Live))
       /\ (\A i \in Live : failures[i] = Cardinality(E[i])) =>
            h[Live] = Cardinality(Parts(E, Live))
  BY <1>3, <1>4, <1>5, <1>6, SumsOfParts
<1>13. st.calls = g[Live] /\ st.failures = h[Live] BY <1>4
<1>14. st.calls <= Cardinality(W!InLastSeconds)
         /\ st.failures <= Cardinality(W!Failed(W!InLastSeconds))
  BY <1>10, <1>11, <1>12, <1>13
<1>15. ASSUME ~stepped
       PROVE  /\ st.calls = Cardinality(W!InLastSeconds)
              /\ st.failures = Cardinality(W!Failed(W!InLastSeconds))
  <2>1. Parts(D, Live) = W!InLastSeconds /\ Parts(E, Live) = W!Failed(W!InLastSeconds)
    BY <1>7, <1>8, <1>15
  <2>2. g[Live] = Cardinality(Parts(D, Live)) /\ h[Live] = Cardinality(Parts(E, Live))
    BY <1>5, <1>11, <1>12, <1>15
  <2> QED BY <1>13, <2>1, <2>2
<1> QED BY <1>14, <1>15

\* Every window reports what happened: the last Size outcomes however often its ring has
\* wrapped, or the outcomes of the last Size seconds, of which a clock that was set back may
\* make it forget some but never invent one (countWindow and timeWindow, of any size).
THEOREM WindowsAreExact == GoConfigs /\ FirstSec \in Int => (W!Spec => []WindowExact)
<1> SUFFICES ASSUME GoConfigs, FirstSec \in Int PROVE W!Spec => []WindowExact
  OBVIOUS
<1>1. W!Spec => []W!CountWindowExact BY CountWindowsAreExact
<1>2. W!Init => Lapped
  <2> SUFFICES ASSUME W!Init PROVE Lapped
    OBVIOUS
  <2>1. /\ ~built /\ built \in BOOLEAN /\ stepped \in BOOLEAN /\ hist = <<>> /\ sec \in Int
    BY DEF W!Init
  <2>2. raw \in Written BY DEF W!Init, GoConfigs
  <2>3. hist \in Seq(Outcomes) BY <2>1
  <2> QED BY <2>1, <2>2, <2>3 DEF Lapped, W!InUse
<1>3. Lapped /\ [W!Next]_W!vars => Lapped' BY LapKept
<1>4. Lapped => W!TimeWindowExact BY BucketsAddUp
<1>5. W!CountWindowExact /\ W!TimeWindowExact => WindowExact BY DEF WindowExact, W!WindowExact
<1> QED BY <1>1, <1>2, <1>3, <1>4, <1>5, PTL DEF W!Spec
==============================================================================
