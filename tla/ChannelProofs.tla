---------------------------- MODULE ChannelProofs ----------------------------
(***************************************************************************)
(* The patterns that coordinate goroutines with channels and timers.        *)
(*                                                                          *)
(* Bulkhead: slots are given back, refusals are final and the bulkhead      *)
(* implements ConcurrencyLimit, for any number of requests, slots and queue *)
(* places.  What these need beyond themselves is where a request can be: a  *)
(* function that reached the worker belongs to a caller that waits or has   *)
(* given up, the worker holds exactly the function that is marked as held,  *)
(* and only a closed bulkhead answers a queued function with                *)
(* ErrBulkheadFull.                                                         *)
(*                                                                          *)
(* Stream timeout and hedge follow, each as an instance of its module.      *)
(***************************************************************************)
EXTENDS Bulkhead, PerCall, FiniteSetTheorems, TLAPS

\* The stages of a request fit together.
Placed(r) ==
  /\ task[r] # "none" => pc[r] \in {"wait", "returned"}
  /\ pc[r] = "wait" => task[r] # "none"
  /\ ret[r] # "none" => pc[r] = "returned"
  /\ task[r] = "held" <=> worker = "held" /\ held = r
  /\ result[r] = "full" => done

Coherent ==
  /\ \A r \in Requests : Placed(r)
  /\ worker = "held" => held \in Requests
  /\ worker \in {"drain", "exited"} => done

IInv == TypeOK /\ Coherent /\ SlotsAccounted /\ RefusedNeverRuns

-----------------------------------------------------------------------------
(* Configuration and counting.                                              *)

\* setDefaults leaves at least one slot and no negative queue.
LEMMA ConfigTyped == MaxConcurrent \in Nat \ {0} /\ MaxQueue \in Nat
BY ConfigAssumption DEF MaxConcurrent, MaxQueue

\* The counted sets are finite: there are finitely many requests.
LEMMA Finite == /\ IsFiniteSet(Direct) /\ IsFiniteSet(Spawned) /\ IsFiniteSet(InQueue)
                /\ Cardinality(Direct) \in Nat /\ Cardinality(Spawned) \in Nat
                /\ Cardinality(InQueue) \in Nat
<1>1. Direct \subseteq Requests /\ Spawned \subseteq Requests /\ InQueue \subseteq Requests
  BY DEF Direct, Spawned, InQueue
<1> QED BY <1>1, RequestsAssumption, FS_Subset, FS_CardinalityType

\* A channel used as a semaphore: one send takes a slot.
LEMMA OneMore ==
  ASSUME NEW S, IsFiniteSet(S), NEW x, x \notin S
  PROVE  Cardinality(S \cup {x}) = Cardinality(S) + 1
BY FS_AddElement

\* A channel used as a semaphore: one receive frees a slot, which somebody had.
LEMMA OneLess ==
  ASSUME NEW S, IsFiniteSet(S), NEW x \in S
  PROVE  Cardinality(S \ {x}) = Cardinality(S) - 1 /\ Cardinality(S) >= 1
<1>1. IsFiniteSet(S \ {x}) /\ Cardinality(S \ {x}) = Cardinality(S) - 1
  BY FS_RemoveElement
<1>2. Cardinality(S) \in Nat /\ Cardinality(S \ {x}) \in Nat
  BY <1>1, FS_CardinalityType
<1> QED BY <1>1, <1>2

-----------------------------------------------------------------------------
(* Typing and coherence.                                                    *)

\* A new bulkhead (New).
LEMMA InitIInv == Init => IInv
<1> SUFFICES ASSUME Init PROVE IInv
  OBVIOUS
<1>1. TypeOK
  BY ConfigTyped DEF Init, TypeOK
<1>2. Coherent
  BY ConfigTyped DEF Init, Coherent, Placed
<1>3. Direct = {} /\ Spawned = {} /\ InQueue = {}
  BY DEF Init, Direct, Spawned, InQueue
<1>4. SlotsAccounted
  BY <1>3, ConfigTyped, FS_EmptySet DEF Init, SlotsAccounted
<1>5. RefusedNeverRuns
  BY DEF Init, RefusedNeverRuns
<1> QED BY <1>1, <1>2, <1>4, <1>5 DEF IInv

\* TypeOK but for the two counters, which SlotsAccounted shows to be no less than 0.
Typed ==
  /\ sem \in Int /\ queueSem \in Int
  /\ pc \in [Requests -> {"idle", "trySem", "direct", "enqueue", "send", "wait", "returned"}]
  /\ ret \in [Requests -> {"none", "done", "full", "cancelled", "timeout"}]
  /\ task \in [Requests -> {"none", "held", "running", "sent", "finished", "dropped"}]
  /\ result \in [Requests -> {"none", "done", "full", "cancelled"}]
  /\ cancelled \subseteq Requests /\ timedOut \subseteq Requests
  /\ worker \in {"none", "recv", "held", "drain", "exited"}
  /\ held \in Requests \cup {NoRequest}
  /\ done \in BOOLEAN

\* Execute and enqueue, step by step, keep the stages together, and answer
\* ErrBulkheadFull only for functions that are nowhere else.
LEMMA CallerPlaced ==
  ASSUME TypeOK, Coherent, RefusedNeverRuns, NEW r \in Requests, CallerStep(r)
  PROVE  Typed' /\ Coherent' /\ RefusedNeverRuns'
<1> USE DEF TypeOK, Typed, Coherent, Placed, RefusedNeverRuns, Goto, Return, envVars, workVars
<1>1. CASE Begin(r)
  BY <1>1 DEF Begin
<1>2. CASE AcquireDirect(r)
  BY <1>2 DEF AcquireDirect
<1>3. CASE GiveUpDirect(r)
  BY <1>3 DEF GiveUpDirect
<1>4. CASE SlotsTaken(r)
  BY <1>4 DEF SlotsTaken
<1>5. CASE DirectReturns(r)
  BY <1>5 DEF DirectReturns
<1>6. CASE TakeQueueSlot(r)
  BY <1>6 DEF TakeQueueSlot
<1>7. CASE GiveUpEnqueue(r)
  BY <1>7 DEF GiveUpEnqueue, QueueCtxErr
<1>8. CASE QueueFull(r)
  BY <1>8 DEF QueueFull
<1>9. CASE GiveUpSend(r)
  BY <1>9 DEF GiveUpSend, QueueCtxErr
<1>10. CASE ReceiveResult(r)
  BY <1>10 DEF ReceiveResult
<1>11. CASE GiveUpWait(r)
  BY <1>11 DEF GiveUpWait, QueueCtxErr
<1> QED BY <1>1, <1>2, <1>3, <1>4, <1>5, <1>6, <1>7, <1>8, <1>9, <1>10, <1>11 DEF CallerStep

\* So do the worker, the goroutines it starts, the contexts of the callers and Close.
LEMMA OthersPlaced ==
  ASSUME TypeOK, Coherent, RefusedNeverRuns,
         \/ WorkerStep \/ Close
         \/ \E r \in Requests : TaskSends(r) \/ TaskReleases(r) \/ Cancel(r) \/ QueueTimer(r)
  PROVE  Typed' /\ Coherent' /\ RefusedNeverRuns'
<1> USE RequestsAssumption
    DEF TypeOK, Typed, Coherent, Placed, RefusedNeverRuns, Goto, Move, Send, envVars, workVars
<1>1. CASE WorkerStarts
  BY <1>1 DEF WorkerStarts
<1>2. CASE WorkerSkipsCancelled
  BY <1>2 DEF WorkerSkipsCancelled
<1>3. CASE WorkerShutsDown
  BY <1>3 DEF WorkerShutsDown
<1>4. CASE DrainEnds
  BY <1>4 DEF DrainEnds
<1>5. CASE Close
  BY <1>5 DEF Close
<1>6. ASSUME NEW r \in Requests, TaskSends(r) PROVE Typed' /\ Coherent' /\ RefusedNeverRuns'
  BY <1>6 DEF TaskSends
<1>7. ASSUME NEW r \in Requests, TaskReleases(r) PROVE Typed' /\ Coherent' /\ RefusedNeverRuns'
  BY <1>7 DEF TaskReleases
<1>8. ASSUME NEW r \in Requests, Cancel(r) PROVE Typed' /\ Coherent' /\ RefusedNeverRuns'
  BY <1>8 DEF Cancel
<1>9. ASSUME NEW r \in Requests, QueueTimer(r) PROVE Typed' /\ Coherent' /\ RefusedNeverRuns'
  BY <1>9 DEF QueueTimer
<1>10. ASSUME NEW r \in Requests, HandOver(r) PROVE Typed' /\ Coherent' /\ RefusedNeverRuns'
  BY <1>10 DEF HandOver
<1>11. ASSUME NEW r \in Requests, DrainOne(r) PROVE Typed' /\ Coherent' /\ RefusedNeverRuns'
  BY <1>11 DEF DrainOne
<1> QED BY <1>1, <1>2, <1>3, <1>4, <1>5, <1>6, <1>7, <1>8, <1>9, <1>10, <1>11 DEF WorkerStep

-----------------------------------------------------------------------------
(* Counting.                                                                *)

\* The slots are those of the same calls, and the semaphores did not move.
LEMMA SlotsUntouched ==
  ASSUME SlotsAccounted, sem' = sem, queueSem' = queueSem,
         Direct' = Direct, Spawned' = Spawned, InQueue' = InQueue
  PROVE  SlotsAccounted'
BY DEF SlotsAccounted

\* Execute and enqueue take and give back the slots they count.
LEMMA CallerSlots ==
  ASSUME TypeOK, Coherent, SlotsAccounted, NEW r \in Requests, CallerStep(r)
  PROVE  SlotsAccounted'
<1> USE DEF TypeOK, Goto, Return, envVars, workVars
<1>1. CASE Begin(r) \/ GiveUpDirect(r) \/ SlotsTaken(r) \/ GiveUpEnqueue(r) \/ QueueFull(r)
  <2>1. sem' = sem /\ queueSem' = queueSem /\ task' = task
    BY <1>1 DEF Begin, GiveUpDirect, SlotsTaken, GiveUpEnqueue, QueueFull
  <2>2. /\ pc[r] \in {"idle", "trySem", "enqueue"}
        /\ \E where \in {"trySem", "enqueue", "returned"} : pc' = [pc EXCEPT ![r] = where]
    BY <1>1 DEF Begin, GiveUpDirect, SlotsTaken, GiveUpEnqueue, QueueFull
  <2>3. Direct' = Direct /\ Spawned' = Spawned /\ InQueue' = InQueue
    BY <2>1, <2>2 DEF Direct, Spawned, InQueue
  <2> QED BY <2>1, <2>3, SlotsUntouched
<1>2. CASE AcquireDirect(r)
  <2>1. r \notin Direct /\ Direct' = Direct \cup {r} /\ Spawned' = Spawned /\ InQueue' = InQueue
    BY <1>2 DEF AcquireDirect, Direct, Spawned, InQueue
  <2>2. Cardinality(Direct') = Cardinality(Direct) + 1
    BY <2>1, Finite, OneMore
  <2> QED BY <1>2, <2>1, <2>2, Finite, ConfigTyped DEF AcquireDirect, SlotsAccounted
<1>3. CASE DirectReturns(r)
  <2>1. r \in Direct /\ Direct' = Direct \ {r} /\ Spawned' = Spawned /\ InQueue' = InQueue
    BY <1>3 DEF DirectReturns, Direct, Spawned, InQueue
  <2>2. Cardinality(Direct') = Cardinality(Direct) - 1
    BY <2>1, Finite, OneLess
  <2> QED BY <1>3, <2>1, <2>2, Finite, ConfigTyped DEF DirectReturns, SlotsAccounted
<1>4. CASE TakeQueueSlot(r)
  <2>1. r \notin InQueue /\ InQueue' = InQueue \cup {r} /\ Direct' = Direct /\ Spawned' = Spawned
    BY <1>4 DEF TakeQueueSlot, Direct, Spawned, InQueue
  <2>2. Cardinality(InQueue') = Cardinality(InQueue) + 1
    BY <2>1, Finite, OneMore
  <2> QED BY <1>4, <2>1, <2>2, Finite, ConfigTyped DEF TakeQueueSlot, SlotsAccounted
<1>5. CASE GiveUpSend(r) \/ ReceiveResult(r) \/ GiveUpWait(r)
  <2>1. sem' = sem /\ queueSem' = queueSem - 1 /\ task' = task
    BY <1>5 DEF GiveUpSend, ReceiveResult, GiveUpWait
  <2>2. pc[r] \in {"send", "wait"} /\ pc' = [pc EXCEPT ![r] = "returned"]
    BY <1>5 DEF GiveUpSend, ReceiveResult, GiveUpWait
  <2>3. r \in InQueue /\ InQueue' = InQueue \ {r} /\ Direct' = Direct /\ Spawned' = Spawned
    BY <2>1, <2>2 DEF Direct, Spawned, InQueue
  <2>4. Cardinality(InQueue') = Cardinality(InQueue) - 1
    BY <2>3, Finite, OneLess
  <2> QED BY <2>1, <2>3, <2>4, Finite, ConfigTyped DEF SlotsAccounted
<1> QED BY <1>1, <1>2, <1>3, <1>4, <1>5 DEF CallerStep

\* The worker takes a slot for the function it starts, whose goroutine gives it back;
\* a queue slot stays with the caller when its function moves on.
LEMMA OthersSlots ==
  ASSUME TypeOK, Coherent, SlotsAccounted,
         \/ WorkerStep \/ Close
         \/ \E r \in Requests : TaskSends(r) \/ TaskReleases(r) \/ Cancel(r) \/ QueueTimer(r)
  PROVE  SlotsAccounted'
<1> USE DEF TypeOK, Goto, Move, Send, envVars, workVars
<1>1. CASE WorkerStarts
  <2>1. held \in Requests /\ task[held] = "held"
    BY <1>1 DEF WorkerStarts, Coherent, Placed
  <2>2. /\ held \notin Spawned /\ Spawned' = Spawned \cup {held}
        /\ Direct' = Direct /\ InQueue' = InQueue
    BY <1>1, <2>1 DEF WorkerStarts, Direct, Spawned, InQueue
  <2>3. Cardinality(Spawned') = Cardinality(Spawned) + 1
    BY <2>2, Finite, OneMore
  <2> QED BY <1>1, <2>2, <2>3, Finite, ConfigTyped DEF WorkerStarts, SlotsAccounted
<1>2. ASSUME NEW r \in Requests, TaskReleases(r) PROVE SlotsAccounted'
  <2>1. r \in Spawned /\ Spawned' = Spawned \ {r} /\ Direct' = Direct /\ InQueue' = InQueue
    BY <1>2 DEF TaskReleases, Direct, Spawned, InQueue
  <2>2. Cardinality(Spawned') = Cardinality(Spawned) - 1
    BY <2>1, Finite, OneLess
  <2> QED BY <1>2, <2>1, <2>2, Finite, ConfigTyped DEF TaskReleases, SlotsAccounted
<1>3. CASE WorkerSkipsCancelled \/ WorkerShutsDown
  <2>1. sem' = sem /\ queueSem' = queueSem /\ pc' = pc
    BY <1>3 DEF WorkerSkipsCancelled, WorkerShutsDown
  <2>2. \/ task' = task
        \/ held \in Requests /\ task[held] = "held" /\ task' = [task EXCEPT ![held] = "dropped"]
    BY <1>3 DEF WorkerSkipsCancelled, WorkerShutsDown, Coherent, Placed
  <2>3. Direct' = Direct /\ Spawned' = Spawned /\ InQueue' = InQueue
    BY <2>1, <2>2 DEF Direct, Spawned, InQueue
  <2> QED BY <2>1, <2>3, SlotsUntouched
<1>4. ASSUME NEW r \in Requests, HandOver(r) \/ DrainOne(r) PROVE SlotsAccounted'
  <2>1. /\ sem' = sem /\ queueSem' = queueSem /\ pc[r] = "send" /\ pc' = [pc EXCEPT ![r] = "wait"]
        /\ \E where \in {"held", "dropped"} : task' = [task EXCEPT ![r] = where]
    BY <1>4 DEF HandOver, DrainOne
  <2>2. task[r] = "none"
    BY <2>1 DEF Coherent, Placed
  <2>3. Direct' = Direct /\ Spawned' = Spawned /\ InQueue' = InQueue
    BY <2>1, <2>2 DEF Direct, Spawned, InQueue
  <2> QED BY <2>1, <2>3, SlotsUntouched
<1>5. ASSUME NEW r \in Requests, TaskSends(r) PROVE SlotsAccounted'
  <2>1. Direct' = Direct /\ Spawned' = Spawned /\ InQueue' = InQueue
    BY <1>5 DEF TaskSends, Direct, Spawned, InQueue
  <2> QED BY <1>5, <2>1, SlotsUntouched DEF TaskSends
<1>6. ASSUME NEW r \in Requests, Cancel(r) \/ QueueTimer(r) PROVE SlotsAccounted'
  BY <1>6, ZenonT(60) DEF Cancel, QueueTimer, SlotsAccounted, Direct, Spawned, InQueue
<1>7. CASE DrainEnds \/ Close
  BY <1>7 DEF DrainEnds, Close, SlotsAccounted, Direct, Spawned, InQueue
<1> QED BY <1>1, <1>2, <1>3, <1>4, <1>5, <1>6, <1>7 DEF WorkerStep

-----------------------------------------------------------------------------
(* The theorems.                                                            *)

\* Every step keeps the inductive invariant.
LEMMA NextIInv == IInv /\ [Next]_vars => IInv'
<1> SUFFICES ASSUME IInv, [Next]_vars PROVE IInv'
  OBVIOUS
<1> USE DEF IInv
<1>1. CASE UNCHANGED vars
  BY <1>1 DEF vars, TypeOK, Coherent, Placed, SlotsAccounted, RefusedNeverRuns,
              Direct, Spawned, InQueue
<1>2. CASE Next
  <2>1. Typed' /\ Coherent' /\ RefusedNeverRuns'
    BY <1>2, CallerPlaced, OthersPlaced DEF Next
  <2>2. SlotsAccounted'
    BY <1>2, CallerSlots, OthersSlots DEF Next
  <2>3. /\ Cardinality(Direct') + Cardinality(Spawned') \in Nat
        /\ Cardinality(InQueue') \in Nat
    <3>1. Direct' \subseteq Requests /\ Spawned' \subseteq Requests /\ InQueue' \subseteq Requests
      BY DEF Direct, Spawned, InQueue
    <3>2. /\ Cardinality(Direct') \in Nat /\ Cardinality(Spawned') \in Nat
          /\ Cardinality(InQueue') \in Nat
      BY <3>1, RequestsAssumption, FS_Subset, FS_CardinalityType
    <3> QED BY <3>2
  <2>4. TypeOK'
    BY <2>1, <2>2, <2>3 DEF Typed, TypeOK, SlotsAccounted
  <2> QED BY <2>1, <2>2, <2>4
<1> QED BY <1>1, <1>2

\* The inductive invariant holds in every run of the bulkhead.
THEOREM Invariance == Spec => []IInv
BY InitIInv, NextIInv, PTL DEF Spec

\* Semaphores never go negative, and requests, tasks and the worker stay at the places
\* that the code has (bulkhead.go:76-96).
THEOREM TypeCorrect == Spec => []TypeOK
<1>1. IInv => TypeOK
  BY DEF IInv
<1> QED BY <1>1, Invariance, PTL

\* No way out of Execute, enqueue and the worker keeps a slot or gives one back twice
\* (bulkhead.go:152-154, 191-193, 246-248).
THEOREM SlotsAlwaysAccounted == Spec => []SlotsAccounted
<1>1. IInv => SlotsAccounted
  BY DEF IInv
<1> QED BY <1>1, Invariance, PTL

\* ErrBulkheadFull from an open bulkhead means that the function has not run and will
\* not run (bulkhead.go:201-202).
THEOREM RefusalsAreFinal == Spec => []RefusedNeverRuns
<1>1. IInv => RefusedNeverRuns
  BY DEF IInv
<1> QED BY <1>1, Invariance, PTL

-----------------------------------------------------------------------------
(* The refinement.                                                          *)

\* The functions that run, and those that have run, as ConcurrencyLimit sees them.
RunningNow == Direct \cup Spawned
FinishedNow == {r \in Requests : \/ task[r] = "finished"
                                 \/ pc[r] = "returned" /\ ret[r] = "done" /\ task[r] = "none"}

\* No function runs in its caller and in a goroutine of the worker, so the slots taken
\* are the functions that run.
LEMMA RunningCounted ==
  ASSUME TypeOK, Coherent, SlotsAccounted
  PROVE  Cardinality(RunningNow) = sem
<1>1. Direct \cap Spawned = {}
  BY DEF Direct, Spawned, TypeOK, Coherent, Placed
<1>2. Cardinality(RunningNow) =
        Cardinality(Direct) + Cardinality(Spawned) - Cardinality(Direct \cap Spawned)
  BY Finite, FS_Union DEF RunningNow
<1> QED BY <1>1, <1>2, Finite, FS_EmptySet DEF SlotsAccounted

\* ConcurrencyLimit counts as this module does.
LEMMA SameCardinality == \A S : Limiter!Cardinality(S) = Cardinality(S)
BY DEF Limiter!Cardinality, Cardinality

\* Taking a slot starts one function that has not run, and is only possible while
\* fewer than MaxConcurrent run.
LEMMA StartStep ==
  ASSUME TypeOK, Coherent, SlotsAccounted, NEW r \in Requests, sem < MaxConcurrent,
         r \notin RunningNow \cup FinishedNow,
         RunningNow' = RunningNow \cup {r}, FinishedNow' = FinishedNow
  PROVE  Limiter!Start(r)
<1>1. Limiter!Cardinality(RunningNow) < MaxConcurrent
  BY RunningCounted, SameCardinality
<1> QED BY <1>1 DEF Limiter!Start, RunningNow, FinishedNow

\* Every step of the bulkhead starts one function, finishes one or does neither.
LEMMA LimiterStep == IInv /\ [Next]_vars => [Limiter!Next]_Limiter!vars
<1> SUFFICES ASSUME IInv, [Next]_vars PROVE [Limiter!Next]_Limiter!vars
  OBVIOUS
<1> USE DEF IInv
<1> DEFINE Neither == RunningNow' = RunningNow /\ FinishedNow' = FinishedNow
<1> DEFINE Both == \E r \in Requests : Limiter!Start(r) \/ Limiter!Finish(r)
<1>1. CASE UNCHANGED vars
  BY <1>1 DEF vars, Limiter!vars, Direct, Spawned
<1>2. ASSUME NEW r \in Requests, CallerStep(r) PROVE Neither \/ Both
  <2> USE DEF TypeOK, Coherent, Placed, RunningNow, FinishedNow, Direct, Spawned,
              Goto, Return, envVars, workVars
  <2>1. CASE AcquireDirect(r)
    <3>1. /\ r \notin RunningNow \cup FinishedNow
          /\ RunningNow' = RunningNow \cup {r} /\ FinishedNow' = FinishedNow
      BY <2>1 DEF AcquireDirect
    <3>2. sem < MaxConcurrent
      BY <2>1 DEF AcquireDirect
    <3>3. Limiter!Start(r)
      BY <3>1, <3>2, StartStep
    <3> QED BY <3>3
  <2>2. CASE DirectReturns(r)
    <3>1. /\ r \in RunningNow /\ RunningNow' = RunningNow \ {r}
          /\ FinishedNow' = FinishedNow \cup {r}
      BY <2>2 DEF DirectReturns
    <3>2. Limiter!Finish(r)
      BY <3>1 DEF Limiter!Finish
    <3> QED BY <3>2
  <2>3. CASE Begin(r)
    BY <2>3 DEF Begin
  <2>4. CASE GiveUpDirect(r) \/ SlotsTaken(r)
    BY <2>4 DEF GiveUpDirect, SlotsTaken
  <2>5. CASE TakeQueueSlot(r) \/ GiveUpEnqueue(r) \/ QueueFull(r)
    BY <2>5 DEF TakeQueueSlot, GiveUpEnqueue, QueueFull, QueueCtxErr
  <2>6. CASE GiveUpSend(r) \/ GiveUpWait(r)
    BY <2>6 DEF GiveUpSend, GiveUpWait, QueueCtxErr
  <2>7. CASE ReceiveResult(r)
    BY <2>7 DEF ReceiveResult
  <2> QED BY <1>2, <2>1, <2>2, <2>3, <2>4, <2>5, <2>6, <2>7 DEF CallerStep
<1>3. ASSUME \/ WorkerStep \/ Close
             \/ \E r \in Requests : TaskSends(r) \/ TaskReleases(r) \/ Cancel(r) \/ QueueTimer(r)
      PROVE  Neither \/ Both
  <2> USE DEF TypeOK, Coherent, Placed, RunningNow, FinishedNow, Direct, Spawned,
              Goto, Move, Send, envVars, workVars
  <2>1. CASE WorkerStarts
    <3>1. PICK r \in Requests : r = held
      BY <2>1 DEF WorkerStarts
    <3>2. /\ r \notin RunningNow \cup FinishedNow
          /\ RunningNow' = RunningNow \cup {r} /\ FinishedNow' = FinishedNow
      BY <2>1, <3>1 DEF WorkerStarts
    <3>3. sem < MaxConcurrent
      BY <2>1 DEF WorkerStarts
    <3>4. Limiter!Start(r)
      BY <3>2, <3>3, StartStep
    <3> QED BY <3>4
  <2>2. ASSUME NEW r \in Requests, TaskReleases(r) PROVE Neither \/ Both
    <3>1. /\ r \in RunningNow /\ RunningNow' = RunningNow \ {r}
          /\ FinishedNow' = FinishedNow \cup {r}
      BY <2>2 DEF TaskReleases
    <3>2. Limiter!Finish(r)
      BY <3>1 DEF Limiter!Finish
    <3> QED BY <3>2
  <2>3. ASSUME NEW r \in Requests, TaskSends(r) PROVE Neither
    BY <2>3 DEF TaskSends
  <2>4. ASSUME NEW r \in Requests, HandOver(r) \/ DrainOne(r) PROVE Neither
    BY <2>4 DEF HandOver, DrainOne
  <2>5. CASE WorkerSkipsCancelled \/ WorkerShutsDown
    BY <2>5 DEF WorkerSkipsCancelled, WorkerShutsDown
  <2>6. ASSUME NEW r \in Requests, Cancel(r) \/ QueueTimer(r) PROVE Neither
    BY <2>6 DEF Cancel, QueueTimer
  <2>7. CASE DrainEnds \/ Close
    BY <2>7 DEF DrainEnds, Close
  <2> QED BY <1>3, <2>1, <2>2, <2>3, <2>4, <2>5, <2>6, <2>7 DEF WorkerStep
<1>4. Neither => UNCHANGED Limiter!vars
  BY DEF Limiter!vars, RunningNow, FinishedNow
<1>5. Both => Limiter!Next
  BY DEF Limiter!Next
<1> QED BY <1>1, <1>2, <1>3, <1>4, <1>5 DEF Next

\* The bulkhead implements ConcurrencyLimit: every function runs at most once and no
\* more than MaxConcurrent run together, in their callers or in goroutines that outlive
\* them (bulkhead.go:141-158, 228-262).
THEOREM ImplementsConcurrencyLimit == Spec => LimitsConcurrency
<1>1. Init => Limiter!Init
  BY DEF Init, Limiter!Init, Direct, Spawned
<1> QED BY <1>1, LimiterStep, Invariance, PTL DEF Spec, LimitsConcurrency, Limiter!Spec

-----------------------------------------------------------------------------
(***************************************************************************)
(* The stream timeout.  A watchdog fires after it has received from its     *)
(* timer, and chunks may be marked in between; what it was right about then *)
(* stays true, for the longest gap so far only grows.                       *)
(***************************************************************************)

\* The deadline of watchdog w has been missed, now or earlier.
Missed(w) == IF w = "idle" THEN marked /\ (Stream!Gap >= cfg["idle"] \/ longest >= cfg["idle"])
             ELSE clock >= cfg[w]

\* Each watchdog's timer is set to its own deadline, and what has fired was due.
Timed ==
  /\ cfg \in [Stream!Watchdogs -> Nat] /\ deadline \in [Stream!Watchdogs -> Nat]
  /\ dog \in [Stream!Watchdogs -> {"off", "waiting", "firing", "gone"}]
  /\ stage \in Stream!Watchdogs \cup {"none"} /\ marked \in BOOLEAN
  /\ clock \in Nat /\ lastMark \in 0..clock /\ longest \in Nat
  /\ deadline["first"] = cfg["first"] /\ deadline["total"] = cfg["total"]
  /\ dog["idle"] # "off" => marked /\ cfg["idle"] > 0
  /\ marked /\ cfg["idle"] > 0 => deadline["idle"] = lastMark + cfg["idle"]
  /\ \A w \in Stream!Watchdogs : dog[w] = "firing" \/ stage = w => Missed(w)

\* What the timers say stays true.
LEMMA TimedKept == Timed /\ [Stream!Next]_Stream!vars => Timed'
<1> SUFFICES ASSUME Timed, [Stream!Next]_Stream!vars PROVE Timed'
  OBVIOUS
<1> USE DEF Stream!Watchdogs, Stream!Gap
<1>1. CASE Stream!FirstMark
  BY <1>1 DEF Stream!FirstMark, Timed, Missed
<1>2. CASE Stream!LaterMark
  BY <1>2 DEF Stream!LaterMark, Timed, Missed
<1>3. CASE Stream!FnReturns \/ Stream!Collect \/ Stream!Judge \/ Stream!CallerCancels
  BY <1>3 DEF Stream!FnReturns, Stream!Collect, Stream!Judge, Stream!CallerCancels, Timed, Missed
<1>4. CASE Stream!Tick
  BY <1>4 DEF Stream!Tick, Timed, Missed
<1>5. ASSUME NEW w \in Stream!Watchdogs, Stream!Expire(w) PROVE Timed'
  BY <1>5 DEF Stream!Expire, Timed, Missed
<1>6. ASSUME NEW w \in Stream!Watchdogs, Stream!Fire(w) PROVE Timed'
  BY <1>6 DEF Stream!Fire, Timed, Missed
<1>7. ASSUME NEW w \in Stream!Watchdogs, Stream!Retire(w) PROVE Timed'
  BY <1>7 DEF Stream!Retire, Timed, Missed
<1>8. CASE UNCHANGED Stream!vars
  BY <1>8 DEF Stream!vars, Timed, Missed
<1> QED BY <1>1, <1>2, <1>3, <1>4, <1>5, <1>6, <1>7, <1>8 DEF Stream!Next, Stream!Watches,
           Stream!Returns

\* StageIsTrue: for all three timeouts, any number of chunks and any schedule of the watchdogs,
\* the deadline that fired was missed.
THEOREM StagesAreTrue == Stream!FairSpec => []StageIsTrue
<1>1. Stream!Init => Timed
  <2> SUFFICES ASSUME Stream!Init PROVE Timed
    OBVIOUS
  <2>1. cfg \in [Stream!Watchdogs -> Nat] /\ deadline \in [Stream!Watchdogs -> Nat]
          /\ deadline = cfg
    BY StreamAssumption DEF Stream!Init
  <2>2. /\ dog \in [Stream!Watchdogs -> {"off", "waiting", "firing", "gone"}]
        /\ dog["idle"] = "off"
        /\ \A w \in Stream!Watchdogs : dog[w] # "firing"
    BY DEF Stream!Init, Stream!Watchdogs
  <2>3. clock \in Nat /\ lastMark \in 0..clock /\ longest \in Nat /\ stage = "none"
    BY DEF Stream!Init
  <2>4. marked \in BOOLEAN /\ ~marked
    BY DEF Stream!Init
  <2>5. \A w \in Stream!Watchdogs : ~(dog[w] = "firing" \/ stage = w)
    BY <2>2, <2>3 DEF Stream!Watchdogs
  <2> QED BY <2>1, <2>2, <2>3, <2>4, <2>5 DEF Timed
<1>2. Timed /\ [Stream!Next]_Stream!vars => Timed' BY TimedKept
<1>3. Timed => StageIsTrue
  BY DEF Timed, Missed, StageIsTrue, Stream!StageIsTrue, Stream!Watchdogs, Stream!Gap
<1> QED BY <1>1, <1>2, <1>3, PTL DEF Stream!FairSpec

-----------------------------------------------------------------------------
(***************************************************************************)
(* The hedge.  The coordinator only counts: the results it has collected    *)
(* and the attempts it has fired.  What it concludes is right because every *)
(* result comes from an attempt of its own.                                 *)
(***************************************************************************)

\* Attempts are fired in order, up to MaxAttempts, and those that ended have an outcome.
Dispatched ==
  /\ hedge.kind \in {"hedge", "llm"} /\ hedge.max \in 1..MaxOverall
  /\ hpc \in {"start", "select", "returned"} /\ fired \in 0..hedge.max /\ collected \in Nat
  /\ results \in Seq({"ok", "error"})
  /\ attempt \in [Hedge!Attempts -> {"unfired", "running", "sending", "ended"}]
  /\ outcome \in [Hedge!Attempts -> {"none", "ok", "error"}]
  /\ \A i \in Hedge!Attempts : i > fired => attempt[i] = "unfired"
  /\ \A i \in Hedge!Attempts : attempt[i] \in {"sending", "ended"} => outcome[i] \in {"ok", "error"}
  /\ hpc = "start" => fired = 0
  /\ hpc # "returned" => winner = "none"

\* How many reports have been sent.
Reported == collected + Len(results)

\* f tells which attempt every report came from, those collected and those in the channel.
Traced(f) ==
  /\ f \in [1..Reported -> 1..fired]
  /\ \A i, j \in 1..Reported : f[i] = f[j] => i = j
  /\ \A j \in 1..Reported : attempt[f[j]] = "ended"
  /\ \A j \in 1..Len(results) : outcome[f[collected + j]] = results[j]
  /\ hpc = "select" => \A j \in 1..collected : outcome[f[j]] = "error"

\* A call that failed has seen all its attempts fail.
Settled ==
  winner = "error" =>
    /\ \A i \in 1..fired : attempt[i] = "ended" /\ outcome[i] = "error"
    /\ hedge.kind = "hedge" => fired = hedge.max

\* The inductive invariant.
HedgeInv == Dispatched /\ (\E f : Traced(f)) /\ Settled

-----------------------------------------------------------------------------
(* What the steps do.                                                       *)

\* The coordinator waits, or returns without a verdict on the attempts.
Waits ==
  /\ UNCHANGED <<hedge, attempt, outcome, results, fired, collected>>
  /\ \/ UNCHANGED <<hpc, winner>>
     \/ hpc' = "returned" /\ winner' \in {"cancelled", "panic"} /\ hpc # "returned"

\* The next attempt is dispatched.
Launches ==
  /\ hpc \in {"start", "select"} /\ hpc' = "select" /\ fired < hedge.max
  /\ attempt' = [attempt EXCEPT ![fired + 1] = "running"] /\ fired' = fired + 1
  /\ UNCHANGED <<hedge, outcome, results, collected, winner>>

\* Every step is of one of these kinds, or an attempt's own.
LEMMA HedgeKinds ==
  ASSUME Dispatched, Hedge!Next
  PROVE  \/ Waits \/ Launches \/ Hedge!Receive
         \/ \E i \in Hedge!Attempts : Hedge!Ends(i) \/ Hedge!Send(i) \/ Hedge!GiveUpSend(i)
<1>1. CASE Hedge!Begins
  <2>1. CASE Hedge!Refuse
    BY <2>1 DEF Hedge!Refuse, Hedge!Return, Waits
  <2>2. CASE Hedge!FirePrimary
    <3>1. fired = 0 /\ fired < hedge.max
            /\ fired + 1 = 1 BY <2>2 DEF Hedge!FirePrimary, Dispatched
    <3> QED BY <2>2, <3>1 DEF Hedge!FirePrimary, Hedge!Fire, Launches
  <2> QED BY <1>1, <2>1, <2>2 DEF Hedge!Begins
<1>2. CASE Hedge!Hedges
  BY <1>2 DEF Hedge!Hedges, Hedge!FireHedge, Hedge!OnHedgePanics, Hedge!IgnoreTimer, Hedge!Fire,
     Hedge!Return, Launches, Waits
<1>3. CASE Hedge!SeeCancelled \/ Hedge!TimerFires \/ Hedge!CallerCancels
  BY <1>3 DEF Hedge!SeeCancelled, Hedge!TimerFires, Hedge!CallerCancels, Hedge!Return, Waits
<1> QED BY <1>1, <1>2, <1>3 DEF Hedge!Next, Hedge!Reports

-----------------------------------------------------------------------------
(* The invariant is kept.                                                   *)

\* Attempts stay in order.
LEMMA DispatchedKept == MaxOverall \in Nat /\ Dispatched /\ Hedge!Next => Dispatched'
<1> SUFFICES ASSUME MaxOverall \in Nat, Dispatched, Hedge!Next PROVE Dispatched'
  OBVIOUS
<1>1. CASE Waits
  BY <1>1 DEF Waits, Dispatched, Hedge!Attempts
<1>2. CASE Launches
  <2>1. fired + 1 \in Hedge!Attempts /\ fired + 1 \in 0..hedge.max
    BY <1>2 DEF Launches, Dispatched, Hedge!Attempts
  <2> QED BY <1>2, <2>1 DEF Launches, Dispatched, Hedge!Attempts
<1>3. CASE Hedge!Receive
  <2>1. /\ results # <<>> /\ results' = Tail(results) /\ collected' = collected + 1
        /\ hpc = "select" /\ UNCHANGED <<hedge, attempt, outcome, fired>>
    BY <1>3 DEF Hedge!Receive
  <2>2. hpc' = "returned" \/ (hpc' = hpc /\ winner' = winner)
    <3>1. Head(results) \in {"ok", "error"} BY <2>1 DEF Dispatched
    <3> QED BY <1>3, <3>1 DEF Hedge!Receive, Hedge!Return
  <2>3. results' \in Seq({"ok", "error"}) BY <2>1 DEF Dispatched
  <2> QED BY <2>1, <2>2, <2>3 DEF Dispatched
<1>4. ASSUME NEW i \in Hedge!Attempts, Hedge!Ends(i) PROVE Dispatched'
  BY <1>4 DEF Hedge!Ends, Hedge!FnReturns, Dispatched
<1>5. ASSUME NEW i \in Hedge!Attempts, Hedge!Send(i) PROVE Dispatched'
  <2>1. outcome[i] \in {"ok", "error"} BY <1>5 DEF Hedge!Send, Dispatched
  <2>2. results' \in Seq({"ok", "error"}) BY <1>5, <2>1 DEF Hedge!Send, Dispatched
  <2> QED BY <1>5, <2>2 DEF Hedge!Send, Dispatched
<1>6. ASSUME NEW i \in Hedge!Attempts, Hedge!GiveUpSend(i) PROVE Dispatched'
  BY <1>6 DEF Hedge!GiveUpSend, Dispatched
<1> QED BY HedgeKinds, <1>1, <1>2, <1>3, <1>4, <1>5, <1>6

\* A report enters the channel from an attempt that has not reported, and leaves it in order.
LEMMA TracedKept == MaxOverall \in Nat /\ HedgeInv /\ Hedge!Next => \E f : Traced(f)'
<1> SUFFICES ASSUME MaxOverall \in Nat, HedgeInv, Hedge!Next PROVE \E f : Traced(f)'
  OBVIOUS
<1>d. Dispatched BY DEF HedgeInv
<1>f. PICK f : Traced(f) BY DEF HedgeInv
<1>t. /\ fired \in Nat /\ collected \in Nat /\ Len(results) \in Nat
      /\ 1..fired \subseteq Hedge!Attempts
      /\ Reported \in Nat
  BY <1>d DEF Dispatched, Reported, Hedge!Attempts
<1>j. \A j \in 1..Reported : f[j] \in 1..fired BY <1>f DEF Traced
<1>1. CASE Waits
  <2>1. Traced(f)' BY <1>1, <1>f, <1>d DEF Waits, Traced, Reported, Dispatched
  <2> QED BY <2>1
<1>2. CASE Launches
  <2>1. \A i \in 1..fired : attempt'[i] = attempt[i]
    BY <1>2, <1>d, <1>t DEF Launches, Dispatched
  <2>2. Traced(f)'
    <3>0. Reported' = Reported /\ fired' = fired + 1 BY <1>2 DEF Launches, Reported
    <3>1. (f \in [1..Reported -> 1..fired])' BY <1>f, <1>t, <3>0 DEF Traced
    <3>2. \A j \in 1..Reported : attempt'[f[j]] = "ended" BY <1>f, <1>j, <2>1 DEF Traced
    <3>3. hpc' = "select" => \A j \in 1..collected : outcome[f[j]] = "error"
      <4>1. CASE hpc = "select" BY <1>f, <4>1 DEF Traced
      <4>2. CASE hpc = "start"
        <5>1. 1..fired = {} BY <1>d, <4>2 DEF Dispatched
        <5>2. \A j \in 1..collected : j \in 1..Reported BY <1>t DEF Reported
        <5> QED BY <1>j, <5>1, <5>2
      <4> QED BY <1>2, <4>1, <4>2 DEF Launches
    <3> QED BY <1>2, <1>f, <3>0, <3>1, <3>2, <3>3 DEF Traced, Launches
  <2> QED BY <2>2
<1>3. CASE Hedge!Receive
  <2>1. /\ results # <<>> /\ results' = Tail(results) /\ collected' = collected + 1
        /\ hpc = "select" /\ UNCHANGED <<hedge, attempt, outcome, fired>>
    BY <1>3 DEF Hedge!Receive
  <2>2. /\ Len(results') = Len(results) - 1 /\ Len(results) >= 1 /\ Head(results) = results[1]
        /\ \A j \in 1..Len(results') : results'[j] = results[j + 1]
    BY <1>d, <2>1 DEF Dispatched
  <2>3. Reported' = Reported BY <1>t, <2>1, <2>2 DEF Reported
  <2>4. \A j \in 1..Len(results') : outcome[f[collected' + j]] = results'[j]
    <3>1. SUFFICES ASSUME NEW j \in 1..Len(results')
                   PROVE  outcome[f[collected' + j]] = results'[j]
      OBVIOUS
    <3>2. j + 1 \in 1..Len(results) /\ collected' + j = collected + (j + 1)
      BY <1>t, <2>1, <2>2
    <3> QED BY <1>f, <2>2, <3>2 DEF Traced
  <2>5. hpc' = "select" => \A j \in 1..collected' : outcome[f[j]] = "error"
    <3>1. SUFFICES ASSUME hpc' = "select", NEW j \in 1..collected' PROVE outcome[f[j]] = "error"
      OBVIOUS
    <3>2. CASE j \in 1..collected
      BY <1>f, <2>1, <3>2 DEF Traced
    <3>3. CASE j = collected + 1
      <4>1. 1 \in 1..Len(results) BY <1>t, <2>2
      <4>2. outcome[f[collected + 1]] = Head(results) BY <1>f, <2>2, <4>1 DEF Traced
      <4>3. Head(results) # "ok" BY <1>3, <3>1 DEF Hedge!Receive, Hedge!Return
      <4>4. Head(results) \in {"ok", "error"} BY <1>d, <2>1 DEF Dispatched
      <4> QED BY <3>3, <4>2, <4>3, <4>4
    <3> QED BY <1>t, <2>1, <3>2, <3>3
  <2>6. Traced(f)'
    BY <1>f, <2>1, <2>3, <2>4, <2>5 DEF Traced
  <2> QED BY <2>6
<1>4. ASSUME NEW i \in Hedge!Attempts, Hedge!Ends(i) PROVE \E g : Traced(g)'
  <2>1. PICK r \in {"ok", "error"} : Hedge!FnReturns(i, r) BY <1>4 DEF Hedge!Ends
  <2>2. \A k \in Hedge!Attempts : attempt[k] = "ended" => attempt'[k] = "ended"
          /\ outcome'[k] = outcome[k]
    BY <1>d, <2>1 DEF Hedge!FnReturns, Dispatched
  <2>3. \A j \in 1..Reported : f[j] \in Hedge!Attempts /\ attempt[f[j]] = "ended"
    BY <1>f, <1>j, <1>t DEF Traced
  <2>4. /\ \A j \in 1..Len(results) : collected + j \in 1..Reported
        /\ \A j \in 1..collected : j \in 1..Reported
    BY <1>t DEF Reported
  <2>5. Traced(f)'
    <3>1. UNCHANGED <<hpc, results, fired, collected, Reported>> BY <2>1 DEF Hedge!FnReturns,
          Reported
    <3> QED BY <1>f, <2>2, <2>3, <2>4, <3>1 DEF Traced
  <2> QED BY <2>5
<1>5. ASSUME NEW i \in Hedge!Attempts, Hedge!Send(i) PROVE \E g : Traced(g)'
  <2>1. /\ attempt[i] = "sending" /\ attempt' = [attempt EXCEPT ![i] = "ended"]
        /\ results' = Append(results, outcome[i]) /\ UNCHANGED <<hpc, outcome, fired, collected>>
    BY <1>5 DEF Hedge!Send
  <2>2. i \in 1..fired BY <1>d, <1>t, <2>1 DEF Dispatched, Hedge!Attempts
  <2>3. \A k \in Hedge!Attempts : attempt'[k] = IF k = i THEN "ended" ELSE attempt[k]
    BY <1>d, <2>1 DEF Dispatched
  <2>4. /\ Len(results') = Len(results) + 1 /\ results'[Len(results) + 1] = outcome[i]
        /\ \A j \in 1..Len(results) : results'[j] = results[j]
    BY <1>d, <2>1 DEF Dispatched
  <2>5. Reported' = Reported + 1 BY <1>t, <2>1, <2>4 DEF Reported
  <2>g. PICK g : g = [j \in 1..(Reported + 1) |-> IF j = Reported + 1 THEN i ELSE f[j]]
    OBVIOUS
  <2>6. /\ \A j \in 1..Reported : j \in 1..(Reported + 1) /\ g[j] = f[j]
        /\ Reported + 1 \in 1..(Reported + 1) /\ g[Reported + 1] = i
        /\ \A j \in 1..(Reported + 1) : j \in 1..Reported \/ j = Reported + 1
    BY <1>t, <2>g
  <2>7. g \in [1..(Reported + 1) -> 1..fired] BY <1>j, <2>2, <2>6, <2>g
  <2>8. \A j \in 1..Reported : attempt[f[j]] = "ended" /\ f[j] # i /\ f[j] \in Hedge!Attempts
    BY <1>f, <1>j, <1>t, <2>1 DEF Traced
  <2>9. \A j, k \in 1..(Reported + 1) : g[j] = g[k] => j = k
    BY <1>f, <2>6, <2>8 DEF Traced
  <2>10. \A j \in 1..(Reported + 1) : attempt'[g[j]] = "ended"
    BY <2>3, <2>6, <2>8
  <2>11. \A j \in 1..Len(results') : outcome[g[collected + j]] = results'[j]
    <3>1. SUFFICES ASSUME NEW j \in 1..Len(results')
                   PROVE  outcome[g[collected + j]] = results'[j]
      OBVIOUS
    <3>2. CASE j \in 1..Len(results)
      <4>1. collected + j \in 1..Reported BY <1>t, <3>2 DEF Reported
      <4> QED BY <1>f, <2>4, <2>6, <3>2, <4>1 DEF Traced
    <3>3. CASE j = Len(results) + 1
      <4>1. collected + j = Reported + 1 BY <1>t, <3>3 DEF Reported
      <4> QED BY <2>4, <2>6, <3>3, <4>1
    <3> QED BY <1>t, <2>4, <3>2, <3>3
  <2>12. hpc = "select" => \A j \in 1..collected : outcome[g[j]] = "error"
    <3>1. \A j \in 1..collected : j \in 1..Reported BY <1>t DEF Reported
    <3> QED BY <1>f, <2>6, <3>1 DEF Traced
  <2>13. Traced(g)'
    BY <2>1, <2>5, <2>7, <2>9, <2>10, <2>11, <2>12 DEF Traced
  <2> QED BY <2>13
<1>6. ASSUME NEW i \in Hedge!Attempts, Hedge!GiveUpSend(i) PROVE \E g : Traced(g)'
  <2>1. \A k \in Hedge!Attempts : attempt[k] = "ended" => attempt'[k] = "ended"
    BY <1>6, <1>d DEF Hedge!GiveUpSend, Dispatched
  <2>2. \A j \in 1..Reported : f[j] \in Hedge!Attempts
    BY <1>j, <1>t
  <2>3. Traced(f)'
    <3>1. UNCHANGED <<hpc, outcome, results, fired, collected, Reported>>
      BY <1>6 DEF Hedge!GiveUpSend, Reported
    <3> QED BY <1>f, <2>1, <2>2, <3>1 DEF Traced
  <2> QED BY <2>3
<1> QED BY <1>d, HedgeKinds, <1>1, <1>2, <1>3, <1>4, <1>5, <1>6

\* The call fails when it has collected as many errors as it has fired attempts.  The errors
\* came from different attempts, so by counting there is none that did not fail.
LEMMA SettledKept == MaxOverall \in Nat /\ HedgeInv /\ Hedge!Next => Settled'
<1> SUFFICES ASSUME MaxOverall \in Nat, HedgeInv, Hedge!Next PROVE Settled'
  OBVIOUS
<1>d. Dispatched /\ Settled BY DEF HedgeInv
<1>1. CASE Waits
  BY <1>1, <1>d DEF Waits, Settled
<1>2. CASE Launches
  BY <1>2, <1>d DEF Launches, Settled, Dispatched
<1>3. CASE Hedge!Receive
  <2>1. /\ results # <<>> /\ hpc = "select" /\ UNCHANGED <<hedge, attempt, outcome, fired>>
    BY <1>3 DEF Hedge!Receive
  <2>2. SUFFICES ASSUME winner' = "error" PROVE Settled'
    BY DEF Settled
  <2>3. winner = "none" BY <1>d, <2>1 DEF Dispatched
  <2>4. Head(results) \in {"ok", "error"} BY <1>d, <2>1 DEF Dispatched
  <2>5. Head(results) = "error" /\ Hedge!AllFailed
    BY <1>3, <2>2, <2>3, <2>4 DEF Hedge!Receive, Hedge!Return
  <2>6. PICK f : Traced(f) BY DEF HedgeInv
  <2>7. /\ fired \in Nat /\ collected \in Nat /\ Len(results) \in Nat /\ Len(results) >= 1
        /\ collected + 1 = fired /\ Head(results) = results[1] /\ 1 \in 1..Len(results)
    BY <1>d, <2>1, <2>5 DEF Dispatched, Hedge!AllFailed
  <2>8. 1..fired \subseteq 1..Reported BY <2>7 DEF Reported
  <2>g. PICK g : g = [j \in 1..fired |-> f[j]] OBVIOUS
  <2>9. \A j \in 1..fired : g[j] = f[j] /\ g[j] \in 1..fired
    BY <2>6, <2>8, <2>g DEF Traced
  <2>10. g \in Injection(1..fired, 1..fired)
    <3>1. g \in [1..fired -> 1..fired] BY <2>9, <2>g
    <3>2. \A a, b \in 1..fired : g[a] = g[b] => a = b BY <2>6, <2>8, <2>9 DEF Traced
    <3>3. DOMAIN g = 1..fired BY <2>g
    <3> QED BY <3>1, <3>2, <3>3 DEF Injection, IsInjective
  <2>11. g \in Surjection(1..fired, 1..fired)
    <3>1. IsFiniteSet(1..fired) BY <2>7, FS_Interval
    <3> QED BY <2>10, <3>1, FS_Injection
  <2>12. \A j \in 1..fired : attempt[f[j]] = "ended" /\ outcome[f[j]] = "error"
    <3>1. SUFFICES ASSUME NEW j \in 1..fired
                   PROVE  attempt[f[j]] = "ended" /\ outcome[f[j]] = "error"
      OBVIOUS
    <3>2. attempt[f[j]] = "ended" BY <2>6, <2>8 DEF Traced
    <3>3. CASE j \in 1..collected
      BY <2>1, <2>6, <3>2, <3>3 DEF Traced
    <3>4. CASE j = collected + 1
      BY <2>5, <2>6, <2>7, <3>2, <3>4 DEF Traced
    <3> QED BY <2>7, <3>3, <3>4
  <2>13. \A i \in 1..fired : \E j \in 1..fired : g[j] = i
    BY <2>11 DEF Surjection
  <2>14. \A i \in 1..fired : attempt[i] = "ended" /\ outcome[i] = "error"
    BY <2>9, <2>12, <2>13
  <2> QED BY <2>1, <2>5, <2>14 DEF Settled, Hedge!AllFailed
<1>4. ASSUME NEW i \in Hedge!Attempts,
             Hedge!Ends(i) \/ Hedge!Send(i) \/ Hedge!GiveUpSend(i) PROVE Settled'
  <2>1. UNCHANGED <<hedge, fired, winner>> /\ attempt[i] # "ended"
    BY <1>4 DEF Hedge!Ends, Hedge!FnReturns, Hedge!Send, Hedge!GiveUpSend
  <2>2. \A k \in Hedge!Attempts : attempt[k] = "ended" => attempt'[k] = "ended"
          /\ outcome'[k] = outcome[k]
    BY <1>4, <1>d DEF Hedge!Ends, Hedge!FnReturns, Hedge!Send, Hedge!GiveUpSend, Dispatched
  <2>3. 1..fired \subseteq Hedge!Attempts BY <1>d DEF Dispatched, Hedge!Attempts
  <2> QED BY <1>d, <2>1, <2>2, <2>3 DEF Settled
<1> QED BY <1>d, HedgeKinds, <1>1, <1>2, <1>3, <1>4

\* A call begins with nothing fired, under a repaired configuration.
LEMMA HedgeInit == MaxOverall \in Nat /\ RawAttempts \subseteq Int /\ Hedge!Init => HedgeInv
<1> SUFFICES ASSUME MaxOverall \in Nat, RawAttempts \subseteq Int, Hedge!Init PROVE HedgeInv
  OBVIOUS
<1>1. hedge.kind \in {"hedge", "llm"} /\ hedge.max \in 1..MaxOverall
  <2>1. hedge \in Hedge!HedgeConfigs /\ hedge.max <= MaxOverall BY DEF Hedge!Init
  <2>2. ASSUME NEW raw \in RawAttempts, hedge = [kind |-> "hedge", max |-> Hedge!MaxAttempts(raw)]
        PROVE  hedge.kind = "hedge" /\ hedge.max \in Nat \ {0}
    BY <2>2 DEF Hedge!MaxAttempts, Hedge!DefaultMaxAttempts, Hedge!MaxAttemptsCap
  <2>3. ASSUME NEW raw \in RawAttempts \cap (1..MaxOverall), hedge = [kind |-> "llm", max |-> raw]
        PROVE  hedge.kind = "llm" /\ hedge.max \in Nat \ {0}
    BY <2>3
  <2> QED BY <2>1, <2>2, <2>3 DEF Hedge!HedgeConfigs
<1>2. Dispatched BY <1>1 DEF Hedge!Init, Dispatched
<1>3. Traced([j \in {} |-> 0])
  <2>1. Reported = 0 /\ fired = 0 /\ collected = 0 /\ Len(results) = 0 /\ hpc = "start"
    BY DEF Hedge!Init, Reported
  <2>2. 1..0 = {} OBVIOUS
  <2> QED BY <2>1, <2>2 DEF Traced
<1>4. Settled BY DEF Hedge!Init, Settled
<1> QED BY <1>2, <1>3, <1>4 DEF HedgeInv

\* FailsOnlyWhenAllFail: for every number of attempts, of both implementations, an error means
\* that every attempt fired has failed and, for Execute, that all MaxAttempts were fired,
\* however results, timer and cancellation interleave.
THEOREM FailuresAreComplete == Hedge!FairSpec => []FailsOnlyWhenAllFail
<1>1. Hedge!Init => HedgeInv BY HedgeInit, HedgeAssumption
<1>2. HedgeInv /\ [Hedge!Next]_Hedge!vars => HedgeInv'
  <2> SUFFICES ASSUME HedgeInv, [Hedge!Next]_Hedge!vars PROVE HedgeInv'
    OBVIOUS
  <2>1. CASE Hedge!Next
    BY <2>1, HedgeAssumption, DispatchedKept, TracedKept, SettledKept DEF HedgeInv
  <2>2. CASE UNCHANGED Hedge!vars
    <3>1. Dispatched' /\ Settled' BY <2>2 DEF Hedge!vars, HedgeInv, Dispatched, Settled
    <3>2. PICK f : Traced(f) BY DEF HedgeInv
    <3>3. Traced(f)' BY <2>2, <3>2 DEF Hedge!vars, Traced, Reported
    <3> QED BY <3>1, <3>3 DEF HedgeInv
  <2> QED BY <2>1, <2>2
<1>3. HedgeInv => FailsOnlyWhenAllFail
  BY DEF HedgeInv, Settled, FailsOnlyWhenAllFail, Hedge!FailsOnlyWhenAllFail
<1> QED BY <1>1, <1>2, <1>3, PTL DEF Hedge!FairSpec
==============================================================================
