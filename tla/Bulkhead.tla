------------------------------- MODULE Bulkhead -------------------------------
(***************************************************************************)
(* bulkhead/bulkhead.go: the semaphore, the bounded queue in front of it,   *)
(* the worker goroutine that moves queued requests to a slot, and Close.    *)
(* Every request is one call of Execute.  A select is one step that takes   *)
(* any of its ready cases, and its default only when none is ready.  A      *)
(* queued function that panics ends the process and is not modelled.        *)
(***************************************************************************)
EXTENDS Integers, FiniteSets

CONSTANTS
  Requests,          \* calls of Execute
  CfgMaxConcurrent, CfgMaxQueue, CfgQueueTimeout, \* the Config given to New
  NoRequest          \* the worker holds no request

ASSUME RequestsAssumption == IsFiniteSet(Requests) /\ NoRequest \notin Requests
ASSUME ConfigAssumption ==
  CfgMaxConcurrent \in Int /\ CfgMaxQueue \in Int /\ CfgQueueTimeout \in Int

\* setDefaults.
MaxConcurrent == IF CfgMaxConcurrent <= 0 THEN 10 ELSE CfgMaxConcurrent
MaxQueue == IF CfgMaxQueue < 0 THEN 0 ELSE CfgMaxQueue
HasQueueTimeout == CfgQueueTimeout > 0

VARIABLES
  sem,       \* slots taken in the sem channel
  queueSem,  \* slots taken in the queueSem channel
  pc,        \* where each Execute is
  ret,       \* what each Execute returned
  task,      \* the queued function: where it is
  result,    \* the request's resultCh, of capacity 1
  cancelled, \* requests whose ctx is done
  timedOut,  \* requests whose queueCtx deadline has passed
  worker,    \* "none", "recv", "held", "drain" or "exited"
  held,      \* the request the worker has received
  done       \* the done channel is closed

vars == <<sem, queueSem, pc, ret, task, result, cancelled, timedOut, worker, held, done>>
envVars == <<cancelled, timedOut, done>>
workVars == <<worker, held>>

Init ==
  /\ sem = 0 /\ queueSem = 0
  /\ pc = [r \in Requests |-> "idle"]
  /\ ret = [r \in Requests |-> "none"]
  /\ task = [r \in Requests |-> "none"]
  /\ result = [r \in Requests |-> "none"]
  /\ cancelled = {} /\ timedOut = {}
  /\ worker = IF MaxQueue > 0 THEN "recv" ELSE "none"
  /\ held = NoRequest
  /\ done = FALSE

Goto(r, where) == pc' = [pc EXCEPT ![r] = where]
Return(r, what) == Goto(r, "returned") /\ ret' = [ret EXCEPT ![r] = what]
Move(r, where) == task' = [task EXCEPT ![r] = where]
Send(r, what) == result' = [result EXCEPT ![r] = what]

\* queueCtx.Done() and queueCtx.Err().
QueueCtxDone(r) == r \in cancelled \cup timedOut
QueueCtxErr(r) == IF r \in timedOut THEN "timeout" ELSE "cancelled"

-----------------------------------------------------------------------------
(* Execute                                                                  *)

Begin(r) ==
  /\ pc[r] = "idle"
  /\ IF done THEN Return(r, "full") ELSE Goto(r, "trySem") /\ UNCHANGED ret
  /\ UNCHANGED <<sem, queueSem, task, result, envVars, workVars>>

AcquireDirect(r) ==
  /\ pc[r] = "trySem" /\ sem < MaxConcurrent
  /\ sem' = sem + 1
  /\ Goto(r, "direct")
  /\ UNCHANGED <<queueSem, ret, task, result, envVars, workVars>>

GiveUpDirect(r) ==
  /\ pc[r] = "trySem"
  /\ \/ r \in cancelled /\ Return(r, "cancelled")
     \/ done /\ Return(r, "full")
  /\ UNCHANGED <<sem, queueSem, task, result, envVars, workVars>>

\* default: enqueue, which rejects at once when there is no queue.
SlotsTaken(r) ==
  /\ pc[r] = "trySem" /\ sem = MaxConcurrent /\ r \notin cancelled /\ ~done
  /\ IF MaxQueue = 0 THEN Return(r, "full") ELSE Goto(r, "enqueue") /\ UNCHANGED ret
  /\ UNCHANGED <<sem, queueSem, task, result, envVars, workVars>>

\* execute: fn returns or panics; the deferred receive frees the slot.
DirectReturns(r) ==
  /\ pc[r] = "direct"
  /\ sem' = sem - 1
  /\ Return(r, "done")
  /\ UNCHANGED <<queueSem, task, result, envVars, workVars>>

-----------------------------------------------------------------------------
(* enqueue                                                                  *)

TakeQueueSlot(r) ==
  /\ pc[r] = "enqueue" /\ queueSem < MaxQueue
  /\ queueSem' = queueSem + 1
  /\ Goto(r, "send")
  /\ UNCHANGED <<sem, ret, task, result, envVars, workVars>>

GiveUpEnqueue(r) ==
  /\ pc[r] = "enqueue"
  /\ \/ QueueCtxDone(r) /\ Return(r, QueueCtxErr(r))
     \/ done /\ Return(r, "full")
  /\ UNCHANGED <<sem, queueSem, task, result, envVars, workVars>>

QueueFull(r) ==
  /\ pc[r] = "enqueue" /\ queueSem = MaxQueue /\ ~QueueCtxDone(r) /\ ~done
  /\ Return(r, "full")
  /\ UNCHANGED <<sem, queueSem, task, result, envVars, workVars>>

\* Slip: the queue slot is not given back on this path.
GiveUpSendLeaking(r) ==
  /\ pc[r] = "send"
  /\ \/ QueueCtxDone(r) /\ Return(r, QueueCtxErr(r))
     \/ done /\ Return(r, "full")
  /\ UNCHANGED <<sem, queueSem, task, result, envVars, workVars>>

\* Leaving enqueue runs the deferred receive from queueSem.
GiveUpSend(r) ==
  /\ pc[r] = "send"
  /\ \/ QueueCtxDone(r) /\ Return(r, QueueCtxErr(r))
     \/ done /\ Return(r, "full")
  /\ queueSem' = queueSem - 1
  /\ UNCHANGED <<sem, task, result, envVars, workVars>>

ReceiveResult(r) ==
  /\ pc[r] = "wait" /\ result[r] # "none"
  /\ Return(r, result[r])
  /\ queueSem' = queueSem - 1
  /\ UNCHANGED <<sem, task, result, envVars, workVars>>

\* Slip: a timeout in the queue is reported as a full bulkhead.
GiveUpWaitAsFull(r) ==
  /\ pc[r] = "wait"
  /\ QueueCtxDone(r) \/ done
  /\ Return(r, "full")
  /\ queueSem' = queueSem - 1
  /\ UNCHANGED <<sem, task, result, envVars, workVars>>

GiveUpWait(r) ==
  /\ pc[r] = "wait"
  /\ \/ QueueCtxDone(r) /\ Return(r, QueueCtxErr(r))
     \/ done /\ Return(r, "full")
  /\ queueSem' = queueSem - 1
  /\ UNCHANGED <<sem, task, result, envVars, workVars>>

-----------------------------------------------------------------------------
(* worker, the goroutines it starts, and drainQueue                         *)

\* The unbuffered send of enqueue meets the receive of the worker.
HandOver(r) ==
  /\ pc[r] = "send" /\ worker = "recv"
  /\ Goto(r, "wait")
  /\ Move(r, "held")
  /\ worker' = "held" /\ held' = r
  /\ UNCHANGED <<sem, queueSem, ret, result, envVars>>

\* Slip: the worker starts the function without waiting for a slot.
WorkerStartsUnbounded ==
  /\ worker = "held"
  /\ sem' = sem + 1
  /\ Move(held, "running")
  /\ worker' = "recv" /\ held' = NoRequest
  /\ UNCHANGED <<queueSem, pc, ret, result, envVars>>

WorkerStarts ==
  /\ worker = "held" /\ sem < MaxConcurrent
  /\ sem' = sem + 1
  /\ Move(held, "running")
  /\ worker' = "recv" /\ held' = NoRequest
  /\ UNCHANGED <<queueSem, pc, ret, result, envVars>>

WorkerSkipsCancelled ==
  /\ worker = "held" /\ held \in cancelled
  /\ Send(held, "cancelled")
  /\ Move(held, "dropped")
  /\ worker' = "recv" /\ held' = NoRequest
  /\ UNCHANGED <<sem, queueSem, pc, ret, envVars>>

\* Slip: done is looked at only while waiting for a slot.
WorkerShutsDownHoldingOnly ==
  /\ done /\ worker = "held"
  /\ Send(held, "full") /\ Move(held, "dropped")
  /\ worker' = "drain" /\ held' = NoRequest
  /\ UNCHANGED <<sem, queueSem, pc, ret, envVars>>

WorkerShutsDown ==
  /\ done
  /\ \/ /\ worker = "held"
        /\ Send(held, "full") /\ Move(held, "dropped")
     \/ /\ worker = "recv"
        /\ UNCHANGED <<result, task>>
  /\ worker' = "drain" /\ held' = NoRequest
  /\ UNCHANGED <<sem, queueSem, pc, ret, envVars>>

DrainOne(r) ==
  /\ worker = "drain" /\ pc[r] = "send"
  /\ Goto(r, "wait")
  /\ Send(r, "full") /\ Move(r, "dropped")
  /\ UNCHANGED <<sem, queueSem, ret, envVars, workVars>>

DrainEnds ==
  /\ worker = "drain"
  /\ worker' = "exited"
  /\ UNCHANGED <<sem, queueSem, pc, ret, task, result, envVars, held>>

\* r.fn returns and its result is sent; then the deferred receive runs.
TaskSends(r) ==
  /\ task[r] = "running"
  /\ Send(r, "done")
  /\ Move(r, "sent")
  /\ UNCHANGED <<sem, queueSem, pc, ret, envVars, workVars>>

TaskReleases(r) ==
  /\ task[r] = "sent"
  /\ sem' = sem - 1
  /\ Move(r, "finished")
  /\ UNCHANGED <<queueSem, pc, ret, result, envVars, workVars>>

-----------------------------------------------------------------------------
(* Close, and the contexts of the callers                                   *)

Close ==
  /\ ~done /\ done' = TRUE
  /\ UNCHANGED <<sem, queueSem, pc, ret, task, result, cancelled, timedOut, workVars>>

Cancel(r) ==
  /\ r \notin cancelled /\ cancelled' = cancelled \cup {r}
  /\ UNCHANGED <<sem, queueSem, pc, ret, task, result, timedOut, done, workVars>>

\* queueCtx exists from the beginning of enqueue until it returns.
QueueTimer(r) ==
  /\ HasQueueTimeout /\ pc[r] \in {"enqueue", "send", "wait"}
  /\ ~QueueCtxDone(r) /\ timedOut' = timedOut \cup {r}
  /\ UNCHANGED <<sem, queueSem, pc, ret, task, result, cancelled, done, workVars>>

-----------------------------------------------------------------------------

CallerStep(r) ==
  \/ Begin(r) \/ AcquireDirect(r) \/ GiveUpDirect(r) \/ SlotsTaken(r) \/ DirectReturns(r)
  \/ TakeQueueSlot(r) \/ GiveUpEnqueue(r) \/ QueueFull(r)
  \/ GiveUpSend(r) \/ ReceiveResult(r) \/ GiveUpWait(r)

WorkerStep == \/ WorkerStarts \/ WorkerSkipsCancelled \/ WorkerShutsDown \/ DrainEnds
              \/ \E r \in Requests : HandOver(r) \/ DrainOne(r)

Next == \/ \E r \in Requests : \/ CallerStep(r) \/ TaskSends(r) \/ TaskReleases(r)
                               \/ Cancel(r) \/ QueueTimer(r)
        \/ WorkerStep
        \/ Close

Spec == Init /\ [][Next]_vars

\* Goroutines are scheduled and protected functions return.  A worker blocked on
\* sem is handed the next freed slot by the channel, and a blocked sender of the
\* queue meets the next receive (SF).  Nobody is assumed to cancel, to time out
\* or to call Close.
Fairness ==
  /\ \A r \in Requests : /\ WF_vars(CallerStep(r))
                         /\ SF_vars(HandOver(r))
                         /\ WF_vars(TaskSends(r)) /\ WF_vars(TaskReleases(r))
  /\ SF_vars(WorkerStarts)
  /\ WF_vars(WorkerSkipsCancelled \/ WorkerShutsDown \/ DrainEnds)

FairSpec == Spec /\ Fairness

-----------------------------------------------------------------------------
(* Properties                                                               *)

Direct == {r \in Requests : pc[r] = "direct"}
Spawned == {r \in Requests : task[r] \in {"running", "sent"}}
InQueue == {r \in Requests : pc[r] \in {"send", "wait"}}

\* The semaphores never go negative and every request, its task and the worker are
\* at one of the places that Execute, enqueue and worker have (bulkhead.go:76-96).
TypeOK ==
  /\ sem \in Nat /\ queueSem \in Nat
  /\ pc \in [Requests -> {"idle", "trySem", "direct", "enqueue", "send", "wait", "returned"}]
  /\ ret \in [Requests -> {"none", "done", "full", "cancelled", "timeout"}]
  /\ task \in [Requests -> {"none", "held", "running", "sent", "finished", "dropped"}]
  /\ result \in [Requests -> {"none", "done", "full", "cancelled"}]
  /\ cancelled \subseteq Requests /\ timedOut \subseteq Requests
  /\ worker \in {"none", "recv", "held", "drain", "exited"}
  /\ held \in Requests \cup {NoRequest}
  /\ done \in BOOLEAN

\* Every slot that is taken is owned by a call that will give it back, on every
\* way out of Execute, enqueue and the worker (the deferred receives at
\* bulkhead.go:152-154, 191-193 and 246-248), and no more are taken than exist.
SlotsAccounted ==
  /\ sem = Cardinality(Direct) + Cardinality(Spawned) /\ sem <= MaxConcurrent
  /\ queueSem = Cardinality(InQueue) /\ queueSem <= MaxQueue

\* The bulkhead is a concurrency limiter: every request's function runs at most
\* once and at most MaxConcurrent run together, although a request may run in
\* its caller or in a goroutine of the worker that outlives the caller.
Limiter == INSTANCE ConcurrencyLimit
             WITH Work <- Requests, Limit <- MaxConcurrent,
                  running <- Direct \cup Spawned,
                  finished <- {r \in Requests :
                                 \/ task[r] = "finished"
                                 \/ pc[r] = "returned" /\ ret[r] = "done" /\ task[r] = "none"}
LimitsConcurrency == Limiter!Spec

\* ErrBulkheadFull may be retried: while the bulkhead is open, a caller that gets
\* it has a function that never reached the worker, so it has not run and will
\* not run behind the caller's back.  A wait that timed out is different: its
\* function may still run, which is why enqueue answers it with the context's
\* error (bulkhead.go:201-202).
RefusedNeverRuns ==
  \A r \in Requests : ret[r] = "full" /\ ~done => task[r] = "none"

\* Nobody is left on a channel: every Execute returns, whether it runs, is refused,
\* waits in the queue or is caught there by Close, and Close ends the worker, also
\* while it holds a request (bulkhead.go:195-210, 255-267).
NobodyIsLeft ==
  /\ \A r \in Requests : pc[r] # "idle" ~> pc[r] = "returned"
  /\ done /\ MaxQueue > 0 ~> worker = "exited"
=============================================================================
