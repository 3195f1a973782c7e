------------------------------ MODULE Scheduler ------------------------------
(***************************************************************************)
(* The life of a task inside one skedulr Scheduler (scheduler.go): Submit, *)
(* ScheduleOnce, the priority queue and dequeueLoop, the workers' runTask, *)
(* handleFailure and its retries through the timing wheel, Cancel, and     *)
(* Resubmit.  One action stands for one critical section of s.mu, or for   *)
(* one step taken outside it; everything else interleaves.                 *)
(*                                                                         *)
(* Storage is InMemoryStorage: every call but AddToHistory is a no-op, so  *)
(* tasks with and without a type name behave alike.  The wheel is seen     *)
(* through what Schedule and Cancel promise (module WheelContract).        *)
(***************************************************************************)
EXTENDS Integers, FiniteSets, Sequences

CONSTANTS
    Ids,            \* task ids; a client creates one task object for each
    Workers,        \* the workers of the pool
    Keys,           \* dedup keys (WithKey)
    Nil,            \* absent task, key or worker
    KeyOf,          \* KeyOf[i]: key of the task, Nil when it has none
    Prio,           \* Prio[i]: its priority
    MaxRetries,     \* MaxRetries[i]: WithMaxRetries, 0 when not set
    StrategyMax,    \* StrategyMax[i]: MaxAttempts of its strategy, 0 for none
    Timeouts,       \* ids whose job has a timeout
    Once,           \* ids created with ScheduleOnceTask, the others use Submit
    Unregistered,   \* ids of a type name missing from the registry
    Cancellable,    \* ids some client may pass to Cancel
    MaxQueueSize,   \* s.maxQueueSize
    MaxResubmits,   \* bound: Resubmit calls per id
    MaxGen          \* bound: retry objects per id

ASSUME SetsAssumption ==
    /\ Timeouts \subseteq Ids /\ Once \subseteq Ids
    /\ Unregistered \subseteq Ids /\ Cancellable \subseteq Ids
    /\ IsFiniteSet(Ids)

ASSUME FieldsAssumption ==
    /\ KeyOf \in [Ids -> Keys \union {Nil}]
    /\ Prio \in [Ids -> Int]
    /\ MaxRetries \in [Ids -> Nat]
    /\ StrategyMax \in [Ids -> Nat]

ASSUME BoundsAssumption ==
    MaxQueueSize \in Nat /\ MaxResubmits \in Nat /\ MaxGen \in Nat

\* A *task: the object the client made is generation 0 of its id, each
\* retryTask that handleFailure builds is the next generation.
Objs == Ids \X (0 .. MaxGen)

ASSUME NilAssumption == Nil \notin Keys /\ Nil \notin Workers /\ Nil \notin Objs

Id(o) == o[1]

\* handleFailure does not copy the key into the retryTask.
Key(o) == IF o[2] = 0 THEN KeyOf[Id(o)] ELSE Nil

\* Mutant: the t.key != "" guard is missing.
KeySetUnguarded(o) == {Key(o)}

\* Every use of a key is guarded by t.key != "".
KeySet(o) == {Key(o)} \ {Nil}

Status == {"Queued", "Running", "Succeeded", "Failed", "Cancelled", "Dead", "Retrying"}

VARIABLES
    tasks,       \* s.tasks: id -> tracked object or Nil
    activeKeys,  \* s.activeKeys
    queue,       \* s.queue: how often each object is in the heap
    status,      \* t.status of every object
    attempts,    \* t.attempts
    cancelFn,    \* t.cancel: the worker whose live context it cancels
    gen,         \* generations of each id created so far
    dq,          \* the object dequeueLoop holds, offered on the pool channel
    wpc,         \* where each worker is in worker() / runTask()
    wobj,        \* the object it is running
    ctx,         \* its context: live, canceled, or past its deadline
    done,        \* its done channel: what the job returned, if it has
    wheel,       \* the wheel's entry for each object
    cpc, cobj,   \* the Cancel(id) call in flight, and the object it finalizes
    history,     \* statuses AddToHistory recorded for each id
    deadCount,   \* s.deadCount
    outcome,     \* what Submit / ScheduleOnceTask last answered the client
    runs,        \* observer: executions of the job of each id
    resubmits    \* successful Resubmit calls of each id

table   == <<tasks, activeKeys>>
objects == <<status, attempts, cancelFn>>
worker  == <<wpc, wobj, ctx, done>>
cancel  == <<cpc, cobj>>
client  == <<outcome, runs, resubmits>>
vars == <<table, queue, objects, gen, dq, worker, wheel, cancel, history,
          deadCount, client>>

WorkerPC == {"idle", "got", "check", "hook", "run", "ok", "cancelled", "fail",
             "dead", "retry", "failed", "arm", "record", "tail"}

TypeOK ==
    /\ tasks \in [Ids -> Objs \union {Nil}]
    /\ activeKeys \subseteq Keys
    /\ queue \in [Objs -> Nat]
    /\ status \in [Objs -> Status]
    /\ attempts \in [Objs -> Nat]
    /\ cancelFn \in [Objs -> Workers \union {Nil}]
    /\ gen \in [Ids -> 0 .. MaxGen]
    /\ dq \in Objs \union {Nil}
    /\ wpc \in [Workers -> WorkerPC]
    /\ wobj \in [Workers -> Objs \union {Nil}]
    /\ \A w \in Workers : wpc[w] # "idle" => wobj[w] \in Objs
    /\ ctx \in [Workers -> {"live", "canceled", "deadline"}]
    /\ done \in [Workers -> {"none", "nil", "err"}]
    /\ wheel \in [Objs -> {"idle", "arming", "armed", "firing"}]
    /\ cpc \in [Ids -> {"idle", "unlink", "finalize"}]
    /\ cobj \in [Ids -> Objs \union {Nil}]
    /\ \A i \in Ids : cpc[i] = "finalize" => cobj[i] \in Objs
    /\ \A i \in Ids : tasks[i] # Nil => Id(tasks[i]) = i
    /\ history \in [Ids -> Seq(Status)]
    /\ deadCount \in Int
    /\ outcome \in [Ids -> {"new", "accepted", "rejected"}]
    /\ runs \in [Ids -> Nat]
    /\ resubmits \in [Ids -> 0 .. MaxResubmits]

Init ==
    /\ tasks = [i \in Ids |-> Nil]
    /\ activeKeys = {}
    /\ queue = [o \in Objs |-> 0]
    /\ status = [o \in Objs |-> "Queued"]
    /\ attempts = [o \in Objs |-> 0]
    /\ cancelFn = [o \in Objs |-> Nil]
    /\ gen = [i \in Ids |-> 0]
    /\ dq = Nil
    /\ wpc = [w \in Workers |-> "idle"]
    /\ wobj = [w \in Workers |-> Nil]
    /\ ctx = [w \in Workers |-> "live"]
    /\ done = [w \in Workers |-> "none"]
    /\ wheel = [o \in Objs |-> "idle"]
    /\ cpc = [i \in Ids |-> "idle"]
    /\ cobj = [i \in Ids |-> Nil]
    /\ history = [i \in Ids |-> <<>>]
    /\ deadCount = 0
    /\ outcome = [i \in Ids |-> "new"]
    /\ runs = [i \in Ids |-> 0]
    /\ resubmits = [i \in Ids |-> 0]

-----------------------------------------------------------------------------
(* Submission *)

Tracked == {i \in Ids : tasks[i] # Nil}

\* Mutant: off by one.
QueueFullLate == Cardinality(Tracked) > MaxQueueSize

QueueFull == Cardinality(Tracked) >= MaxQueueSize

\* Mutant: Submit overwrites the key instead of testing it.
KeyNeverBusy(o) == FALSE

KeyBusy(o) == KeySet(o) \intersect activeKeys # {}

Accepts(o) == ~QueueFull /\ ~KeyBusy(o) /\ Id(o) \notin Unregistered

\* The critical section of Submit: backpressure, then the key, then the
\* registry lookup, whose failure leaves the key taken.
SubmitTask(o) ==
    \/ /\ QueueFull \/ KeyBusy(o)
       /\ UNCHANGED <<tasks, activeKeys, queue, status>>
    \/ /\ ~QueueFull /\ ~KeyBusy(o) /\ Id(o) \in Unregistered
       /\ activeKeys' = activeKeys \union KeySet(o)
       /\ status' = [status EXCEPT ![o] = "Queued"]
       /\ UNCHANGED <<tasks, queue>>
    \/ /\ Accepts(o)
       /\ activeKeys' = activeKeys \union KeySet(o)
       /\ status' = [status EXCEPT ![o] = "Queued"]
       /\ tasks' = [tasks EXCEPT ![Id(o)] = o]
       /\ queue' = [queue EXCEPT ![o] = @ + 1]

\* A client submits its task, and may try again after an error.
Submit(i) ==
    /\ i \notin Once /\ outcome[i] # "accepted"
    /\ SubmitTask(<<i, 0>>)
    /\ outcome' = [outcome EXCEPT ![i] =
                     IF Accepts(<<i, 0>>) THEN "accepted" ELSE "rejected"]
    /\ UNCHANGED <<attempts, cancelFn, gen, dq, worker, wheel, cancel, history,
                   deadCount, runs, resubmits>>

\* ScheduleOnceTask tracks the task first, whatever the queue size ...
ScheduleOnceTask(i) ==
    /\ i \in Once /\ outcome[i] = "new"
    /\ tasks' = [tasks EXCEPT ![i] = <<i, 0>>]
    /\ wheel' = [wheel EXCEPT ![<<i, 0>>] = "arming"]
    /\ outcome' = [outcome EXCEPT ![i] = "accepted"]
    /\ UNCHANGED <<activeKeys, queue, objects, gen, dq, worker, cancel, history,
                   deadCount, runs, resubmits>>

\* Mutant: the new entry is marked cancelled instead of the old one.
WheelScheduleDropsNew(o) == wheel' = [wheel EXCEPT ![o] = "idle"]

\* wheel.Schedule replaces the entry armed for the same id, if there is one.
WheelSchedule(o) ==
    wheel' = [p \in Objs |->
                IF p = o THEN "armed"
                ELSE IF Id(p) = Id(o) /\ wheel[p] = "armed" THEN "idle"
                ELSE wheel[p]]

\* ... and arms the wheel after it has released the lock.
ArmOnce(o) ==
    /\ wheel[o] = "arming"
    /\ WheelSchedule(o)
    /\ UNCHANGED <<table, queue, objects, gen, dq, worker, cancel, history,
                   deadCount, client>>

\* Mutant: Resubmit also takes a task that waits for its backoff.
ResubmittableRetrying(o) == status[o] \in {"Dead", "Failed", "Retrying"}

Resubmittable(o) == status[o] \in {"Dead", "Failed"}

\* Mutant: Resubmit decrements whatever the status was.
LeavesDLQAlways(o) == 1

\* A Dead task leaves the dead letter queue.
LeavesDLQ(o) == IF status[o] = "Dead" THEN 1 ELSE 0

\* Resubmit takes neither the key nor the capacity check.
Resubmit(i) ==
    /\ resubmits[i] < MaxResubmits
    /\ tasks[i] # Nil
    /\ Resubmittable(tasks[i])
    /\ deadCount' = deadCount - LeavesDLQ(tasks[i])
    /\ attempts' = [attempts EXCEPT ![tasks[i]] = 0]
    /\ status' = [status EXCEPT ![tasks[i]] = "Queued"]
    /\ queue' = [queue EXCEPT ![tasks[i]] = @ + 1]
    /\ resubmits' = [resubmits EXCEPT ![i] = @ + 1]
    /\ UNCHANGED <<table, cancelFn, gen, dq, worker, wheel, cancel, history,
                   outcome, runs>>

-----------------------------------------------------------------------------
(* The timing wheel, as the scheduler sees it *)

\* The entry is due and uncancelled: its callback goroutine is launched.
WheelFire(o) ==
    /\ wheel[o] = "armed"
    /\ wheel' = [wheel EXCEPT ![o] = "firing"]
    /\ UNCHANGED <<table, queue, objects, gen, dq, worker, cancel, history,
                   deadCount, client>>

\* The callback submits the task and ignores (or logs) the error.
WheelCallback(o) ==
    /\ wheel[o] = "firing"
    /\ wheel' = [wheel EXCEPT ![o] = "idle"]
    /\ SubmitTask(o)
    /\ UNCHANGED <<attempts, cancelFn, gen, dq, worker, cancel, history,
                   deadCount, client>>

-----------------------------------------------------------------------------
(* dequeueLoop *)

\* Mutant: the heap is peeked, not popped.
PopPeeks(o) ==
    /\ dq = Nil /\ queue[o] > 0
    /\ dq' = o
    /\ UNCHANGED <<table, queue, objects, gen, worker, wheel, cancel, history,
                   deadCount, client>>

\* The heap yields an object of the highest priority.
Pop(o) ==
    /\ dq = Nil /\ queue[o] > 0
    /\ \A p \in Objs : queue[p] > 0 => Prio[Id(p)] <= Prio[Id(o)]
    /\ queue' = [queue EXCEPT ![o] = @ - 1]
    /\ dq' = o
    /\ UNCHANGED <<table, objects, gen, worker, wheel, cancel, history,
                   deadCount, client>>

\* dispatchTask: the unbuffered channel hands the object to an idle worker.
Dispatch(w) ==
    /\ dq # Nil /\ wpc[w] = "idle"
    /\ wobj' = [wobj EXCEPT ![w] = dq]
    /\ wpc' = [wpc EXCEPT ![w] = "got"]
    /\ dq' = Nil
    /\ UNCHANGED <<table, queue, objects, gen, ctx, done, wheel, cancel, history,
                   deadCount, client>>

-----------------------------------------------------------------------------
(* worker and runTask *)

WId(w) == Id(wobj[w])

\* "if trackTask, ok := s.tasks[t.id]; ok { trackTask.status = st }"
SetTracked(f, i, st) == [o \in Objs |-> IF o = tasks[i] THEN st ELSE f[o]]

\* runTask returns; its deferred cancel() makes t.cancel ineffective.
EndRun(w) ==
    /\ wpc' = [wpc EXCEPT ![w] = "idle"]
    /\ wobj' = [wobj EXCEPT ![w] = Nil]
    /\ ctx' = [ctx EXCEPT ![w] = "live"]
    /\ done' = [done EXCEPT ![w] = "none"]
    /\ cancelFn' = [o \in Objs |-> IF cancelFn[o] = w THEN Nil ELSE cancelFn[o]]

GoTo(w, pc) == wpc' = [wpc EXCEPT ![w] = pc]

\* worker(): whatever is tracked under the id becomes Running.
MarkRunning(w) ==
    /\ wpc[w] = "got"
    /\ status' = SetTracked(status, WId(w), "Running")
    /\ GoTo(w, "check")
    /\ UNCHANGED <<table, queue, attempts, cancelFn, gen, dq, wobj, ctx, done,
                   wheel, cancel, history, deadCount, client>>

\* The first look of runTask: a task no longer tracked is dropped, a
\* cancelled one is recorded and evicted.
CheckTracked(w) ==
    /\ wpc[w] = "check"
    /\ LET o == tasks[WId(w)]
       IN  \/ /\ o = Nil
              /\ EndRun(w)
              /\ UNCHANGED <<tasks, history>>
           \/ /\ o # Nil /\ status[o] = "Cancelled"
              /\ EndRun(w)
              /\ history' = [history EXCEPT ![WId(w)] = Append(@, status[o])]
              /\ tasks' = [tasks EXCEPT ![WId(w)] = Nil]
           \/ /\ o # Nil /\ status[o] # "Cancelled"
              /\ GoTo(w, "hook")
              /\ UNCHANGED <<tasks, history, wobj, ctx, done, cancelFn>>
    /\ UNCHANGED <<activeKeys, queue, status, attempts, gen, dq, wheel, cancel,
                   deadCount, client>>

CancelledBeforeHook(o) == o # Nil /\ status[o] = "Cancelled"

\* The second look: hook the context's cancel into the tracked task and
\* start the job, or leave at once when Cancel came first.
Hook(w) ==
    /\ wpc[w] = "hook"
    /\ LET o == tasks[WId(w)]
       IN  \/ /\ CancelledBeforeHook(o)
              /\ EndRun(w)
              /\ UNCHANGED <<status, runs>>
           \/ /\ ~CancelledBeforeHook(o)
              /\ cancelFn' = SetTracked(cancelFn, WId(w), w)
              /\ status' = SetTracked(status, WId(w), "Running")
              /\ runs' = [runs EXCEPT ![WId(w)] = @ + 1]
              /\ GoTo(w, "run")
              /\ UNCHANGED <<wobj, ctx, done>>
    /\ UNCHANGED <<table, queue, attempts, gen, dq, wheel, cancel, history,
                   deadCount, outcome, resubmits>>

\* The job's goroutine sends what the job returned on done.
JobReturns(w, res) ==
    /\ wpc[w] = "run" /\ done[w] = "none"
    /\ done' = [done EXCEPT ![w] = res]
    /\ UNCHANGED <<table, queue, objects, gen, dq, wpc, wobj, ctx, wheel, cancel,
                   history, deadCount, client>>

\* The context's deadline passes.
Deadline(w) ==
    /\ wpc[w] = "run" /\ WId(w) \in Timeouts /\ ctx[w] = "live"
    /\ ctx' = [ctx EXCEPT ![w] = "deadline"]
    /\ UNCHANGED <<table, queue, objects, gen, dq, wpc, wobj, done, wheel, cancel,
                   history, deadCount, client>>

\* Mutant: the key is never given back.
ReleaseKeyForgotten(o) == UNCHANGED activeKeys

\* delete(s.activeKeys, t.key)
ReleaseKey(o) == activeKeys' = activeKeys \ KeySet(o)

\* select: case err := <-done.  Either case may win when both are ready.
TakeDone(w) ==
    /\ wpc[w] = "run" /\ done[w] # "none"
    /\ ReleaseKey(wobj[w])
    /\ GoTo(w, IF done[w] = "nil" THEN "ok" ELSE "fail")
    /\ UNCHANGED <<tasks, queue, objects, gen, dq, wobj, ctx, done, wheel, cancel,
                   history, deadCount, client>>

\* select: case <-ctx.Done().
TakeCtxDone(w) ==
    /\ wpc[w] = "run" /\ ctx[w] # "live"
    /\ LET o == tasks[WId(w)]
           isCancelled == \/ ctx[w] = "canceled"
                          \/ o # Nil /\ status[o] = "Cancelled"
       IN  /\ status' = [status EXCEPT ![wobj[w]] =
                           IF isCancelled THEN "Cancelled" ELSE "Failed"]
           /\ GoTo(w, IF isCancelled THEN "cancelled" ELSE "fail")
    /\ ReleaseKey(wobj[w])
    /\ UNCHANGED <<tasks, queue, attempts, cancelFn, gen, dq, wobj, ctx, done,
                   wheel, cancel, history, deadCount, client>>

\* recordHistory(t), with the status t has now.
Record(i, st) == history' = [history EXCEPT ![i] = Append(@, st)]

Succeed(w) ==
    /\ wpc[w] = "ok"
    /\ status' = [SetTracked(status, WId(w), "Succeeded") EXCEPT ![wobj[w]] = "Succeeded"]
    /\ Record(WId(w), "Succeeded")
    /\ GoTo(w, "tail")
    /\ UNCHANGED <<table, queue, attempts, cancelFn, gen, dq, wobj, ctx, done,
                   wheel, cancel, deadCount, client>>

FinishCancelled(w) ==
    /\ wpc[w] = "cancelled"
    /\ status' = SetTracked(status, WId(w), "Cancelled")
    /\ Record(WId(w), status'[wobj[w]])
    /\ GoTo(w, "tail")
    /\ UNCHANGED <<table, queue, attempts, cancelFn, gen, dq, wobj, ctx, done,
                   wheel, cancel, deadCount, client>>

\* Mutant: a retrying task is evicted like a finished one.
KeptNotRetrying == {"Dead", "Failed"}

Kept == {"Dead", "Failed", "Retrying"}

\* The eviction policy at the bottom of runTask.
Evict(w) ==
    /\ wpc[w] = "tail"
    /\ tasks' = IF status[wobj[w]] \in Kept
                THEN tasks ELSE [tasks EXCEPT ![WId(w)] = Nil]
    /\ EndRun(w)
    /\ UNCHANGED <<activeKeys, queue, status, attempts, gen, dq, wheel, cancel,
                   history, deadCount, client>>

-----------------------------------------------------------------------------
(* handleFailure *)

\* Mutant: off by one.
ExhaustedLate(o) == MaxRetries[Id(o)] > 0 /\ attempts[o] > MaxRetries[Id(o)]

\* t.maxRetries > 0 && t.attempts >= t.maxRetries
Exhausted(o) == MaxRetries[Id(o)] > 0 /\ attempts[o] >= MaxRetries[Id(o)]

\* t.retryStrategy != nil and NextDelay(t.attempts) says so
Retries(o) == attempts[o] < StrategyMax[Id(o)]

\* What to do about the error is decided before the lock is taken again.
Decide(w) ==
    /\ wpc[w] = "fail"
    /\ LET o == wobj[w]
       IN  \/ /\ Exhausted(o)
              /\ deadCount' = deadCount + 1
              /\ GoTo(w, "dead")
           \/ /\ ~Exhausted(o) /\ Retries(o)
              /\ GoTo(w, "retry")
              /\ UNCHANGED deadCount
           \/ /\ ~Exhausted(o) /\ ~Retries(o)
              /\ GoTo(w, "failed")
              /\ UNCHANGED deadCount
    /\ UNCHANGED <<table, queue, objects, gen, dq, wobj, ctx, done, wheel, cancel,
                   history, client>>

\* The decision becomes the status of the tracked task; what comes next.
PublishAs(w, decision, st, next) ==
    /\ wpc[w] = decision
    /\ status' = SetTracked(status, WId(w), st)
    /\ GoTo(w, next)
    /\ UNCHANGED <<table, queue, attempts, cancelFn, gen, dq, wobj, ctx, done,
                   wheel, cancel, history, deadCount, client>>

\* Mutant: the retry branch falls through to recording the failure.
PublishFallsThrough(w) ==
    \/ PublishAs(w, "dead", "Dead", "record")
    \/ PublishAs(w, "retry", "Retrying", "record")
    \/ PublishAs(w, "failed", "Failed", "record")

Publish(w) ==
    \/ PublishAs(w, "dead", "Dead", "record")
    \/ PublishAs(w, "retry", "Retrying", "arm")
    \/ PublishAs(w, "failed", "Failed", "record")

\* A fresh retryTask, with the same id and one more attempt, is parked in
\* the wheel.
ArmRetry(w) ==
    /\ wpc[w] = "arm" /\ gen[WId(w)] < MaxGen
    /\ LET o == <<WId(w), gen[WId(w)] + 1>>
       IN  /\ attempts' = [attempts EXCEPT ![o] = attempts[wobj[w]] + 1]
           /\ WheelSchedule(o)
    /\ gen' = [gen EXCEPT ![WId(w)] = @ + 1]
    /\ GoTo(w, "tail")
    /\ UNCHANGED <<table, queue, status, cancelFn, dq, wobj, ctx, done, cancel,
                   history, deadCount, client>>

RecordFailure(w) ==
    /\ wpc[w] = "record"
    /\ Record(WId(w), status[wobj[w]])
    /\ GoTo(w, "tail")
    /\ UNCHANGED <<table, queue, objects, gen, dq, wobj, ctx, done, wheel, cancel,
                   deadCount, client>>

-----------------------------------------------------------------------------
(* Cancel: three stretches of code with the lock released in between *)

\* Mutant: Cancel sets the status and forgets t.cancel().
CallCancelForgotten(o) == UNCHANGED ctx

\* t.cancel() on a context that is still live.
CallCancel(o) ==
    ctx' = [w \in Workers |->
              IF cancelFn[o] = w /\ ctx[w] = "live" THEN "canceled" ELSE ctx[w]]

\* Mutant: Cancel does not treat Dead as terminal.
TerminalWithoutDead == {"Succeeded", "Failed", "Cancelled"}

Terminal == {"Succeeded", "Failed", "Dead", "Cancelled"}

\* The status decides: not tracked or terminal, running, or inactive.
CancelBegin(i) ==
    /\ i \in Cancellable /\ cpc[i] = "idle"
    /\ LET o == tasks[i]
       IN  \/ /\ o # Nil => status[o] \in Terminal
              /\ UNCHANGED <<status, ctx, cobj>>
           \/ /\ o # Nil /\ status[o] = "Running"
              /\ status' = [status EXCEPT ![o] = "Cancelled"]
              /\ CallCancel(o)
              /\ UNCHANGED cobj
           \/ /\ o # Nil /\ status[o] \notin Terminal \union {"Running"}
              /\ status' = [status EXCEPT ![o] = "Cancelled"]
              /\ CallCancel(o)
              /\ cobj' = [cobj EXCEPT ![i] = o]
    /\ cpc' = [cpc EXCEPT ![i] = "unlink"]
    /\ UNCHANGED <<table, queue, attempts, cancelFn, gen, dq, wpc, wobj, done,
                   wheel, history, deadCount, client>>

\* wheel.Cancel(id): an entry whose callback has not been launched is dropped.
CancelUnlink(i) ==
    /\ cpc[i] = "unlink"
    /\ wheel' = [o \in Objs |->
                   IF Id(o) = i /\ wheel[o] = "armed" THEN "idle" ELSE wheel[o]]
    /\ cpc' = [cpc EXCEPT ![i] = IF cobj[i] = Nil THEN "idle" ELSE "finalize"]
    /\ UNCHANGED <<table, queue, objects, gen, dq, worker, cobj, history,
                   deadCount, client>>

CancelFinalize(i) ==
    /\ cpc[i] = "finalize"
    /\ ReleaseKey(cobj[i])
    /\ Record(i, status[cobj[i]])
    /\ tasks' = [tasks EXCEPT ![i] = Nil]
    /\ cpc' = [cpc EXCEPT ![i] = "idle"]
    /\ cobj' = [cobj EXCEPT ![i] = Nil]
    /\ UNCHANGED <<queue, objects, gen, dq, worker, wheel, deadCount, client>>

-----------------------------------------------------------------------------

ClientStep(i) == Submit(i) \/ ScheduleOnceTask(i) \/ Resubmit(i) \/ CancelBegin(i)

CancelStep(i) == CancelUnlink(i) \/ CancelFinalize(i)

JobStep(w) == \E res \in {"nil", "err"} : JobReturns(w, res)

WorkerStep(w) ==
    \/ MarkRunning(w) \/ CheckTracked(w) \/ Hook(w)
    \/ TakeDone(w) \/ TakeCtxDone(w) \/ Succeed(w) \/ FinishCancelled(w)
    \/ Decide(w) \/ Publish(w) \/ ArmRetry(w) \/ RecordFailure(w)
    \/ Evict(w)

WheelStep(o) == ArmOnce(o) \/ WheelFire(o) \/ WheelCallback(o)

Next ==
    \/ \E i \in Ids : ClientStep(i) \/ CancelStep(i)
    \/ \E o \in Objs : WheelStep(o) \/ Pop(o)
    \/ \E w \in Workers : Dispatch(w) \/ JobStep(w) \/ Deadline(w) \/ WorkerStep(w)

Spec == Init /\ [][Next]_vars

\* The scheduler's own goroutines keep going: the dequeue loop, the workers,
\* the wheel and its callbacks, a Cancel call once made; and jobs return.
\* Nothing is assumed of the clients, nor of deadlines.
Fairness ==
    /\ \A o \in Objs : WF_vars(WheelStep(o))
    /\ WF_vars(\E o \in Objs : Pop(o))
    /\ WF_vars(\E w \in Workers : Dispatch(w))
    /\ \A w \in Workers : WF_vars(WorkerStep(w)) /\ WF_vars(JobStep(w))
    /\ \A i \in Ids : WF_vars(CancelStep(i))

FairSpec == Spec /\ Fairness

-----------------------------------------------------------------------------
(* Properties *)

Busy(w, i) == wpc[w] # "idle" /\ WId(w) = i

\* Stages of a worker that may still lead to an execution of the task.
Active == {"got", "check", "hook", "run", "fail", "dead", "retry", "failed", "arm"}

\* The places from which an execution of task i can still come.
Carriers(i) ==
    {<<"queue", o>> : o \in {p \in Objs : Id(p) = i /\ queue[p] > 0}}
    \union {<<"wheel", o>> : o \in {p \in Objs : Id(p) = i /\ wheel[p] # "idle"}}
    \union {<<"dequeued", o>> : o \in {p \in Objs : Id(p) = i /\ dq = p}}
    \union {<<"worker", w>> : w \in {x \in Workers : wpc[x] \in Active /\ WId(x) = i}}

\* An id has at most one carrier: retries and resubmissions hand the task on
\* from worker to wheel to queue and never fork it.
OneCarrier ==
    /\ \A o \in Objs : queue[o] <= 1
    /\ \A i \in Ids : \A c, d \in Carriers(i) : c = d

\* Two workers never execute the same task at the same time: runTask, the
\* retry through the wheel, Cancel and Resubmit never start an attempt while
\* another one is in its job.
OneAttemptAtATime ==
    \A v, w \in Workers :
        wpc[v] = "run" /\ wpc[w] = "run" /\ WId(v) = WId(w) => v = w

\* handleFailure's budget: the job of a task is executed at most once plus its
\* allowed retries, and as often again for each Resubmit.
Limit(i) == IF MaxRetries[i] > 0 /\ MaxRetries[i] < StrategyMax[i]
            THEN MaxRetries[i] ELSE StrategyMax[i]

RetryBudget == \A i \in Ids : runs[i] <= (Limit(i) + 1) * (1 + resubmits[i])

\* A task shown as Queued, Running or Retrying is really on its way: it is in
\* the heap, in the wheel, with dequeueLoop or with a worker.
NoStuckTask ==
    \A i \in Tracked :
        status[tasks[i]] \in {"Queued", "Running", "Retrying"} =>
            Carriers(i) # {} \/ \E w \in Workers : Busy(w, i)

\* What is in the heap, and nobody cancels, is the task tracked under its id, so
\* the worker that pops it will run it.
QueuedIsTracked ==
    \A o \in Objs : queue[o] > 0 /\ Id(o) \notin Cancellable => tasks[Id(o)] = o

\* Cancel of a task whose job is executing reaches it: runTask never sits in
\* its select with a live context while the task shows as Cancelled.
CancelReachesJob ==
    \A w \in Workers :
        /\ wpc[w] = "run" /\ tasks[WId(w)] # Nil
        /\ status[tasks[WId(w)]] = "Cancelled"
        => ctx[w] # "live"

\* WithKey: two tasks with the same key are never executed at the same time.
KeyExclusion ==
    \A v, w \in Workers :
        /\ wpc[v] = "run" /\ wpc[w] = "run"
        /\ KeyOf[WId(v)] = KeyOf[WId(w)] /\ KeyOf[WId(v)] # Nil
        => v = w

\* A key is taken only while a task that has it is queued or running.
NoKeyLeak ==
    \A k \in activeKeys : \E o \in Objs :
        /\ Key(o) = k
        /\ \/ queue[o] > 0 \/ dq = o
           \/ \E w \in Workers : wobj[w] = o /\ wpc[w] \in {"got", "check", "hook", "run"}

\* Backpressure: at most MaxQueueSize tasks got in through Submit.  The
\* tasks of ScheduleOnceTask are not counted: it never checks.
Backpressure == Cardinality(Tracked \ Once) <= MaxQueueSize

\* deadCount is the number of tasks in the dead letter queue, those about to
\* enter it included.
DeadCountExact ==
    deadCount = Cardinality({i \in Tracked : status[tasks[i]] = "Dead"})
                + Cardinality({w \in Workers : wpc[w] = "dead"})

\* A task enters history once, with a terminal status, and no task that was
\* accepted leaves the scheduler without.
RecordedOnce ==
    \A i \in Ids :
        /\ Len(history[i]) <= 1
        /\ \A n \in DOMAIN history[i] : history[i][n] \in Terminal
        /\ \/ outcome[i] # "accepted" \/ history[i] # <<>> \/ Carriers(i) # {}
           \/ \E w \in Workers : Busy(w, i)

\* A tracked task leaves Succeeded, Failed and Dead only through Resubmit.
TerminalSticks ==
    [][\A i \in Ids :
          /\ tasks[i] # Nil /\ tasks'[i] = tasks[i]
          /\ status[tasks[i]] \in {"Succeeded", "Failed", "Dead"}
          => \/ status'[tasks[i]] = status[tasks[i]]
             \/ resubmits'[i] > resubmits[i]]_vars

\* A task whose status is Cancelled is not put back to Running.
CancelledNotRevived ==
    [][\A o \in Objs : status[o] = "Cancelled" => status'[o] # "Running"]_vars

\* Every accepted task that nobody cancels reaches history.
EventuallyRecorded ==
    <>[](\A i \in Ids \ Cancellable : outcome[i] = "accepted" => history[i] # <<>>)

=============================================================================
