------------------------------- MODULE Cluster -------------------------------
(***************************************************************************)
(* Several skedulr instances that share one Redis (storage.go): the life   *)
(* of a persistent task across Submit, the shared queue, leases and their  *)
(* heartbeat, retries, loadTasks, RecoverOrphaned and the cancel           *)
(* broadcast, under crashes, restarts and failing storage calls.           *)
(*                                                                         *)
(* One action is one storage command, Lua script or pipeline, together     *)
(* with the local steps next to it; how local steps interleave inside one  *)
(* instance is the subject of module Scheduler.  Submit holds s.mu while   *)
(* it talks to Redis, so every action that takes s.mu waits for it (Free). *)
(* Each instance has one worker.                                           *)
(***************************************************************************)
EXTENDS Integers, FiniteSets, Bags, BagsExt

CONSTANTS
    Instances,      \* the processes
    Tasks,          \* persistent tasks, each submitted once by some client
    Nil,            \* absent record, lease, copy or call
    Late,           \* instances whose jobs come with RegisterJob, after New
    Cancellable,    \* tasks some client may pass to Cancel
    MaxRetries,     \* WithMaxRetries of every task; its strategy always retries
    MaxHeap,        \* bound: copies in a local heap
    MaxFaults       \* bound: crashes, failing storage calls and failing jobs

ASSUME ConstantsAssumption ==
    /\ Late \subseteq Instances /\ Cancellable \subseteq Tasks
    /\ MaxRetries \in Nat \ {0} /\ MaxHeap \in Nat /\ MaxFaults \in Nat

ASSUME NilAssumption == Nil \notin Instances \union Tasks \union Int

VARIABLES
    body,           \* body[t]: attempts in the stored record, or Nil
    queue,          \* ZSET queue: members differ in task or attempts
    lease,          \* lease[t]: the instance the lease key names, or Nil
    processing,     \* SET processing
    marks,          \* cancelled:<id> keys
    inst,           \* inst[i]: what the memory of an instance holds
    submitted,      \* tasks a client has passed to Submit
    accepted,       \* ... and Submit returned without an error
    settled,        \* tasks with a final outcome: done, dead, failed or cancelled
    cancelCalls,    \* tasks a client has passed to Cancel
    faults          \* ... so far

redis == <<body, queue, lease, processing, marks>>
clients == <<submitted, accepted, settled, cancelCalls>>
vars == <<redis, inst, clients, faults>>

Attempts == 0 .. MaxRetries

\* A *task.  own: the client's object or a retry of it, with its strategy.
\* One read back from Redis has neither strategy nor maxRetries, and nothing
\* looks at its attempts again.
Copies == [task : Tasks, att : Attempts, own : BOOLEAN]
Stored(t) == [task |-> t, att |-> 0, own |-> FALSE]

\* The memory of a process that is not running.
Off(i) ==
    [phase |-> "down",          \* down, loading (inside New), up, stopping
     jobs  |-> i \notin Late,   \* registry filled
     snap  |-> {},              \* loadTasks: records read and not yet claimed
     heap  |-> EmptyBag,        \* s.queue
     hand  |-> Nil,             \* dequeueLoop: the copy it dispatches
     run   |-> Nil,             \* the worker: the copy it executes
     dead  |-> FALSE,           \* ... and Save for its death is done
     hb    |-> FALSE,           \* its heartbeat goroutine goes on
     tasks |-> [t \in Tasks |-> Nil],    \* s.tasks: status
     wheel |-> [t \in Tasks |-> Nil],    \* parked retry: its attempts
     call  |-> Nil,             \* Submit between Save and Enqueue
     cancel|-> Nil,             \* Cancel in flight: <<id, wasInactive>>
     inbox |-> {}]              \* messages of cmd:cancel

Init ==
    /\ body = [t \in Tasks |-> Nil] /\ queue = {} /\ processing = {}
    /\ lease = [t \in Tasks |-> Nil] /\ marks = {}
    /\ inst = [i \in Instances |-> [Off(i) EXCEPT !.phase = "up"]]
    /\ submitted = {} /\ accepted = {} /\ settled = {} /\ cancelCalls = {}
    /\ faults = 0

-----------------------------------------------------------------------------
(***************************** Storage commands ****************************)

\* A storage call goes through, or returns an error and has no effect.
Works == UNCHANGED faults
Fails == faults < MaxFaults /\ faults' = faults + 1

Save(c) == body' = [body EXCEPT ![c.task] = c.att]

\* Delete and CompleteTask: body, lease and processing, but not the queue.
Delete(t) ==
    /\ body' = [body EXCEPT ![t] = Nil]
    /\ lease' = [lease EXCEPT ![t] = Nil]
    /\ processing' = processing \ {t}

\* The callers ignore an error of CompleteTask.
CompleteTask(t) ==
    /\ UNCHANGED <<queue, marks>>
    /\ \/ Works /\ Delete(t)
       \/ Fails /\ UNCHANGED <<body, lease, processing>>

LoadAll == {t \in Tasks : body[t] # Nil}

Up(i) == inst[i].phase = "up"
Free(i) == Up(i) /\ inst[i].call = Nil

\* What Status shows, if the id is tracked.
Show(i, t, s) == IF inst[i].tasks[t] = Nil THEN Nil ELSE s

-----------------------------------------------------------------------------
(********************************** Submit *********************************)

\* Submit takes s.mu and calls Save.
SubmitSave(i, c) ==
    \/ Works /\ Save(c) /\ inst' = [inst EXCEPT ![i].call = c]
    \/ Fails /\ UNCHANGED <<body, inst>>

\* A client submits; a type that is not registered is refused.
Submit(i, t) ==
    /\ Free(i) /\ t \notin submitted
    /\ submitted' = submitted \union {t}
    /\ IF inst[i].jobs
         THEN SubmitSave(i, [task |-> t, att |-> 0, own |-> TRUE])
         ELSE Works /\ UNCHANGED <<body, inst>>
    /\ UNCHANGED <<queue, lease, processing, marks, accepted, settled,
                   cancelCalls>>

\* The wheel fires a retry, whose callback calls Submit.
RetryFires(i, t) ==
    /\ Free(i) /\ inst[i].wheel[t] # Nil
    /\ LET c == [task |-> t, att |-> inst[i].wheel[t], own |-> TRUE]
       IN  \/ /\ Works /\ Save(c)
              /\ inst' = [inst EXCEPT ![i].wheel[t] = Nil, ![i].call = c]
           \/ /\ Fails /\ UNCHANGED body
              /\ inst' = [inst EXCEPT ![i].wheel[t] = Nil]
    /\ UNCHANGED <<queue, lease, processing, marks, clients>>

\* Submit calls Enqueue, and pushes the task onto its own heap as well.
SubmitEnqueue(i) ==
    /\ Up(i) /\ inst[i].call # Nil
    /\ LET c == inst[i].call
       IN  \/ /\ Works /\ queue' = queue \union {<<c.task, c.att>>}
              /\ inst' = [inst EXCEPT ![i].call = Nil,
                                      ![i].tasks[c.task] = "Queued",
                                      ![i].heap = BagAdd(@, c)]
              /\ accepted' = accepted \union {c.task}
           \/ /\ Fails /\ inst' = [inst EXCEPT ![i].call = Nil]
              /\ UNCHANGED <<queue, accepted>>
    /\ UNCHANGED <<body, lease, processing, marks, submitted, settled,
                   cancelCalls>>

-----------------------------------------------------------------------------
(******************************* dequeueLoop *******************************)

\* It pops its own heap first ...
Pop(i) ==
    /\ Free(i) /\ inst[i].hand = Nil
    /\ \E c \in BagToSet(inst[i].heap) :
          inst' = [inst EXCEPT ![i].heap = BagRemove(@, c), ![i].hand = c]
    /\ UNCHANGED <<redis, clients, faults>>

\* ... and turns to the storage when that is empty.  luaDequeue sets the lease
\* whoever held it.  Then come IsCancelled, where an error counts as "no",
\* and the registry: an unknown type is dropped with its lease.  When the
\* answer of the script is lost, the loop knows of nothing.
Dequeue(i) ==
    /\ Free(i) /\ inst[i].hand = Nil /\ inst[i].heap = EmptyBag
    /\ \E e \in queue :
          LET t == e[1]
          IN  /\ queue' = queue \ {e}
              /\ \/ /\ t \in marks /\ Works
                    /\ Delete(t)
                    /\ UNCHANGED inst
                 \/ /\ (t \notin marks /\ Works) \/ Fails
                    /\ lease' = [lease EXCEPT ![t] = i]
                    /\ processing' = processing \union {t}
                    /\ UNCHANGED body
                    /\ \/ (faults' # faults \/ ~inst[i].jobs) /\ UNCHANGED inst
                       \/ /\ (faults' = faults \/ t \in marks) /\ inst[i].jobs
                          /\ inst' = [inst EXCEPT ![i].hand = Stored(t), ![i].tasks[t] = "Queued"]
    /\ UNCHANGED <<marks, clients>>

PutDown(i) == [inst EXCEPT ![i].hand = Nil]

\* dispatchTask hands the copy to the worker, which shows the id as Running
\* whatever it was; an id that is no longer tracked is dropped.
Start(i) ==
    /\ Free(i) /\ inst[i].hand # Nil /\ inst[i].run = Nil
    /\ LET c == inst[i].hand
       IN  inst' = IF inst[i].tasks[c.task] = Nil
                     THEN PutDown(i)
                     ELSE [PutDown(i) EXCEPT ![i].run = c, ![i].hb = TRUE,
                                             ![i].tasks[c.task] = "Running"]
    /\ UNCHANGED <<redis, clients, faults>>

-----------------------------------------------------------------------------
(*************************** The worker: runTask ***************************)

Executes(i, t) == inst[i].run # Nil /\ inst[i].run.task = t

\* luaHeartbeat renews the lease of its own instance only; one failure, or a
\* lease that is gone, ends the heartbeat and not the job.
HeartbeatStops(i) ==
    /\ inst[i].run # Nil /\ inst[i].hb
    /\ (lease[inst[i].run.task] # i /\ Works) \/ Fails
    /\ inst' = [inst EXCEPT ![i].hb = FALSE]
    /\ UNCHANGED <<redis, clients>>

\* Copies of t that instance i has not started.
Waiting(i, t) == \E c \in BagToSet(inst[i].heap) \union {inst[i].hand} :
                    c # Nil /\ c.task = t

\* The heartbeat comes three times per lease, so a lease it still renews does
\* not run out.  One that runs out while its holder has not even started the
\* task counts as a fault.
LeaseExpires(t) ==
    /\ lease[t] # Nil
    /\ ~(Executes(lease[t], t) /\ inst[lease[t]].hb)
    /\ IF Waiting(lease[t], t) THEN Fails ELSE Works
    /\ lease' = [lease EXCEPT ![t] = Nil]
    /\ UNCHANGED <<body, queue, processing, marks, inst, clients>>

\* runTask returns; s is what the id shows from now on, Nil when it is evicted.
Leave(i, s) ==
    [inst EXCEPT ![i].run = Nil, ![i].dead = FALSE, ![i].hb = FALSE,
                 ![i].tasks[inst[i].run.task] = s]

Busy(i) == (Free(i) \/ inst[i].phase = "stopping") /\ inst[i].run # Nil

\* The job has succeeded, or it was cancelled: CompleteTask and evict.
Finish(i) ==
    /\ Busy(i) /\ ~inst[i].dead
    /\ CompleteTask(inst[i].run.task)
    /\ inst' = Leave(i, Nil)
    /\ settled' = settled \union {inst[i].run.task}
    /\ UNCHANGED <<submitted, accepted, cancelCalls>>

\* The job has returned an error.
JobFails(i) == Busy(i) /\ ~inst[i].dead /\ Fails

\* Mutant: the record of a failed attempt is deleted before the retry is parked.
RetryForgets(i) ==
    /\ JobFails(i) /\ inst[i].run.own /\ inst[i].run.att < MaxRetries
    /\ LET c == inst[i].run
       IN  /\ Delete(c.task)
           /\ inst' = [Leave(i, Show(i, c.task, "Retrying"))
                         EXCEPT ![i].wheel[c.task] = c.att + 1]
    /\ UNCHANGED <<queue, marks, clients>>

\* Mutant: the last attempt is retried once more.
RetryOffByOne(i) ==
    /\ JobFails(i) /\ inst[i].run.own /\ inst[i].run.att <= MaxRetries
    /\ LET c == inst[i].run
       IN  inst' = [Leave(i, Show(i, c.task, "Retrying"))
                      EXCEPT ![i].wheel[c.task] = c.att + 1]
    /\ UNCHANGED <<redis, clients>>

\* handleFailure: the retry is parked in the wheel of this instance.
Retry(i) ==
    /\ JobFails(i) /\ inst[i].run.own /\ inst[i].run.att < MaxRetries
    /\ LET c == inst[i].run
       IN  inst' = [Leave(i, Show(i, c.task, "Retrying"))
                      EXCEPT ![i].wheel[c.task] = c.att + 1]
    /\ UNCHANGED <<redis, clients>>

\* handleFailure, attempts exhausted: Save, then CompleteTask.
DeadSave(i) ==
    /\ JobFails(i) /\ inst[i].run.own /\ inst[i].run.att = MaxRetries
    /\ Save(inst[i].run)
    /\ inst' = [inst EXCEPT ![i].dead = TRUE,
                            ![i].tasks[inst[i].run.task] = Show(i, inst[i].run.task, "Dead")]
    /\ UNCHANGED <<queue, lease, processing, marks, clients>>

DeadComplete(i) ==
    /\ Busy(i) /\ inst[i].dead
    /\ CompleteTask(inst[i].run.task)
    /\ inst' = Leave(i, inst[i].tasks[inst[i].run.task])
    /\ settled' = settled \union {inst[i].run.task}
    /\ UNCHANGED <<submitted, accepted, cancelCalls>>

\* handleFailure for a copy read back from Redis: Failed, and the record stays.
FailFinal(i) ==
    /\ JobFails(i) /\ ~inst[i].run.own
    /\ inst' = Leave(i, Show(i, inst[i].run.task, "Failed"))
    /\ settled' = settled \union {inst[i].run.task}
    /\ UNCHANGED <<redis, submitted, accepted, cancelCalls>>

-----------------------------------------------------------------------------
(************************* loadTasks and recovery **************************)

\* cleanupLoop starts loadTasks, which reads every record first.
Load(i) ==
    /\ Up(i) /\ inst[i].snap = {} /\ LoadAll # {}
    /\ inst' = [inst EXCEPT ![i].snap = LoadAll]
    /\ UNCHANGED <<redis, clients, faults>>

\* Mutant: Claim without the NX mode.
ClaimableAlways(t) == TRUE

\* Claim is SET NX.
Claimable(t) == lease[t] = Nil

\* The next record of the snapshot: Claim it and push a copy, unless another
\* instance holds it.  A type that is not registered is skipped, lease and all.
ClaimNext(i) ==
    /\ Free(i) \/ inst[i].phase = "loading"
    /\ BagCardinality(inst[i].heap) < MaxHeap
    /\ \E t \in inst[i].snap :
          \/ /\ Works /\ Claimable(t)
             /\ lease' = [lease EXCEPT ![t] = i]
             /\ inst' = IF inst[i].jobs
                          THEN [inst EXCEPT ![i].snap = @ \ {t},
                                            ![i].tasks[t] = "Queued",
                                            ![i].heap = BagAdd(@, Stored(t))]
                          ELSE [inst EXCEPT ![i].snap = @ \ {t}]
          \/ /\ (Works /\ ~Claimable(t)) \/ Fails
             /\ inst' = [inst EXCEPT ![i].snap = @ \ {t}]
             /\ UNCHANGED lease
    /\ UNCHANGED <<body, queue, processing, marks, clients>>

\* The processing ids without a lease.
Orphans == {t \in processing : lease[t] = Nil}

\* Mutant: luaRecover keeps an id whose record is gone.
DroppedStored == {t \in Orphans : body[t] # Nil}

\* luaRecover takes every orphan out of the set ...
Dropped == Orphans

\* ... and puts those with a record back into the queue.
RecoverOrphaned(i) ==
    /\ Up(i) /\ Orphans # {}
    /\ queue' = queue \union {<<t, body[t]>> : t \in {u \in Orphans : body[u] # Nil}}
    /\ processing' = processing \ Dropped
    /\ UNCHANGED <<body, lease, marks, inst, clients, faults>>

-----------------------------------------------------------------------------
(********************************** Cancel *********************************)

\* Cancel's first critical section, the wheel and MarkCancelled.  A task that
\* is shown in a terminal state is left alone.
Cancel(i, t) ==
    /\ Free(i) /\ inst[i].cancel = Nil
    /\ t \in Cancellable \ cancelCalls
    /\ cancelCalls' = cancelCalls \union {t}
    /\ LET s == inst[i].tasks[t]
           dropped == [inst EXCEPT ![i].wheel[t] = Nil]
       IN  \/ /\ s \in {"Failed", "Dead", "Cancelled"} /\ Works
              /\ inst' = dropped
              /\ UNCHANGED <<marks, settled>>
           \/ /\ s \in {Nil, "Queued", "Running", "Retrying"}
              /\ inst' = [dropped EXCEPT
                            ![i].tasks[t] = Show(i, t, "Cancelled"),
                            ![i].cancel = <<t, s \in {"Queued", "Retrying"}>>]
              /\ settled' = settled \union {t}
              /\ \/ Works /\ marks' = marks \union {t}
                 \/ Fails /\ UNCHANGED marks
    /\ UNCHANGED <<body, queue, lease, processing, submitted, accepted>>

\* A task no worker runs is evicted and completed by Cancel itself.  Then the
\* message goes out: only instances that are subscribed now will see it.
CancelFinish(i) ==
    /\ Free(i) /\ inst[i].cancel # Nil
    /\ LET t == inst[i].cancel[1]
           finalizes == inst[i].cancel[2]
           here == IF finalizes
                     THEN [inst EXCEPT ![i].tasks[t] = Nil, ![i].cancel = Nil]
                     ELSE [inst EXCEPT ![i].cancel = Nil]
           sent == [j \in Instances |->
                      IF Up(j) THEN [here[j] EXCEPT !.inbox = @ \union {t}] ELSE here[j]]
       IN  /\ IF finalizes THEN CompleteTask(t) ELSE (Works \/ Fails) /\ UNCHANGED redis
           /\ inst' = sent \/ (faults' # faults /\ inst' = here)
    /\ UNCHANGED clients

\* The handler New passes to SubscribeCancel.
OnCancel(i, t) ==
    /\ Free(i) /\ t \in inst[i].inbox
    /\ inst' = [inst EXCEPT ![i].inbox = @ \ {t},
                            ![i].tasks[t] = Show(i, t, "Cancelled")]
    /\ UNCHANGED <<redis, clients, faults>>

-----------------------------------------------------------------------------
(***************************** Crash and restart ***************************)

Crash(i) ==
    /\ inst[i].phase # "down" /\ Fails
    /\ inst' = [inst EXCEPT ![i] = Off(i)]
    /\ UNCHANGED <<redis, clients>>

\* ShutDown closes s.stop: heartbeats end, what waits in memory is dropped, and
\* the job that runs may still finish.
ShutDown(i) ==
    /\ Free(i) /\ Fails
    /\ inst' = [inst EXCEPT ![i] = [Off(i) EXCEPT !.phase = "stopping", !.run = inst[i].run,
                                                 !.dead = inst[i].dead, !.tasks = inst[i].tasks]]
    /\ UNCHANGED <<redis, clients>>

\* dequeueLoop looks at the stopped flag only when the storage has nothing for
\* it: until then it dequeues task after task, and dispatchTask drops them.
Drain(i) ==
    /\ inst[i].phase = "stopping"
    /\ \E e \in queue :
          /\ queue' = queue \ {e}
          /\ lease' = [lease EXCEPT ![e[1]] = i]
          /\ processing' = processing \union {e[1]}
    /\ UNCHANGED <<body, marks, inst, clients, faults>>

\* ShutDown returns when the loops have ended and the worker is done, or its
\* context has expired, and the process exits.
Exit(i) ==
    /\ inst[i].phase = "stopping" /\ queue = {}
    /\ inst' = [inst EXCEPT ![i] = Off(i)]
    /\ UNCHANGED <<redis, clients, faults>>

\* New runs loadTasks to its end before it starts any loop.
Boot(i) ==
    /\ inst[i].phase = "down"
    /\ inst' = [inst EXCEPT ![i].phase = "loading", ![i].snap = LoadAll]
    /\ UNCHANGED <<redis, clients, faults>>

NewReturns(i) ==
    /\ inst[i].phase = "loading" /\ inst[i].snap = {}
    /\ inst' = [inst EXCEPT ![i].phase = "up"]
    /\ UNCHANGED <<redis, clients, faults>>

RegisterJob(i) ==
    /\ Up(i) /\ ~inst[i].jobs
    /\ inst' = [inst EXCEPT ![i].jobs = TRUE]
    /\ UNCHANGED <<redis, clients, faults>>

-----------------------------------------------------------------------------
\* The goroutines of an instance; calls is those of its clients and callbacks.
dequeueLoop(i) == Pop(i) \/ Dequeue(i) \/ Start(i) \/ Drain(i)
worker(i) == Finish(i) \/ Retry(i) \/ DeadSave(i) \/ DeadComplete(i) \/ FailFinal(i)
cleanupLoop(i) == Load(i) \/ ClaimNext(i)
main(i) == Boot(i) \/ NewReturns(i) \/ RegisterJob(i)
calls(i) == \/ SubmitEnqueue(i) \/ CancelFinish(i)
            \/ \E t \in Tasks : RetryFires(i, t) \/ OnCancel(i, t)

Next ==
    \/ \E i \in Instances :
          \/ dequeueLoop(i) \/ worker(i) \/ cleanupLoop(i) \/ main(i) \/ calls(i)
          \/ HeartbeatStops(i) \/ RecoverOrphaned(i) \/ Crash(i) \/ ShutDown(i) \/ Exit(i)
          \/ \E t \in Tasks : Submit(i, t) \/ Cancel(i, t)
    \/ \E t \in Tasks : LeaseExpires(t)

Spec == Init /\ [][Next]_vars

\* Goroutines and timers run, a process is started again, jobs return and
\* leases run out.  A stopping instance that finds the queue empty again and
\* again exits at last.  Clients, crashes and errors are not assumed to happen.
Fairness ==
    /\ \A t \in Tasks : WF_vars(LeaseExpires(t))
    /\ \A i \in Instances :
          /\ WF_vars(dequeueLoop(i)) /\ WF_vars(worker(i)) /\ WF_vars(cleanupLoop(i))
          /\ WF_vars(main(i)) /\ WF_vars(calls(i)) /\ WF_vars(RecoverOrphaned(i))
          /\ SF_vars(Exit(i))

FairSpec == Spec /\ Fairness

-----------------------------------------------------------------------------
(******************************** Properties *******************************)

Status == {Nil, "Queued", "Running", "Retrying", "Dead", "Failed", "Cancelled"}

\* The type invariant: what the Redis keys and the memory of each instance
\* may hold.
TypeOK ==
    /\ body \in [Tasks -> Attempts \union {Nil}]
    /\ queue \subseteq Tasks \X Attempts
    /\ lease \in [Tasks -> Instances \union {Nil}]
    /\ processing \subseteq Tasks /\ marks \subseteq Tasks
    /\ accepted \subseteq submitted /\ settled \subseteq Tasks
    /\ \A i \in Instances :
          /\ inst[i].phase \in {"down", "loading", "up", "stopping"}
          /\ inst[i].snap \subseteq Tasks
          /\ BagToSet(inst[i].heap) \subseteq Copies
          /\ inst[i].hand \in Copies \union {Nil}
          /\ inst[i].run \in Copies \union {Nil}
          /\ inst[i].call \in Copies \union {Nil}
          /\ inst[i].tasks \in [Tasks -> Status]
          /\ inst[i].wheel \in [Tasks -> Attempts \union {Nil}]

\* Durability: while an accepted task has no outcome anywhere in the cluster,
\* Redis holds its record, through every crash, retry and failing call, so
\* that loadTasks of some instance can find it.
NoLostTask == \A t \in accepted \ settled : body[t] # Nil

\* An execution whose heartbeat goes on and whose instance holds the lease.
Healthy(i, t) == Executes(i, t) /\ inst[i].hb /\ lease[t] = i

\* Leases: neither loadTasks nor the recovery scan of any instance takes over
\* a task while its holder renews the lease.  The lease of a healthy execution
\* goes when that execution ends, when the record is deleted by the one who
\* completed or cancelled the task, or when a member of the queue with this id is
\* dequeued; and only a Submit puts such a member into the queue.
LeaseRespected ==
    [][\A i \in Instances, t \in Tasks : Healthy(i, t) =>
          /\ \/ lease'[t] = i
             \/ inst'[i].run # inst[i].run
             \/ body'[t] = Nil
             \/ \E a \in Attempts : <<t, a>> \in queue \ queue'
          /\ (\E a \in Attempts : <<t, a>> \in queue' \ queue) =>
                \E j \in Instances : inst[j].call # Nil /\ inst[j].call.task = t]_vars

\* At-least-once execution under crashes, and nothing left behind: in the end
\* every task whose Submit returned has an outcome, whichever instance crashed
\* and whichever call failed, and Redis holds no record, lease or processing
\* entry any more.
CompletedAndClean ==
    <>[](/\ accepted \subseteq settled
         /\ \A t \in Tasks : body[t] = Nil /\ lease[t] = Nil /\ t \notin processing)

\* Two instances never execute one task at the same time, even when no process crashes
\* and no call fails: what the documentation says of delivery.
DeliveredOnce ==
    \A i, j \in Instances, t \in Tasks :
        Executes(i, t) /\ Executes(j, t) => i = j

=============================================================================
