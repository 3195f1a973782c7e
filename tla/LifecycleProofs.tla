--------------------------- MODULE LifecycleProofs ---------------------------
(***************************************************************************)
(* Where tasks end up, for every number of tasks and workers.  A task that *)
(* is shown as under way is on its way; a final status sticks; an accepted *)
(* task is recorded once; and the dead letter queue is counted exactly.    *)
(* Each theorem names the calls that would break it in the code.           *)
(***************************************************************************)
EXTENDS ExecutionProofs

-----------------------------------------------------------------------------
(* No task is stuck *)

\* What the wheel brings back is never refused: there is room for every task,
\* and the tasks of ScheduleOnceTask have no key and are of registered types.
NeverRefused ==
    /\ Cardinality(Ids) < MaxQueueSize
    /\ \A i \in Once : KeyOf[i] = Nil /\ i \notin Unregistered

\* Nobody cancels a task that may be in the wheel: Cancel may drop the entry
\* after it has looked at the status.
CancelsOutsideWheel == \A i \in Cancellable : i \notin Once /\ StrategyMax[i] = 0

\* The scheduler has only tasks of registered types.
Registered ==
    /\ \A i \in Ids : tasks[i] # Nil => i \notin Unregistered
    /\ \A o \in Objs : Waits(o) => Id(o) \notin Unregistered
    /\ \A w \in Workers : wpc[w] # "idle" => WId(w) \notin Unregistered

\* The wheel has tasks of ScheduleOnceTask and the retryTasks of a strategy.
WheelHas ==
    /\ \A o \in Objs : wheel[o] # "idle" =>
          \/ Id(o) \in Once
          \/ o[2] > 0 /\ StrategyMax[Id(o)] > 0
    /\ \A w \in Workers : wpc[w] \in {"retry", "arm"} => StrategyMax[WId(w)] > 0

Live == {"Queued", "Running", "Retrying"}

\* Something of the task waits, or a worker will still set its status.
OnWay(i) ==
    \/ \E o \in Objs : Id(o) = i /\ Waits(o)
    \/ \E w \in Workers : WId(w) = i /\ wpc[w] \in Active \union {"ok", "cancelled"}

NotStuck(i) == tasks[i] # Nil /\ status[tasks[i]] \in Live => OnWay(i)

\* Registered is inductive: Submit looks the type up before it tracks a task,
\* and everything else passes on what Submit or ScheduleOnceTask let in.
LEMMA RegisteredStep ==
    ASSUME TypeOK, NeverRefused, Registered, [Next]_vars
    PROVE  Registered'
<1>1. ASSUME NEW n \in Objs, SubmitTask(n), UNCHANGED <<dq, wpc, wobj>>,
             \A o \in Objs : wheel'[o] # "idle" => wheel[o] # "idle"
      PROVE  Registered'
  <2>1. CASE UNCHANGED <<tasks, queue>>
    BY <1>1, <2>1 DEF Registered, Waits, WId
  <2>2. CASE /\ Id(n) \notin Unregistered
             /\ tasks' = [tasks EXCEPT ![Id(n)] = n] /\ queue' = [queue EXCEPT ![n] = @ + 1]
    <3>1. \A i \in Ids : tasks'[i] # Nil => i \notin Unregistered
      BY <2>2 DEF Registered, TypeOK
    <3>2. \A o \in Objs : Waits(o)' => Waits(o) \/ o = n
      BY <1>1, <2>2 DEF Waits, TypeOK
    <3> QED
      BY <1>1, <2>2, <3>1, <3>2 DEF Registered, WId
  <2> QED
    BY <1>1, <2>1, <2>2 DEF SubmitTask, Accepts
<1>2. ASSUME NEW i \in Ids, Submit(i) PROVE Registered'
  BY <1>1, <1>2, ObjsFacts DEF Submit, worker
<1>3. ASSUME NEW i \in Ids, ScheduleOnceTask(i) PROVE Registered'
  <2>1. i \notin Unregistered /\ UNCHANGED <<queue, dq, wpc, wobj>>
    BY <1>3 DEF ScheduleOnceTask, NeverRefused, worker
  <2>2. PICK n \in Objs : n = <<i, 0>> /\ Id(n) = i
    BY ObjsFacts DEF Id
  <2>3. tasks' = [tasks EXCEPT ![i] = n] /\ wheel' = [wheel EXCEPT ![n] = "arming"]
    BY <1>3, <2>2 DEF ScheduleOnceTask
  <2>4. \A j \in Ids : tasks'[j] # Nil => j \notin Unregistered
    BY <2>1, <2>3 DEF Registered, TypeOK
  <2>5. \A o \in Objs : Waits(o)' => Waits(o) \/ o = n
    BY <2>1, <2>3 DEF Waits, TypeOK
  <2> QED
    BY <2>1, <2>2, <2>4, <2>5 DEF Registered, WId
<1>4. ASSUME NEW i \in Ids, Resubmit(i) PROVE Registered'
  <2>1. UNCHANGED <<tasks, dq, wpc, wobj, wheel>> /\ tasks[i] # Nil
    BY <1>4 DEF Resubmit, table, worker
  <2>2. PICK n \in Objs : n = tasks[i] /\ Id(n) = i
    BY <2>1 DEF TypeOK
  <2>3. queue' = [queue EXCEPT ![n] = @ + 1]
    BY <1>4, <2>2 DEF Resubmit
  <2>4. \A o \in Objs : Waits(o)' => Waits(o) \/ o = n
    BY <2>1, <2>3 DEF Waits, TypeOK
  <2> QED
    BY <2>1, <2>2, <2>4 DEF Registered, WId
<1>5. ASSUME NEW i \in Ids, CancelBegin(i) \/ CancelStep(i) PROVE Registered'
  <2>1. UNCHANGED <<queue, dq, wpc, wobj>>
    BY <1>5 DEF CancelBegin, CancelStep, CancelUnlink, CancelFinalize, worker
  <2>2. /\ \A o \in Objs : wheel'[o] # "idle" => wheel[o] # "idle"
        /\ \A j \in Ids : tasks'[j] # Nil => tasks[j] # Nil
    BY <1>5 DEF CancelBegin, CancelStep, CancelUnlink, CancelFinalize, table, TypeOK
  <2> QED
    BY <2>1, <2>2 DEF Registered, Waits, WId
<1>6. ASSUME NEW o \in Objs, ArmOnce(o) \/ WheelFire(o) PROVE Registered'
  <2>1. UNCHANGED <<tasks, queue, dq, wpc, wobj>>
    BY <1>6 DEF ArmOnce, WheelFire, worker, table
  <2>2. \A p \in Objs : wheel'[p] # "idle" => wheel[p] # "idle"
    BY <1>6 DEF ArmOnce, WheelFire, WheelSchedule, TypeOK
  <2> QED
    BY <2>1, <2>2 DEF Registered, Waits, WId
<1>7. ASSUME NEW o \in Objs, WheelCallback(o) PROVE Registered'
  <2>1. \A p \in Objs : wheel'[p] # "idle" => wheel[p] # "idle"
    BY <1>7 DEF WheelCallback, TypeOK
  <2> QED
    BY <1>1, <1>7, <2>1 DEF WheelCallback, worker
<1>8. ASSUME NEW o \in Objs, Pop(o) PROVE Registered'
  <2>1. UNCHANGED <<tasks, wheel, wpc, wobj>> /\ dq' = o /\ Waits(o)
    BY <1>8 DEF Pop, worker, table, Waits
  <2>2. \A p \in Objs : queue'[p] > 0 => queue[p] > 0
    BY <1>8 DEF Pop, TypeOK
  <2> QED
    BY <2>1, <2>2 DEF Registered, Waits, WId
<1>9. ASSUME NEW w \in Workers, Dispatch(w) PROVE Registered'
  <2>1. UNCHANGED <<tasks, wheel, queue>> /\ dq' = Nil /\ dq \in Objs
    BY <1>9 DEF Dispatch, table, TypeOK
  <2>2. \A v \in Workers : wobj'[v] = dq \/ (wobj'[v] = wobj[v] /\ wpc'[v] = wpc[v])
    BY <1>9 DEF Dispatch, TypeOK
  <2>3. Id(dq) \notin Unregistered
    BY <2>1 DEF Registered, Waits
  <2> QED
    BY <2>1, <2>2, <2>3, NilAssumption DEF Registered, Waits, WId
<1>10. ASSUME NEW w \in Workers, JobStep(w) \/ Deadline(w) PROVE Registered'
  <2>1. UNCHANGED <<tasks, wheel, queue, dq, wpc, wobj>>
    BY <1>10 DEF JobStep, JobReturns, Deadline, table
  <2> QED
    BY <2>1 DEF Registered, Waits, WId
<1>11. ASSUME NEW w \in Workers, WorkerStep(w) PROVE Registered'
  <2>1. /\ wpc[w] # "idle" /\ WId(w) \in Ids /\ UNCHANGED <<queue, dq>> /\ SameHands
        /\ UNCHANGED <<wheel, gen>> \/ ArmRetry(w)
    BY <1>11, WorkerMoves
  <2>2. \A o \in Objs : wheel'[o] # "idle" => wheel[o] # "idle" \/ Id(o) = WId(w)
    <3>1. CASE UNCHANGED wheel
      BY <3>1
    <3>2. CASE ArmRetry(w)
      <4>1. PICK n : n = <<WId(w), gen[WId(w)] + 1>>
        OBVIOUS
      <4>2. WheelSchedule(n) /\ Id(n) = WId(w)
        BY <3>2, <4>1 DEF ArmRetry, Id
      <4> QED
        BY <4>2 DEF WheelSchedule
    <3> QED
      BY <2>1, <3>1, <3>2
  <2>3. \A i \in Ids : tasks'[i] # Nil => tasks[i] # Nil
    BY <1>11, WorkerEffects
  <2> QED
    BY <2>1, <2>2, <2>3 DEF Registered, Waits, WId, SameHands
<1>12. ASSUME UNCHANGED vars PROVE Registered'
  BY <1>12 DEF vars, table, worker, Registered, Waits, WId
<1> QED
  BY <1>2, <1>3, <1>4, <1>5, <1>6, <1>7, <1>8, <1>9, <1>10, <1>11, <1>12
  DEF Next, ClientStep, WheelStep

\* WheelHas is inductive: only ScheduleOnceTask and handleFailure use the wheel.
LEMMA WheelHasStep ==
    ASSUME TypeOK, WheelHas, [Next]_vars
    PROVE  WheelHas'
<1>1. ASSUME UNCHANGED <<wpc, wobj>>, \A o \in Objs : wheel'[o] # "idle" => wheel[o] # "idle"
      PROVE  WheelHas'
  BY <1>1 DEF WheelHas, WId
<1>2. ASSUME NEW i \in Ids, Submit(i) \/ Resubmit(i) \/ CancelBegin(i) \/ CancelStep(i)
      PROVE  WheelHas'
  <2>1. UNCHANGED <<wpc, wobj>>
    BY <1>2 DEF Submit, Resubmit, CancelBegin, CancelStep, CancelUnlink, CancelFinalize, worker
  <2>2. \A o \in Objs : wheel'[o] # "idle" => wheel[o] # "idle"
    BY <1>2 DEF Submit, Resubmit, CancelBegin, CancelStep, CancelUnlink, CancelFinalize
  <2> QED
    BY <1>1, <2>1, <2>2
<1>3. ASSUME NEW i \in Ids, ScheduleOnceTask(i) PROVE WheelHas'
  <2>1. i \in Once /\ UNCHANGED <<wpc, wobj>>
    BY <1>3 DEF ScheduleOnceTask, worker
  <2>2. \A o \in Objs : wheel'[o] # "idle" => wheel[o] # "idle" \/ Id(o) = i
    BY <1>3 DEF ScheduleOnceTask, TypeOK, Id
  <2> QED
    BY <2>1, <2>2 DEF WheelHas, WId
<1>4. ASSUME NEW o \in Objs, WheelStep(o) \/ Pop(o) PROVE WheelHas'
  <2>1. UNCHANGED <<wpc, wobj>>
    BY <1>4 DEF WheelStep, ArmOnce, WheelFire, WheelCallback, Pop, worker
  <2>2. \A p \in Objs : wheel'[p] # "idle" => wheel[p] # "idle"
    BY <1>4 DEF WheelStep, ArmOnce, WheelFire, WheelCallback, WheelSchedule, Pop, TypeOK
  <2> QED
    BY <1>1, <2>1, <2>2
<1>5. ASSUME NEW w \in Workers, Dispatch(w) \/ JobStep(w) \/ Deadline(w) PROVE WheelHas'
  <2>1. wheel' = wheel
    BY <1>5 DEF Dispatch, JobStep, JobReturns, Deadline
  <2>2. \A v \in Workers : wpc'[v] = "got" \/ (wpc'[v] = wpc[v] /\ wobj'[v] = wobj[v])
    BY <1>5 DEF Dispatch, JobStep, JobReturns, Deadline, TypeOK
  <2> QED
    BY <2>1, <2>2 DEF WheelHas, WId
<1>6. ASSUME NEW w \in Workers, WorkerStep(w) PROVE WheelHas'
  <2>1. /\ wpc[w] # "idle" /\ wobj[w] \in Objs /\ WId(w) \in Ids /\ SameHands
        /\ UNCHANGED <<wheel, gen>> \/ ArmRetry(w)
    BY <1>6, WorkerMoves
  <2>2. \A v \in Workers \ {w} : wpc'[v] = wpc[v] /\ wobj'[v] = wobj[v]
    BY <1>6, WorkerEffects
  <2>3. wpc'[w] \in {"retry", "arm"} => StrategyMax[WId(w)] > 0 /\ wobj'[w] = wobj[w]
    <3>1. CASE Decide(w)
      <4>1. wpc'[w] \in {"retry", "arm"} => attempts[wobj[w]] < StrategyMax[WId(w)]
        BY <3>1 DEF Decide, GoTo, Retries, WId, TypeOK
      <4>2. attempts[wobj[w]] \in Nat /\ StrategyMax[WId(w)] \in Nat
        BY <2>1, FieldsAssumption DEF TypeOK
      <4> QED
        BY <2>1, <4>1, <4>2 DEF SameHands
    <3>2. CASE ~Decide(w)
      <4>1. wpc'[w] \in {"retry", "arm"} => wpc[w] = "retry"
        BY <1>6, <3>2 DEF WorkerStep, MarkRunning, CheckTracked, Hook, TakeDone, TakeCtxDone,
           Succeed, FinishCancelled, Publish, PublishAs, ArmRetry, RecordFailure, Evict,
           EndRun, GoTo, TypeOK
      <4> QED
        BY <2>1, <4>1 DEF WheelHas, SameHands
    <3> QED
      BY <3>1, <3>2
  <2>4. \A o \in Objs : wheel'[o] # "idle" =>
                          wheel[o] # "idle" \/ (o[2] > 0 /\ StrategyMax[Id(o)] > 0)
    <3>1. CASE UNCHANGED wheel
      BY <3>1
    <3>2. CASE ArmRetry(w)
      <4>1. gen[WId(w)] \in Nat /\ StrategyMax[WId(w)] > 0
        BY <2>1, <3>2, BoundsAssumption DEF ArmRetry, WheelHas, TypeOK
      <4>2. PICK g \in Nat : g = gen[WId(w)] + 1 /\ g > 0
        BY <4>1
      <4>3. PICK n : n = <<WId(w), g>>
        OBVIOUS
      <4>4. WheelSchedule(n) /\ Id(n) = WId(w) /\ n[2] > 0
        BY <3>2, <4>2, <4>3 DEF ArmRetry, Id
      <4> QED
        BY <4>1, <4>4 DEF WheelSchedule
    <3> QED
      BY <2>1, <3>1, <3>2
  <2> QED
    BY <2>2, <2>3, <2>4 DEF WheelHas, WId
<1>7. ASSUME UNCHANGED vars PROVE WheelHas'
  BY <1>1, <1>7 DEF vars, worker
<1> QED
  BY <1>2, <1>3, <1>4, <1>5, <1>6, <1>7 DEF Next, ClientStep

\* What comes back from the wheel is accepted.
LEMMA CallbackAccepted ==
    ASSUME TypeOK, NeverRefused, Registered, WheelHas, NEW o \in Objs, wheel[o] # "idle"
    PROVE  Accepts(o)
<1>1. Id(o) \in Ids /\ Id(o) \notin Unregistered
  BY ObjsFacts DEF Registered, Waits
<1>2. KeySet(o) = {}
  <2>1. o[2] > 0 => o[2] # 0
    BY BoundsAssumption DEF Objs
  <2> QED
    BY <2>1 DEF WheelHas, NeverRefused, KeySet, Key
<1>3. ~QueueFull
  <2>1. Tracked \subseteq Ids /\ IsFiniteSet(Ids)
    BY SetsAssumption DEF Tracked
  <2>2. Cardinality(Tracked) <= Cardinality(Ids)
    BY <2>1, FS_Subset
  <2>3. Cardinality(Tracked) \in Nat /\ Cardinality(Ids) \in Nat
    BY <2>1, FS_Subset, FS_CardinalityType
  <2> QED
    BY <2>2, <2>3, BoundsAssumption DEF QueueFull, NeverRefused
<1> QED
  BY <1>1, <1>2, <1>3 DEF Accepts, KeyBusy

\* A step that shows the task in no new live status and loses nothing of it.
LEMMA NotStuckStill ==
    ASSUME NEW j \in Ids, NotStuck(j),
           tasks'[j] # Nil /\ status'[tasks'[j]] \in Live =>
               \/ OnWay(j)'
               \/ /\ tasks'[j] = tasks[j] /\ status'[tasks[j]] = status[tasks[j]]
                  /\ OnWay(j) => OnWay(j)'
    PROVE  NotStuck(j)'
  BY DEF NotStuck

\* The critical section of Submit, called by a client or by the wheel.
LEMMA SubmitNotStuck ==
    ASSUME TypeOK, Registered, NEW j \in Ids, NotStuck(j), NEW n \in Objs, SubmitTask(n),
           UNCHANGED <<dq, wpc, wobj>>,
           \A o \in Objs : wheel[o] # "idle" => wheel'[o] # "idle" \/ (o = n /\ Accepts(n))
    PROVE  NotStuck(j)'
<1>1. CASE Accepts(n)
  <2>1. /\ tasks' = [tasks EXCEPT ![Id(n)] = n] /\ queue' = [queue EXCEPT ![n] = @ + 1]
        /\ status' = [status EXCEPT ![n] = "Queued"]
    BY <1>1 DEF SubmitTask, Accepts
  <2>2. queue'[n] > 0 /\ \A o \in Objs : queue[o] > 0 => queue'[o] > 0
    BY <2>1 DEF TypeOK
  <2>3. CASE Id(n) = j
    BY <2>2, <2>3, NotStuckStill DEF OnWay, Waits
  <2>4. CASE Id(n) # j
    <3>1. \A o \in Objs : Id(o) = j /\ Waits(o) => Waits(o)'
      BY <2>2, <2>4 DEF Waits
    <3>2. OnWay(j) => OnWay(j)'
      BY <3>1 DEF OnWay, WId
    <3>3. tasks'[j] = tasks[j] /\ (tasks[j] # Nil => status'[tasks[j]] = status[tasks[j]])
      BY <2>1, <2>4, ObjsFacts DEF TypeOK
    <3> QED
      BY <3>2, <3>3, NotStuckStill
  <2> QED
    BY <2>3, <2>4
<1>2. CASE ~Accepts(n)
  <2>1. UNCHANGED <<tasks, queue>> /\ (UNCHANGED status \/ Id(n) \in Unregistered)
    BY <1>2 DEF SubmitTask
  <2>2. \A o \in Objs : Waits(o) => Waits(o)'
    BY <1>2, <2>1 DEF Waits
  <2>3. OnWay(j) => OnWay(j)'
    BY <2>2 DEF OnWay, WId
  <2>4. tasks[j] # Nil => status'[tasks[j]] = status[tasks[j]]
    <3>1. CASE UNCHANGED status
      BY <3>1
    <3>2. CASE Id(n) \in Unregistered
      <4>1. tasks[j] # Nil => tasks[j] # n
        BY <3>2 DEF Registered, TypeOK
      <4> QED
        BY <4>1 DEF SubmitTask, TypeOK
    <3> QED
      BY <2>1, <3>1, <3>2
  <2> QED
    BY <2>1, <2>3, <2>4, NotStuckStill
<1> QED
  BY <1>1, <1>2

\* The steps of a worker: it stays on the way until it has set a status that is
\* not live, or has found the task gone or Cancelled.
LEMMA WorkerNotStuck ==
    ASSUME TypeOK, NEW j \in Ids, NotStuck(j), NEW w \in Workers, WorkerStep(w)
    PROVE  NotStuck(j)'
<1>1. /\ wpc[w] # "idle" /\ wobj[w] \in Objs /\ WId(w) \in Ids /\ UNCHANGED <<queue, dq>>
      /\ UNCHANGED <<wheel, gen>> \/ ArmRetry(w)
  BY WorkerMoves
<1>2. \A v \in Workers \ {w} : wpc'[v] = wpc[v] /\ wobj'[v] = wobj[v]
  BY WorkerEffects
<1>3. \A o \in Objs : Id(o) # WId(w) => status'[o] = status[o]
  BY WorkerEffects
<1>4. \A pc : GoTo(w, pc) => wpc'[w] = pc
  BY DEF GoTo, TypeOK
<1> DEFINE Way == Active \union {"ok", "cancelled"}
<1>5. ASSUME wpc'[w] \in Way, wobj' = wobj, WId(w) = j PROVE NotStuck(j)'
  <2>1. OnWay(j)'
    BY <1>5 DEF OnWay, WId
  <2> QED
    BY <2>1 DEF NotStuck
<1>6. ASSUME WId(w) = j, ArmRetry(w) PROVE NotStuck(j)'
  <2>1. PICK n \in Objs : n = <<WId(w), gen[WId(w)] + 1>>
    BY <1>1, <1>6, ObjsFacts DEF ArmRetry, TypeOK
  <2>2. WheelSchedule(n) /\ Id(n) = j
    BY <1>6, <2>1 DEF ArmRetry, Id
  <2>3. Waits(n)'
    BY <2>2 DEF WheelSchedule, Waits
  <2> QED
    BY <2>2, <2>3 DEF NotStuck, OnWay
<1>7. ASSUME WId(w) = j, Succeed(w) \/ FinishCancelled(w) \/ PublishAs(w, "dead", "Dead", "record")
               \/ PublishAs(w, "failed", "Failed", "record")
      PROVE  NotStuck(j)'
  <2>1. tasks'[j] = tasks[j]
    BY <1>7 DEF Succeed, FinishCancelled, PublishAs, table
  <2>2. tasks[j] # Nil => status'[tasks[j]] \in {"Succeeded", "Cancelled", "Dead", "Failed"}
    <3> SUFFICES ASSUME NEW o \in Objs, o = tasks[j]
                 PROVE  status'[o] \in {"Succeeded", "Cancelled", "Dead", "Failed"}
      BY DEF TypeOK
    <3>1. \A st : /\ SetTracked(status, j, st)[o] = st
                  /\ SetTracked(status, j, st) \in [Objs -> Status \union {st}]
      BY DEF SetTracked, TypeOK
    <3>2. CASE Succeed(w)
      BY <1>1, <1>7, <3>1, <3>2 DEF Succeed
    <3>3. CASE FinishCancelled(w)
      BY <1>7, <3>1, <3>3 DEF FinishCancelled
    <3>4. CASE PublishAs(w, "dead", "Dead", "record") \/ PublishAs(w, "failed", "Failed", "record")
      BY <1>7, <3>1, <3>4 DEF PublishAs
    <3> QED
      BY <1>7, <3>2, <3>3, <3>4
  <2> QED
    BY <2>1, <2>2 DEF NotStuck, Live
<1>8. ASSUME WId(w) = j, RecordFailure(w) \/ Evict(w) PROVE NotStuck(j)'
  <2>1. /\ wpc[w] \notin Way /\ UNCHANGED <<wheel, status>>
        /\ tasks'[j] = tasks[j] \/ tasks'[j] = Nil
    BY <1>1, <1>8 DEF RecordFailure, Evict, table, objects, Active, TypeOK
  <2>2. OnWay(j) => OnWay(j)'
    BY <1>1, <1>2, <2>1 DEF OnWay, Waits, WId
  <2> QED
    BY <2>1, <2>2, NotStuckStill
<1>9. ASSUME WId(w) = j, CheckTracked(w) \/ Hook(w), wpc'[w] \notin Way PROVE NotStuck(j)'
  <2>1. tasks'[j] = Nil \/ (tasks'[j] = tasks[j] /\ status'[tasks[j]] = "Cancelled")
    <3>1. CASE CheckTracked(w)
      BY <1>1, <1>4, <1>9, <3>1 DEF CheckTracked, Active, TypeOK
    <3>2. CASE Hook(w)
      BY <1>1, <1>4, <1>9, <3>2 DEF Hook, CancelledBeforeHook, Active, table, TypeOK
    <3> QED
      BY <1>9, <3>1, <3>2
  <2> QED
    BY <2>1 DEF NotStuck, Live
<1>10. CASE WId(w) # j
  <2>1. tasks'[j] = tasks[j]
    BY <1>1, <1>10 DEF WorkerStep, MarkRunning, CheckTracked, Hook, TakeDone, TakeCtxDone, Succeed,
       FinishCancelled, Decide, Publish, PublishAs, ArmRetry, RecordFailure, Evict, table, TypeOK
  <2>2. tasks[j] # Nil => status'[tasks[j]] = status[tasks[j]]
    BY <1>3, <1>10 DEF TypeOK
  <2>3. \A o \in Objs : Id(o) = j => wheel'[o] = wheel[o]
    <3>1. ASSUME ArmRetry(w), NEW n, n = <<WId(w), gen[WId(w)] + 1>>
          PROVE  \A o \in Objs : Id(o) = j => wheel'[o] = wheel[o]
      <4>1. WheelSchedule(n) /\ Id(n) # j
        BY <1>10, <3>1 DEF ArmRetry, Id
      <4> QED
        BY <4>1 DEF WheelSchedule
    <3> QED
      BY <1>1, <3>1
  <2>4. OnWay(j) => OnWay(j)'
    <3>1. \A o \in Objs : Id(o) = j /\ Waits(o) => Waits(o)'
      BY <1>1, <2>3 DEF Waits
    <3>2. \A v \in Workers : WId(v) = j => v # w
      BY <1>10
    <3> QED
      BY <1>2, <3>1, <3>2 DEF OnWay, WId
  <2> QED
    BY <2>1, <2>2, <2>4, NotStuckStill
<1>11. CASE WId(w) = j
  <2>1. CASE MarkRunning(w)
    BY <1>4, <1>5, <1>11, <2>1 DEF MarkRunning, Active
  <2>2. CASE CheckTracked(w) \/ Hook(w)
    <3>1. CASE wpc'[w] \in Way
      <4>1. wobj' = wobj
        BY <2>2, <3>1, HookEffects DEF EndRun, Active, TypeOK
      <4> QED
        BY <1>5, <1>11, <3>1, <4>1
    <3> QED
      BY <1>9, <1>11, <2>2, <3>1
  <2>3. CASE TakeDone(w)
    BY <1>4, <1>5, <1>11, <2>3 DEF TakeDone, Active
  <2>4. CASE TakeCtxDone(w)
    BY <1>4, <1>5, <1>11, <2>4 DEF TakeCtxDone, Active
  <2>5. CASE Decide(w)
    BY <1>4, <1>5, <1>11, <2>5 DEF Decide, Active
  <2>6. CASE PublishAs(w, "retry", "Retrying", "arm")
    BY <1>4, <1>5, <1>11, <2>6 DEF PublishAs, Active
  <2> QED
    BY <1>6, <1>7, <1>8, <1>11, <2>1, <2>2, <2>3, <2>4, <2>5, <2>6 DEF WorkerStep, Publish
<1> QED
  BY <1>10, <1>11

\* Every step, for one task.
LEMMA NotStuckStep ==
    ASSUME TypeOK, NeverRefused, CancelsOutsideWheel, Registered, WheelHas, CancelsOwn,
           [Next]_vars, NEW j \in Ids, NotStuck(j)
    PROVE  NotStuck(j)'
<1>1. ASSUME NEW i \in Ids, Submit(i) PROVE NotStuck(j)'
  BY <1>1, ObjsFacts, SubmitNotStuck DEF Submit, worker
<1>2. ASSUME NEW i \in Ids, ScheduleOnceTask(i) PROVE NotStuck(j)'
  <2>1. UNCHANGED <<queue, dq, wpc, wobj, status>>
    BY <1>2 DEF ScheduleOnceTask, worker, objects
  <2>2. PICK n \in Objs : n = <<i, 0>> /\ Id(n) = i
    BY ObjsFacts DEF Id
  <2>3. tasks' = [tasks EXCEPT ![i] = n] /\ wheel' = [wheel EXCEPT ![n] = "arming"]
    BY <1>2, <2>2 DEF ScheduleOnceTask
  <2>4. Waits(n)' /\ \A o \in Objs : Waits(o) => Waits(o)'
    BY <2>1, <2>3 DEF Waits, TypeOK
  <2>5. OnWay(j) \/ i = j => OnWay(j)'
    BY <2>1, <2>2, <2>4 DEF OnWay, WId
  <2>6. i # j => tasks'[j] = tasks[j]
    BY <2>3 DEF TypeOK
  <2> QED
    BY <2>1, <2>5, <2>6, NotStuckStill
<1>3. ASSUME NEW i \in Ids, Resubmit(i) PROVE NotStuck(j)'
  <2>1. UNCHANGED <<tasks, dq, wpc, wobj, wheel>> /\ tasks[i] # Nil
    BY <1>3 DEF Resubmit, table, worker
  <2>2. PICK n \in Objs : n = tasks[i] /\ Id(n) = i
    BY <2>1 DEF TypeOK
  <2>3. queue' = [queue EXCEPT ![n] = @ + 1] /\ status' = [status EXCEPT ![n] = "Queued"]
    BY <1>3, <2>2 DEF Resubmit
  <2>4. Waits(n)' /\ \A o \in Objs : Waits(o) => Waits(o)'
    BY <2>1, <2>3 DEF Waits, TypeOK
  <2>5. OnWay(j) \/ i = j => OnWay(j)'
    BY <2>1, <2>2, <2>4 DEF OnWay, WId
  <2>6. i # j /\ tasks[j] # Nil => status'[tasks[j]] = status[tasks[j]]
    BY <2>2, <2>3 DEF TypeOK
  <2> QED
    BY <2>1, <2>5, <2>6, NotStuckStill
<1>4. ASSUME NEW i \in Ids, CancelBegin(i) PROVE NotStuck(j)'
  <2>1. UNCHANGED <<tasks, queue, dq, wheel, wpc, wobj>>
    BY <1>4 DEF CancelBegin, table
  <2>2. OnWay(j) => OnWay(j)'
    BY <2>1 DEF OnWay, Waits, WId
  <2>3. i = j /\ tasks[j] # Nil => status'[tasks[j]] \notin Live
    BY <1>4 DEF CancelBegin, Terminal, Live, TypeOK
  <2>4. i # j /\ tasks[j] # Nil => status'[tasks[j]] = status[tasks[j]]
    BY <1>4 DEF CancelBegin, TypeOK
  <2> QED
    BY <2>1, <2>2, <2>3, <2>4, NotStuckStill
<1>5. ASSUME NEW i \in Ids, CancelUnlink(i) PROVE NotStuck(j)'
  <2>1. UNCHANGED <<tasks, queue, dq, wpc, wobj, status>>
    BY <1>5 DEF CancelUnlink, table, worker, objects
  <2>2. i \in Cancellable
    BY <1>5 DEF CancelUnlink, CancelsOwn
  <2>3. \A o \in Objs : Id(o) = i => wheel[o] = "idle"
    BY <2>2 DEF CancelsOutsideWheel, WheelHas
  <2>4. \A o \in Objs : wheel'[o] = wheel[o]
    BY <1>5, <2>3 DEF CancelUnlink
  <2>5. OnWay(j) => OnWay(j)'
    BY <2>1, <2>4 DEF OnWay, Waits, WId
  <2> QED
    BY <2>1, <2>5, NotStuckStill
<1>6. ASSUME NEW i \in Ids, CancelFinalize(i) PROVE NotStuck(j)'
  <2>1. /\ UNCHANGED <<queue, dq, wheel, wpc, wobj, status>>
        /\ tasks'[j] = tasks[j] \/ tasks'[j] = Nil
    BY <1>6 DEF CancelFinalize, worker, objects, TypeOK
  <2>2. OnWay(j) => OnWay(j)'
    BY <2>1 DEF OnWay, Waits, WId
  <2> QED
    BY <2>1, <2>2, NotStuckStill
<1>7. ASSUME NEW o \in Objs, ArmOnce(o) \/ WheelFire(o) PROVE NotStuck(j)'
  <2>1. UNCHANGED <<tasks, queue, dq, wpc, wobj, status>>
    BY <1>7 DEF ArmOnce, WheelFire, table, worker, objects
  <2>2. wheel'[o] # "idle" /\ \A p \in Objs : Id(p) # Id(o) => wheel'[p] = wheel[p]
    BY <1>7 DEF ArmOnce, WheelFire, WheelSchedule, TypeOK
  <2>3. Waits(o)' /\ \A p \in Objs : Id(p) # Id(o) /\ Waits(p) => Waits(p)'
    BY <2>1, <2>2 DEF Waits
  <2>4. OnWay(j) => OnWay(j)'
    BY <2>1, <2>3 DEF OnWay, WId
  <2> QED
    BY <2>1, <2>4, NotStuckStill
<1>8. ASSUME NEW o \in Objs, WheelCallback(o) PROVE NotStuck(j)'
  <2>1. Accepts(o)
    BY <1>8, CallbackAccepted DEF WheelCallback
  <2>2. \A p \in Objs : wheel[p] # "idle" => wheel'[p] # "idle" \/ (p = o /\ Accepts(o))
    BY <1>8, <2>1 DEF WheelCallback, TypeOK
  <2> QED
    BY <1>8, <2>2, SubmitNotStuck DEF WheelCallback, worker
<1>9. ASSUME NEW o \in Objs, Pop(o) PROVE NotStuck(j)'
  <2>1. /\ UNCHANGED <<tasks, wheel, wpc, wobj, status>> /\ dq = Nil /\ dq' = o
        /\ \A p \in Objs : p # o => queue'[p] = queue[p]
    BY <1>9 DEF Pop, table, worker, objects, TypeOK
  <2>2. \A p \in Objs : Waits(p) => Waits(p)'
    BY <2>1, NilAssumption DEF Waits
  <2>3. OnWay(j) => OnWay(j)'
    BY <2>1, <2>2 DEF OnWay, WId
  <2> QED
    BY <2>1, <2>3, NotStuckStill
<1>10. ASSUME NEW w \in Workers, Dispatch(w) PROVE NotStuck(j)'
  <2>1. /\ UNCHANGED <<tasks, wheel, queue, status>> /\ wpc[w] = "idle"
        /\ wpc'[w] = "got" /\ wobj'[w] = dq
        /\ \A v \in Workers : v # w => wpc'[v] = wpc[v] /\ wobj'[v] = wobj[v]
    BY <1>10 DEF Dispatch, table, objects, TypeOK
  <2>2. \A o \in Objs : Waits(o) => Waits(o)' \/ o = dq
    BY <2>1 DEF Waits
  <2>3. OnWay(j) => OnWay(j)'
    BY <2>1, <2>2 DEF OnWay, WId, Active
  <2> QED
    BY <2>1, <2>3, NotStuckStill
<1>11. ASSUME NEW w \in Workers, JobStep(w) \/ Deadline(w) PROVE NotStuck(j)'
  <2>1. UNCHANGED <<tasks, wheel, queue, dq, wpc, wobj, status>>
    BY <1>11 DEF JobStep, JobReturns, Deadline, table, objects
  <2> QED
    BY <2>1, NotStuckStill DEF OnWay, Waits, WId
<1>12. ASSUME UNCHANGED vars PROVE NotStuck(j)'
  BY <1>12, NotStuckStill DEF vars, table, worker, objects, OnWay, Waits, WId
<1> QED
  BY <1>1, <1>2, <1>3, <1>4, <1>5, <1>6, <1>7, <1>8, <1>9, <1>10, <1>11, <1>12, WorkerNotStuck
  DEF Next, ClientStep, CancelStep, WheelStep

\* A task shown as Queued, Running or Retrying is really on its way, for any
\* number of tasks and workers, with retries, timeouts and Resubmit, provided
\* what the wheel brings back is never refused and nobody cancels what may be
\* in the wheel: these are the ways in which the code loses a task it shows.
THEOREM NeverStuck ==
    ASSUME NeverRefused, CancelsOutsideWheel
    PROVE  Spec => []NoStuckTask
<1> DEFINE Inv == /\ TypeOK /\ Registered /\ WheelHas /\ CancelsOwn /\ Undisturbed
                  /\ \A i \in Ids : NotStuck(i)
<1>1. Init => Inv
  <2> SUFFICES ASSUME Init PROVE Inv
    OBVIOUS
  <2>1. \A o \in Objs : ~Waits(o)
    BY NilAssumption DEF Init, Waits
  <2>2. Registered /\ WheelHas /\ \A i \in Ids : NotStuck(i)
    BY <2>1 DEF Init, Registered, WheelHas, NotStuck
  <2>3. CancelsOwn /\ Undisturbed
    BY DEF Init, CancelsOwn, Undisturbed
  <2> QED
    BY <2>2, <2>3, InitTypes
<1>2. Inv /\ [Next]_vars => Inv'
  <2> SUFFICES ASSUME Inv, [Next]_vars PROVE Inv'
    OBVIOUS
  <2>1. TypeOK'
    BY TypeStep
  <2>2. Registered' /\ WheelHas'
    BY RegisteredStep, WheelHasStep
  <2>3. CancelsOwn' /\ Undisturbed'
    BY UndisturbedStep
  <2>4. \A i \in Ids : NotStuck(i)'
    BY NotStuckStep
  <2> QED
    BY <2>1, <2>2, <2>3, <2>4
<1>3. Inv => NoStuckTask
  <2> SUFFICES ASSUME Inv, NEW i \in Tracked, status[tasks[i]] \in Live
               PROVE  Carriers(i) # {} \/ \E w \in Workers : Busy(w, i)
    BY DEF NoStuckTask, Live
  <2>1. OnWay(i) /\ i \in Ids
    BY DEF Tracked, NotStuck
  <2>2. \A o \in Objs : Id(o) = i /\ Waits(o) => Carriers(i) # {}
    BY <2>1, CarriersAre
  <2>3. \A w \in Workers : WId(w) = i /\ wpc[w] \in Active \union {"ok", "cancelled"} => Busy(w, i)
    BY DEF Busy, Active
  <2> QED
    BY <2>1, <2>2, <2>3 DEF OnWay
<1> QED
  BY <1>1, <1>2, <1>3, PTL DEF Spec

-----------------------------------------------------------------------------
(* Who writes what *)

\* Every write of t.status, by whom and when.
LEMMA StatusWriters ==
    ASSUME TypeOK, [Next]_vars, NEW o \in Objs, status'[o] # status[o]
    PROVE  \/ Submit(Id(o)) \/ (Resubmit(Id(o)) /\ o = tasks[Id(o)])
           \/ /\ CancelBegin(Id(o)) /\ o = tasks[Id(o)]
              /\ status[o] \notin Terminal /\ status'[o] = "Cancelled"
           \/ WheelCallback(o)
           \/ \E v \in Workers : /\ WorkerStep(v) /\ WId(v) = Id(o)
                                 /\ (o = tasks[WId(v)] \/ o = wobj[v])
                                 /\ wpc[v] # "arm" /\ wpc[v] \in Active \union {"ok", "cancelled"}
<1>1. ASSUME NEW n \in Objs, SubmitTask(n) PROVE o = n
  BY <1>1 DEF SubmitTask, TypeOK
<1>2. ASSUME NEW i \in Ids, Submit(i) PROVE i = Id(o)
  <2>1. PICK n \in Objs : n = <<i, 0>> /\ Id(n) = i
    BY ObjsFacts DEF Id
  <2> QED
    BY <1>1, <1>2, <2>1 DEF Submit
<1>3. ASSUME NEW i \in Ids, Resubmit(i) PROVE i = Id(o) /\ o = tasks[i]
  BY <1>3 DEF Resubmit, TypeOK
<1>4. ASSUME NEW i \in Ids, CancelBegin(i)
      PROVE  i = Id(o) /\ o = tasks[i] /\ status[o] \notin Terminal /\ status'[o] = "Cancelled"
  <2>1. /\ tasks[i] # Nil /\ status[tasks[i]] \notin Terminal
        /\ status' = [status EXCEPT ![tasks[i]] = "Cancelled"]
    BY <1>4 DEF CancelBegin, Terminal
  <2> QED
    BY <2>1 DEF TypeOK
<1>5. ASSUME NEW i \in Ids, ScheduleOnceTask(i) \/ CancelStep(i) PROVE FALSE
  BY <1>5 DEF ScheduleOnceTask, CancelStep, CancelUnlink, CancelFinalize, objects
<1>6. ASSUME NEW p \in Objs, WheelStep(p) \/ Pop(p) PROVE p = o /\ WheelCallback(p)
  BY <1>1, <1>6 DEF WheelStep, ArmOnce, WheelFire, WheelCallback, Pop, objects
<1>7. ASSUME NEW v \in Workers, Dispatch(v) \/ JobStep(v) \/ Deadline(v) PROVE FALSE
  BY <1>7 DEF Dispatch, JobStep, JobReturns, Deadline, objects
<1>8. ASSUME NEW v \in Workers, WorkerStep(v)
      PROVE  /\ WId(v) = Id(o) /\ (o = tasks[WId(v)] \/ o = wobj[v])
             /\ wpc[v] # "arm" /\ wpc[v] \in Active \union {"ok", "cancelled"}
  BY <1>8, HookEffects, WorkerEffects
<1>9. ~UNCHANGED vars
  BY DEF vars, objects
<1> QED
  BY <1>2, <1>3, <1>4, <1>5, <1>6, <1>7, <1>8, <1>9 DEF Next, ClientStep

\* Every write of s.tasks.
LEMMA TableWriters ==
    ASSUME TypeOK, [Next]_vars, NEW j \in Ids, tasks'[j] # tasks[j], tasks'[j] # Nil
    PROVE  \/ Submit(j) \/ ScheduleOnceTask(j)
           \/ \E o \in Objs : /\ WheelCallback(o) /\ Id(o) = j /\ tasks'[j] = o
                              /\ status'[o] = "Queued"
<1>1. ASSUME NEW n \in Objs, SubmitTask(n) PROVE Id(n) = j /\ tasks'[j] = n /\ status'[n] = "Queued"
  BY <1>1 DEF SubmitTask, TypeOK
<1>2. ASSUME NEW i \in Ids, ClientStep(i) \/ CancelStep(i) PROVE Submit(j) \/ ScheduleOnceTask(j)
  <2>1. CASE Submit(i)
    <3>1. PICK n \in Objs : n = <<i, 0>> /\ Id(n) = i
      BY ObjsFacts DEF Id
    <3> QED
      BY <1>1, <2>1, <3>1 DEF Submit
  <2>2. CASE ScheduleOnceTask(i)
    BY <2>2 DEF ScheduleOnceTask, TypeOK
  <2>3. CASE Resubmit(i) \/ CancelBegin(i) \/ CancelStep(i)
    BY <2>3 DEF Resubmit, CancelBegin, CancelStep, CancelUnlink, CancelFinalize, table, TypeOK
  <2> QED
    BY <1>2, <2>1, <2>2, <2>3 DEF ClientStep
<1>3. ASSUME NEW o \in Objs, WheelStep(o) \/ Pop(o)
      PROVE  WheelCallback(o) /\ Id(o) = j /\ tasks'[j] = o /\ status'[o] = "Queued"
  BY <1>1, <1>3 DEF WheelStep, ArmOnce, WheelFire, WheelCallback, Pop, table
<1>4. ASSUME NEW v \in Workers, Dispatch(v) \/ JobStep(v) \/ Deadline(v) PROVE FALSE
  BY <1>4 DEF Dispatch, JobStep, JobReturns, Deadline, table
<1>5. ASSUME NEW v \in Workers, WorkerStep(v) PROVE FALSE
  BY <1>5, WorkerEffects
<1>6. ~UNCHANGED vars
  BY DEF vars, table
<1> QED
  BY <1>2, <1>3, <1>4, <1>5, <1>6 DEF Next

\* A worker keeps its object and its stage, unless it takes a step itself or is
\* given an object.
LEMMA WorkerKeeps ==
    ASSUME TypeOK, [Next]_vars, NEW w \in Workers, ~WorkerStep(w), wpc'[w] # "got"
    PROVE  wpc'[w] = wpc[w] /\ wobj'[w] = wobj[w]
<1>1. ASSUME NEW i \in Ids, ClientStep(i) \/ CancelStep(i) PROVE UNCHANGED <<wpc, wobj>>
  BY <1>1 DEF ClientStep, Submit, ScheduleOnceTask, Resubmit, CancelBegin, CancelStep,
     CancelUnlink, CancelFinalize, worker
<1>2. ASSUME NEW o \in Objs, WheelStep(o) \/ Pop(o) PROVE UNCHANGED <<wpc, wobj>>
  BY <1>2 DEF WheelStep, ArmOnce, WheelFire, WheelCallback, Pop, worker
<1>3. ASSUME NEW v \in Workers, Dispatch(v) \/ JobStep(v) \/ Deadline(v)
      PROVE  wpc'[w] = wpc[w] /\ wobj'[w] = wobj[w]
  BY <1>3 DEF Dispatch, JobStep, JobReturns, Deadline, TypeOK
<1>4. ASSUME NEW v \in Workers, WorkerStep(v) PROVE wpc'[w] = wpc[w] /\ wobj'[w] = wobj[w]
  BY <1>4, WorkerEffects
<1> QED
  BY <1>1, <1>2, <1>3, <1>4 DEF Next, vars, worker

\* A task without a carrier gets one from a call only.
LEMMA GoneStays ==
    ASSUME CarrierInv, [Next]_vars, NEW j \in Ids, Carriers(j) = {},
           ~Submit(j), ~ScheduleOnceTask(j), ~Resubmit(j)
    PROVE  Carriers(j)' = {}
<1>1. Calm(j)
  BY OwnStepCalm, ClientCalm DEF Next, ClientStep
<1> QED
  BY <1>1 DEF Calm, Keeps, Moves

\* A call for a task that is tracked or has a carrier is a Resubmit.
LEMMA NotFresh ==
    ASSUME CarrierInv, NEW j \in Ids,
           tasks[j] # Nil \/ Carriers(j) # {} \/ \E w \in Workers : Busy(w, j)
    PROVE  ~Submit(j) /\ ~ScheduleOnceTask(j)
  BY DEF CarrierInv, Fresh, Submit, ScheduleOnceTask

-----------------------------------------------------------------------------
(* Final statuses stick *)

Final == {"Succeeded", "Failed", "Dead"}

\* Stages in which a worker is about to set the last status of its task.
Closing == {"ok", "cancelled"}

\* A task that a worker closes is closed by nobody else, and is not closed yet.
Closes(i) ==
    \A w \in Workers : wpc[w] \in Closing /\ WId(w) = i =>
        /\ Carriers(i) = {}
        /\ tasks[i] # Nil => status[tasks[i]] \notin Final
        /\ \A v \in Workers : wpc[v] \in Closing /\ WId(v) = i => v = w

\* A task shown with a final status has no carrier.
Settled(i) == tasks[i] # Nil /\ status[tasks[i]] \in Final => Carriers(i) = {}

\* A worker closes a task when its job is over; without timeouts it has not
\* touched the status by then, but for Cancelled.
LEMMA BeginsToClose ==
    ASSUME CarrierInv, Timeouts = {}, [Next]_vars, NEW w \in Workers, wpc'[w] \in Closing
    PROVE  \/ wpc[w] \in Closing /\ wobj'[w] = wobj[w]
           \/ /\ WorkerStep(w) /\ wpc[w] = "run" /\ wobj'[w] = wobj[w] /\ UNCHANGED <<tasks, wheel>>
              /\ \A o \in Objs : status'[o] = status[o] \/ status'[o] = "Cancelled"
<1>0. TypeOK /\ ctx[w] # "deadline"
  BY DEF CarrierInv, NoDeadline
<1>1. CASE ~WorkerStep(w)
  BY <1>0, <1>1, WorkerKeeps DEF Closing
<1>2. CASE WorkerStep(w)
  <2>1. wpc[w] # "idle" /\ wobj'[w] = wobj[w] /\ wobj[w] \in Objs
    BY <1>0, <1>2, WorkerMoves DEF SameHands, Closing
  <2>2. CASE TakeDone(w)
    BY <1>2, <2>1, <2>2 DEF TakeDone, objects
  <2>3. CASE TakeCtxDone(w)
    <3>1. ctx[w] = "canceled"
      BY <1>0, <2>3 DEF TakeCtxDone, TypeOK
    <3>2. /\ status' = [status EXCEPT ![wobj[w]] = "Cancelled"]
          /\ UNCHANGED <<tasks, wheel>> /\ wpc[w] = "run"
      BY <2>3, <3>1 DEF TakeCtxDone
    <3> QED
      BY <1>0, <1>2, <2>1, <3>2 DEF TypeOK
  <2>4. CASE ~TakeDone(w) /\ ~TakeCtxDone(w)
    BY <1>0, <1>2, <2>4 DEF WorkerStep, MarkRunning, CheckTracked, Hook, Succeed,
       FinishCancelled, Decide, Publish, PublishAs, ArmRetry, RecordFailure, Evict,
       EndRun, GoTo, TypeOK, Closing
  <2> QED
    BY <2>2, <2>3, <2>4
<1> QED
  BY <1>1, <1>2

\* When its only carrier, a worker, stops being one the task has none.
LEMMA LastCarrier ==
    ASSUME CarrierInv, [Next]_vars, NEW w \in Workers, WorkerStep(w), wpc[w] \in Active,
           wpc'[w] \notin Active, wobj'[w] = wobj[w], UNCHANGED wheel,
           NEW j \in Ids, WId(w) = j
    PROVE  Carriers(j)' = {}
<1>0. TypeOK /\ OneCarrier
  BY DEF CarrierInv
<1>1. UNCHANGED <<queue, dq>>
  BY <1>0, WorkerMoves
<1>2. \A v \in Workers \ {w} : wpc'[v] = wpc[v] /\ wobj'[v] = wobj[v]
  BY <1>0, WorkerEffects
<1>3. Keeps(j)
  BY <1>0, <1>1, <1>2, NothingNew
<1> QED
  BY <1>0, <1>3, HandedOver DEF HandsOver

\* Without timeouts a worker sets a final status only when it gives the task up.
LEMMA FinalIsLast ==
    ASSUME CarrierInv, Timeouts = {}, [Next]_vars, NEW j \in Ids, Closes(j), Settled(j),
           Carriers(j) # {}, NEW v \in Workers, WorkerStep(v), WId(v) = j,
           NEW o \in Objs, status'[o] \in Final, status'[o] # status[o]
    PROVE  Carriers(j)' = {}
<1>0. TypeOK /\ ctx[v] # "deadline"
  BY DEF CarrierInv, NoDeadline
<1>1. wpc[v] \notin Closing
  BY DEF Closes
<1>2. wpc[v] \in Active /\ wobj[v] \in Objs
  BY <1>0, <1>1, HookEffects, WorkerMoves DEF Closing
<1>3. PublishAs(v, "dead", "Dead", "record") \/ PublishAs(v, "failed", "Failed", "record")
  <2>1. TakeCtxDone(v) => status' = [status EXCEPT ![wobj[v]] = "Cancelled"]
    BY <1>0 DEF TakeCtxDone, TypeOK
  <2>2. ~TakeCtxDone(v)
    BY <1>0, <2>1 DEF TypeOK, Final
  <2>3. \A st : SetTracked(status, WId(v), st)[o] \in {status[o], st}
    BY DEF SetTracked
  <2>4. ~MarkRunning(v)
    BY <2>3 DEF MarkRunning, Final
  <2>5. ~Hook(v)
    BY <2>3 DEF Hook, Final
  <2>6. ~PublishAs(v, "retry", "Retrying", "arm")
    BY <2>3 DEF PublishAs, Final
  <2> QED
    BY <1>2, <2>2, <2>4, <2>5, <2>6 DEF WorkerStep, CheckTracked, TakeDone, Succeed,
       FinishCancelled, Decide, Publish, ArmRetry, RecordFailure, Evict, objects, Active
<1>4. wpc'[v] \notin Active /\ wobj' = wobj /\ wheel' = wheel
  BY <1>0, <1>3 DEF PublishAs, GoTo, Active, TypeOK
<1> QED
  BY <1>2, <1>4, LastCarrier

\* Both are inductive without timeouts.
LEMMA SettledStep ==
    ASSUME CarrierInv, Timeouts = {}, [Next]_vars, NEW j \in Ids, Closes(j), Settled(j)
    PROVE  Closes(j)' /\ Settled(j)'
<1>0. TypeOK
  BY DEF CarrierInv
<1>1. CASE Submit(j) \/ ScheduleOnceTask(j)
  <2>1. /\ tasks[j] = Nil /\ status[<<j, 0>>] = "Queued" /\ UNCHANGED <<wpc, wobj>>
        /\ \A w \in Workers : ~Busy(w, j)
    BY <1>1 DEF CarrierInv, Fresh, Submit, ScheduleOnceTask, worker
  <2>2. PICK n \in Objs : n = <<j, 0>> /\ Id(n) = j
    BY ObjsFacts DEF Id
  <2>3. tasks'[j] = Nil \/ (tasks'[j] = n /\ status'[n] = "Queued")
    <3>1. CASE Submit(j)
      <4>1. SubmitTask(n)
        BY <2>2, <3>1 DEF Submit
      <4> QED
        BY <1>0, <2>1, <2>2, <4>1 DEF SubmitTask, TypeOK
    <3>2. CASE ScheduleOnceTask(j)
      BY <1>0, <2>1, <2>2, <3>2 DEF ScheduleOnceTask, objects, TypeOK
    <3> QED
      BY <1>1, <3>1, <3>2
  <2>4. Settled(j)'
    BY <2>3 DEF Settled, Final
  <2>5. \A w \in Workers : ~(wpc'[w] \in Closing /\ WId(w)' = j)
    BY <2>1 DEF Busy, WId, Closing
  <2> QED
    BY <2>4, <2>5 DEF Closes
<1>2. CASE Resubmit(j)
  <2>1. /\ tasks[j] # Nil /\ status[tasks[j]] \in Final /\ UNCHANGED <<wpc, wobj, tasks>>
    BY <1>2 DEF Resubmit, Resubmittable, worker, table, Final
  <2>2. PICK n \in Objs : n = tasks[j]
    BY <1>0, <2>1 DEF TypeOK
  <2>3. status'[n] = "Queued"
    BY <1>0, <1>2, <2>2 DEF Resubmit, TypeOK
  <2>4. Settled(j)'
    BY <2>1, <2>2, <2>3 DEF Settled, Final
  <2>5. \A w \in Workers : ~(wpc[w] \in Closing /\ WId(w) = j)
    BY <2>1 DEF Closes
  <2>6. \A w \in Workers : ~(wpc'[w] \in Closing /\ WId(w)' = j)
    BY <2>1, <2>5 DEF WId
  <2> QED
    BY <2>4, <2>6 DEF Closes
<1>3. CASE ~Submit(j) /\ ~ScheduleOnceTask(j) /\ ~Resubmit(j) /\ Carriers(j) = {}
  <2>1. Carriers(j)' = {}
    BY <1>3, GoneStays
  <2>2. Settled(j)'
    BY <2>1 DEF Settled
  <2>3. \A w \in Workers : wpc[w] \in Active => WId(w) # j
    BY <1>3, GoneTracks
  <2>4. ASSUME NEW w \in Workers, wpc'[w] \in Closing, WId(w)' = j
        PROVE  wpc[w] \in Closing /\ wobj'[w] = wobj[w] /\ WId(w) = j
    BY <2>3, <2>4, BeginsToClose DEF WId, Active
  <2>5. ASSUME NEW w \in Workers, wpc'[w] \in Closing, WId(w)' = j, tasks'[j] # Nil
        PROVE  status'[tasks'[j]] \notin Final
    <3>1. wpc[w] \in Closing /\ WId(w) = j
      BY <2>4, <2>5
    <3>2. \A o \in Objs : WheelCallback(o) => Id(o) # j
      BY <1>3, GoneTracks DEF WheelCallback, Waits
    <3>3. tasks'[j] = tasks[j]
      BY <1>0, <1>3, <2>5, <3>2, TableWriters
    <3>4. PICK o \in Objs : o = tasks[j] /\ Id(o) = j
      BY <1>0, <2>5, <3>3 DEF TypeOK
    <3>5. status[o] \notin Final
      BY <2>5, <3>1, <3>3, <3>4 DEF Closes
    <3>6. CASE status'[o] = status[o]
      BY <3>3, <3>4, <3>5, <3>6
    <3>7. CASE status'[o] # status[o]
      <4>1. CASE status'[o] = "Cancelled"
        BY <3>3, <3>4, <4>1 DEF Final
      <4>2. CASE \E v \in Workers : /\ WorkerStep(v) /\ WId(v) = j
                                    /\ wpc[v] \in Active \union {"ok", "cancelled"}
        <5>1. PICK v \in Workers : WorkerStep(v) /\ WId(v) = j
                                   /\ wpc[v] \in Active \union {"ok", "cancelled"}
          BY <4>2
        <5>2. v = w
          BY <2>3, <3>1, <5>1 DEF Closes, Closing
        <5>3. Succeed(w) \/ FinishCancelled(w)
          BY <3>1, <5>1, <5>2 DEF WorkerStep, MarkRunning, CheckTracked, Hook, TakeDone, TakeCtxDone,
             Decide, Publish, PublishAs, ArmRetry, RecordFailure, Evict, Closing
        <5>4. wpc'[w] = "tail"
          BY <1>0, <5>3 DEF Succeed, FinishCancelled, GoTo, TypeOK
        <5> QED
          BY <2>5, <5>4 DEF Closing
      <4> QED
        BY <1>0, <1>3, <3>2, <3>4, <3>7, <4>1, <4>2, StatusWriters
    <3> QED
      BY <3>6, <3>7
  <2>6. \A v, w \in Workers : /\ wpc'[v] \in Closing /\ WId(v)' = j
                              /\ wpc'[w] \in Closing /\ WId(w)' = j
                              => v = w
    BY <2>4 DEF Closes
  <2> QED
    BY <2>1, <2>2, <2>5, <2>6 DEF Closes
<1>4. CASE ~Submit(j) /\ ~ScheduleOnceTask(j) /\ ~Resubmit(j) /\ Carriers(j) # {}
  <2>1. /\ tasks[j] # Nil => status[tasks[j]] \notin Final
        /\ \A w \in Workers : wpc[w] \in Closing => WId(w) # j
    BY <1>4 DEF Closes, Settled
  <2>2. ASSUME tasks'[j] # Nil, status'[tasks'[j]] \in Final
        PROVE  Carriers(j)' = {}
    <3>1. tasks'[j] = tasks[j]
      BY <1>0, <1>4, <2>2, TableWriters DEF Final
    <3>2. PICK o \in Objs : o = tasks[j] /\ Id(o) = j
      BY <1>0, <2>2, <3>1 DEF TypeOK
    <3>3. status'[o] \in Final /\ status'[o] # status[o]
      BY <2>1, <2>2, <3>1, <3>2
    <3>4. ~WheelCallback(o)
      <4>1. SubmitTask(o) => status'[o] \in {status[o], "Queued"}
        BY <1>0 DEF SubmitTask, TypeOK
      <4> QED
        BY <3>3, <4>1 DEF WheelCallback, Final
    <3>5. PICK v \in Workers : WorkerStep(v) /\ WId(v) = j
      BY <1>0, <1>4, <3>2, <3>3, <3>4, StatusWriters DEF Final
    <3> QED
      BY <1>4, <3>2, <3>3, <3>5, FinalIsLast
  <2>3. ASSUME NEW w \in Workers, wpc'[w] \in Closing, WId(w)' = j
        PROVE  /\ WorkerStep(w) /\ WId(w) = j /\ Carriers(j)' = {} /\ tasks' = tasks
               /\ \A o \in Objs : status'[o] = status[o] \/ status'[o] = "Cancelled"
    <3>1. WId(w) = j /\ WorkerStep(w) /\ wpc[w] = "run" /\ wobj'[w] = wobj[w]
          /\ UNCHANGED <<tasks, wheel>>
          /\ \A o \in Objs : status'[o] = status[o] \/ status'[o] = "Cancelled"
      BY <2>1, <2>3, BeginsToClose DEF WId
    <3>2. Carriers(j)' = {}
      BY <2>3, <3>1, LastCarrier DEF Active, Closing
    <3> QED
      BY <3>1, <3>2
  <2>4. \A v, w \in Workers : /\ WorkerStep(v) /\ wpc'[v] \in Closing
                              /\ wpc'[w] \in Closing /\ WId(w)' = j
                              => w = v
    <3> SUFFICES ASSUME NEW v \in Workers, NEW w \in Workers, WorkerStep(v), w # v,
                        wpc'[w] \in Closing, WId(w)' = j
                 PROVE  FALSE
      OBVIOUS
    <3>1. wpc'[w] = wpc[w] /\ wobj'[w] = wobj[w]
      BY <1>0, WorkerEffects
    <3> QED
      BY <2>1, <3>1 DEF WId
  <2>5. ASSUME NEW w \in Workers, wpc'[w] \in Closing, WId(w)' = j, tasks'[j] # Nil
        PROVE  status'[tasks'[j]] \notin Final
    <3>1. tasks' = tasks /\ tasks[j] \in Objs
      BY <1>0, <2>3, <2>5 DEF TypeOK
    <3> QED
      BY <2>1, <2>3, <2>5, <3>1 DEF Final
  <2> QED
    BY <2>2, <2>3, <2>4, <2>5 DEF Closes, Settled
<1> QED
  BY <1>1, <1>2, <1>3, <1>4

\* A tracked task leaves Succeeded, Failed and Dead only through Resubmit, for
\* any number of tasks, workers, retries, cancellations and resubmissions,
\* provided no task has a timeout: a run that times out shows Failed before
\* handleFailure decides.
THEOREM FinalSticks ==
    ASSUME Timeouts = {}
    PROVE  Spec => TerminalSticks
<1> DEFINE Inv == CarrierInv /\ \A i \in Ids : Closes(i) /\ Settled(i)
<1> DEFINE Sticks == \A i \in Ids :
          /\ tasks[i] # Nil /\ tasks'[i] = tasks[i]
          /\ status[tasks[i]] \in {"Succeeded", "Failed", "Dead"}
          => \/ status'[tasks[i]] = status[tasks[i]]
             \/ resubmits'[i] > resubmits[i]
<1>1. Init => Inv
  BY CarrierInvInit DEF Init, Closes, Settled, Closing
<1>2. Inv /\ [Next]_vars => Inv'
  <2> SUFFICES ASSUME Inv, [Next]_vars PROVE Inv'
    OBVIOUS
  <2>1. CarrierInv'
    BY CarrierInvStep
  <2>2. \A i \in Ids : Closes(i)' /\ Settled(i)'
    BY SettledStep
  <2> QED
    BY <2>1, <2>2
<1>3. Inv /\ [Next]_vars => [Sticks]_vars
  <2> SUFFICES ASSUME Inv, [Next]_vars, NEW j \in Ids, tasks[j] # Nil, tasks'[j] = tasks[j],
                      status[tasks[j]] \in Final, status'[tasks[j]] # status[tasks[j]]
               PROVE  resubmits'[j] > resubmits[j]
    BY DEF Final
  <2>0. TypeOK
    BY DEF CarrierInv
  <2>1. PICK o \in Objs : o = tasks[j] /\ Id(o) = j
    BY <2>0 DEF TypeOK
  <2>2. Carriers(j) = {} /\ ~Submit(j) /\ ~ScheduleOnceTask(j)
    BY NotFresh DEF Settled
  <2>3. ~WheelCallback(o)
    BY <2>1, <2>2, GoneTracks DEF WheelCallback, Waits
  <2>4. \A w \in Workers : wpc[w] \in Active \union {"ok", "cancelled"} => WId(w) # j
    BY <2>1, <2>2, GoneTracks DEF Closes, Closing
  <2>5. Resubmit(j)
    BY <2>0, <2>1, <2>2, <2>3, <2>4, StatusWriters DEF Final, Terminal
  <2> QED
    BY <2>0, <2>5 DEF Resubmit, TypeOK
<1> QED
  BY <1>1, <1>2, <1>3, PTL DEF Spec, TerminalSticks

-----------------------------------------------------------------------------
(* Every accepted task is recorded, once *)

\* Something or somebody still carries task i, or is about to record it.
Ahead(i) ==
    \/ \E o \in Objs : Id(o) = i /\ Waits(o)
    \/ \E w \in Workers : WId(w) = i /\ wpc[w] \in Active \union {"ok", "record"}

Finishes(w, i) == wpc[w] \in {"ok", "record"} /\ WId(w) = i

\* An accepted task has been recorded, once, exactly when nothing of it is ahead;
\* one worker at most is about to record it, with the status the task has.
Recorded(i) ==
    /\ \/ history[i] = <<>>
       \/ (\E st \in Terminal : history[i] = <<st>>) /\ ~Ahead(i) /\ outcome[i] = "accepted"
    /\ outcome[i] = "accepted" /\ history[i] = <<>> => Ahead(i)
    /\ \A v, w \in Workers : Finishes(v, i) /\ Finishes(w, i) => v = w
    /\ \A w \in Workers : wpc[w] = "record" /\ WId(w) = i => status[wobj[w]] \in Defeated

\* How a worker comes to record a task.
LEMMA BeginsToFinish ==
    ASSUME TypeOK, [Next]_vars, NEW w \in Workers, wpc'[w] \in {"ok", "record"}
    PROVE  /\ wobj'[w] = wobj[w] /\ wobj[w] \in Objs
           /\ \/ wpc'[w] = wpc[w] /\ ~WorkerStep(w)
              \/ /\ WorkerStep(w) /\ wpc[w] \in Active
                 /\ wpc'[w] = "record" => \E st \in Defeated :
                                             status' = SetTracked(status, WId(w), st)
<1>1. CASE ~WorkerStep(w)
  <2>1. wpc'[w] = wpc[w] /\ wobj'[w] = wobj[w]
    BY <1>1, WorkerKeeps
  <2> QED
    BY <1>1, <2>1 DEF TypeOK
<1>2. CASE WorkerStep(w)
  <2>1. wobj'[w] = wobj[w] /\ wobj[w] \in Objs
    BY <1>2, WorkerMoves DEF SameHands
  <2>2. \A pc : GoTo(w, pc) => wpc'[w] = pc
    BY DEF GoTo, TypeOK
  <2>3. CASE TakeDone(w)
    BY <1>2, <2>1, <2>2, <2>3 DEF TakeDone, Active
  <2>4. CASE Publish(w)
    BY <1>2, <2>1, <2>2, <2>4 DEF Publish, PublishAs, Active, Defeated
  <2>5. CASE ~TakeDone(w) /\ ~Publish(w)
    BY <1>2, <2>2, <2>5 DEF WorkerStep, MarkRunning, CheckTracked, Hook, TakeCtxDone, Succeed,
       FinishCancelled, Decide, ArmRetry, RecordFailure, Evict, EndRun, TypeOK
  <2> QED
    BY <2>3, <2>4, <2>5
<1> QED
  BY <1>1, <1>2

\* Who writes to history, when nobody cancels the task.
LEMMA HistoryWriters ==
    ASSUME TrackInv, [Next]_vars, NEW j \in Ids, j \notin Cancellable, history'[j] # history[j]
    PROVE  \E w \in Workers :
              /\ WorkerStep(w) /\ Finishes(w, j) /\ wpc'[w] = "tail"
              /\ \E st : /\ history'[j] = Append(history[j], st)
                         /\ st = "Succeeded" \/ (wpc[w] = "record" /\ st = status[wobj[w]])
<1>0. TypeOK
  BY DEF TrackInv, CarrierInv
<1>1. ASSUME NEW i \in Ids, ClientStep(i) \/ CancelStep(i) PROVE FALSE
  <2>1. CASE CancelFinalize(i)
    <3>1. i # j
      BY <2>1 DEF CancelFinalize, TrackInv, CancelsOwn
    <3> QED
      BY <1>0, <2>1, <3>1 DEF CancelFinalize, Record, TypeOK
  <2> QED
    BY <1>1, <2>1 DEF ClientStep, Submit, ScheduleOnceTask, Resubmit, CancelBegin, CancelStep,
       CancelUnlink
<1>2. ASSUME NEW o \in Objs, WheelStep(o) \/ Pop(o) PROVE FALSE
  BY <1>2 DEF WheelStep, ArmOnce, WheelFire, WheelCallback, Pop
<1>3. ASSUME NEW v \in Workers, Dispatch(v) \/ JobStep(v) \/ Deadline(v) PROVE FALSE
  BY <1>3 DEF Dispatch, JobStep, JobReturns, Deadline
<1>4. ~UNCHANGED vars
  BY DEF vars
<1>5. PICK w \in Workers : WorkerStep(w)
  BY <1>1, <1>2, <1>3, <1>4 DEF Next
<1>6. wpc[w] # "idle" /\ wobj[w] \in Objs /\ WId(w) \in Ids
  BY <1>0, <1>5, WorkerMoves
<1>7. WId(w) = j
  BY <1>0, <1>5, <1>6 DEF WorkerStep, MarkRunning, CheckTracked, Hook, TakeDone, TakeCtxDone,
     Succeed, FinishCancelled, Decide, Publish, PublishAs, ArmRetry, RecordFailure, Evict,
     Record, TypeOK
<1>8. \A pc : GoTo(w, pc) => wpc'[w] = pc
  BY <1>0 DEF GoTo, TypeOK
<1>9. CASE Succeed(w)
  BY <1>0, <1>5, <1>7, <1>8, <1>9 DEF Succeed, Record, Finishes, TypeOK
<1>10. CASE RecordFailure(w)
  BY <1>0, <1>5, <1>7, <1>8, <1>10 DEF RecordFailure, Record, Finishes, TypeOK
<1>11. CASE CheckTracked(w)
  <2>1. tasks[j] # Nil => status[tasks[j]] # "Cancelled"
    BY <1>0 DEF TrackInv, Undisturbed, TypeOK
  <2> QED
    BY <1>7, <1>11, <2>1 DEF CheckTracked
<1>12. ~FinishCancelled(w)
  BY <1>6, <1>7 DEF FinishCancelled, TrackInv, Undisturbed
<1> QED
  BY <1>5, <1>9, <1>10, <1>11, <1>12 DEF WorkerStep, MarkRunning, Hook, TakeDone, TakeCtxDone,
     Decide, Publish, PublishAs, ArmRetry, Evict

\* A worker does not drop a task that nobody cancels before it has recorded it.
LEMMA WorkerStaysAhead ==
    ASSUME TrackInv, NEW j \in Ids, j \notin Cancellable, Ahead(j), history'[j] = history[j],
           NEW w \in Workers, WorkerStep(w)
    PROVE  Ahead(j)'
<1>0. TypeOK
  BY DEF TrackInv, CarrierInv
<1>1. /\ wpc[w] # "idle" /\ wobj[w] \in Objs /\ WId(w) \in Ids /\ UNCHANGED <<queue, dq>>
      /\ UNCHANGED <<wheel, gen>> \/ ArmRetry(w)
  BY <1>0, WorkerMoves
<1>2. \A v \in Workers \ {w} : wpc'[v] = wpc[v] /\ wobj'[v] = wobj[v]
  BY <1>0, WorkerEffects
<1>3. \A pc : GoTo(w, pc) => wpc'[w] = pc
  BY <1>0 DEF GoTo, TypeOK
<1> DEFINE Way == Active \union {"ok", "record"}
<1>4. ASSUME wpc'[w] \in Way, wobj' = wobj, WId(w) = j PROVE Ahead(j)'
  BY <1>4 DEF Ahead, WId
<1>5. ASSUME WId(w) # j \/ wpc[w] \notin Way, ~ArmRetry(w) PROVE Ahead(j)'
  <2>1. \A o \in Objs : Waits(o) => Waits(o)'
    BY <1>1, <1>5 DEF Waits
  <2>2. \A v \in Workers : WId(v) = j /\ wpc[v] \in Way => v # w
    BY <1>5
  <2> QED
    BY <1>2, <2>1, <2>2 DEF Ahead, WId
<1>6. CASE ArmRetry(w)
  <2>1. PICK n \in Objs : n = <<WId(w), gen[WId(w)] + 1>>
    BY <1>0, <1>1, <1>6, ObjsFacts DEF ArmRetry, TypeOK
  <2>2. WheelSchedule(n) /\ Id(n) = WId(w)
    BY <1>6, <2>1 DEF ArmRetry, Id
  <2>3. Waits(n)' /\ \A o \in Objs : Id(o) # WId(w) => wheel'[o] = wheel[o]
    BY <2>2 DEF WheelSchedule, Waits
  <2>4. \A o \in Objs : Id(o) # WId(w) /\ Waits(o) => Waits(o)'
    BY <1>1, <2>3 DEF Waits
  <2>5. CASE WId(w) = j
    BY <2>2, <2>3, <2>5 DEF Ahead
  <2>6. CASE WId(w) # j
    <3>1. \A v \in Workers : WId(v) = j => v # w
      BY <2>6
    <3> QED
      BY <1>2, <2>4, <2>6, <3>1 DEF Ahead, WId
  <2> QED
    BY <2>5, <2>6
<1>7. CASE WId(w) = j /\ wpc[w] \in Way /\ ~ArmRetry(w)
  <2>1. ~Succeed(w) /\ ~RecordFailure(w)
    <3>1. history[j] \in Seq(Status)
      BY <1>0 DEF TypeOK
    <3>2. \A st : Append(history[j], st) # history[j]
      <4>1. \A st : Len(Append(history[j], st)) = Len(history[j]) + 1 /\ Len(history[j]) \in Nat
        BY <3>1
      <4> QED
        BY <4>1
    <3> QED
      BY <1>0, <1>7, <3>2 DEF Succeed, RecordFailure, Record, TypeOK
  <2>2. /\ wpc[w] \in Active => tasks[j] = wobj[w]
        /\ status[wobj[w]] # "Cancelled" /\ ctx[w] # "canceled"
        /\ wpc[w] # "cancelled"
    BY <1>1, <1>7 DEF TrackInv, Tracks, Undisturbed, WId
  <2>3. wobj[w] # Nil
    BY <1>1, NilAssumption
  <2>4. CASE CheckTracked(w)
    BY <1>3, <1>4, <1>7, <2>2, <2>3, <2>4 DEF CheckTracked, Active
  <2>5. CASE Hook(w)
    BY <1>3, <1>4, <1>7, <2>2, <2>3, <2>5 DEF Hook, CancelledBeforeHook, Active
  <2>6. CASE TakeCtxDone(w)
    BY <1>3, <1>4, <1>7, <2>2, <2>3, <2>6 DEF TakeCtxDone, Active
  <2>7. CASE MarkRunning(w) \/ TakeDone(w) \/ Decide(w)
    BY <1>3, <1>4, <1>7, <2>7 DEF MarkRunning, TakeDone, Decide, Active
  <2>8. CASE Publish(w)
    BY <1>3, <1>4, <1>7, <2>8 DEF Publish, PublishAs, Active
  <2>9. ~FinishCancelled(w) /\ ~Evict(w)
    BY <1>7, <2>2 DEF FinishCancelled, Evict, Active
  <2> QED
    BY <1>7, <2>1, <2>4, <2>5, <2>6, <2>7, <2>8, <2>9 DEF WorkerStep
<1> QED
  BY <1>5, <1>6, <1>7

\* Nobody loses a task that nobody cancels before it is recorded.
LEMMA StaysAhead ==
    ASSUME TrackInv, NeverRefused, Registered, WheelHas, [Next]_vars,
           NEW j \in Ids, j \notin Cancellable, Ahead(j), history'[j] = history[j]
    PROVE  Ahead(j)'
<1>0. TypeOK
  BY DEF TrackInv, CarrierInv
<1>1. ASSUME UNCHANGED <<wpc, wobj>>,
             \A o \in Objs : Id(o) = j /\ Waits(o) => \E p \in Objs : Id(p) = j /\ Waits(p)'
      PROVE  Ahead(j)'
  BY <1>1 DEF Ahead, WId
<1>2. ASSUME NEW n \in Objs, SubmitTask(n)
      PROVE  \A o \in Objs : queue[o] > 0 \/ (o = n /\ Accepts(n)) => queue'[o] > 0
  BY <1>0, <1>2 DEF SubmitTask, Accepts, TypeOK
<1>3. ASSUME NEW i \in Ids, Submit(i) PROVE Ahead(j)'
  <2>1. PICK n \in Objs : n = <<i, 0>>
    BY ObjsFacts
  <2>2. SubmitTask(n) /\ UNCHANGED <<wpc, wobj, wheel, dq>>
    BY <1>3, <2>1 DEF Submit, worker
  <2> QED
    BY <1>1, <1>2, <2>2 DEF Waits
<1>4. ASSUME NEW i \in Ids,
             ScheduleOnceTask(i) \/ Resubmit(i) \/ CancelBegin(i) \/ CancelFinalize(i)
      PROVE  Ahead(j)'
  <2>1. UNCHANGED <<wpc, wobj, dq>>
    BY <1>4 DEF ScheduleOnceTask, Resubmit, CancelBegin, CancelFinalize, worker
  <2>2. \A o \in Objs : /\ queue[o] > 0 => queue'[o] > 0
                        /\ wheel[o] # "idle" => wheel'[o] # "idle"
    <3>1. CASE ScheduleOnceTask(i)
      BY <1>0, <3>1 DEF ScheduleOnceTask, TypeOK
    <3>2. CASE Resubmit(i)
      BY <1>0, <3>2 DEF Resubmit, TypeOK
    <3>3. CASE CancelBegin(i) \/ CancelFinalize(i)
      BY <3>3 DEF CancelBegin, CancelFinalize
    <3> QED
      BY <1>4, <3>1, <3>2, <3>3
  <2> QED
    BY <1>1, <2>1, <2>2 DEF Waits
<1>5. ASSUME NEW i \in Ids, CancelUnlink(i) PROVE Ahead(j)'
  <2>1. UNCHANGED <<wpc, wobj, dq, queue>> /\ i # j
    BY <1>5 DEF CancelUnlink, worker, TrackInv, CancelsOwn
  <2>2. \A o \in Objs : Id(o) = j => wheel'[o] = wheel[o]
    BY <1>5, <2>1 DEF CancelUnlink
  <2> QED
    BY <1>1, <2>1, <2>2 DEF Waits
<1>6. ASSUME NEW o \in Objs, ArmOnce(o) \/ WheelFire(o) PROVE Ahead(j)'
  <2>1. UNCHANGED <<queue, dq, wpc, wobj>>
    BY <1>6 DEF ArmOnce, WheelFire, worker
  <2>2. wheel'[o] # "idle" /\ \A p \in Objs : Id(p) # Id(o) => wheel'[p] = wheel[p]
    BY <1>0, <1>6 DEF ArmOnce, WheelFire, WheelSchedule, TypeOK
  <2> QED
    BY <1>1, <2>1, <2>2 DEF Waits
<1>7. ASSUME NEW o \in Objs, WheelCallback(o) PROVE Ahead(j)'
  <2>1. SubmitTask(o) /\ Accepts(o) /\ UNCHANGED <<wpc, wobj, dq>>
    BY <1>0, <1>7, CallbackAccepted DEF WheelCallback, worker
  <2>2. \A p \in Objs : p # o => wheel'[p] = wheel[p]
    BY <1>0, <1>7 DEF WheelCallback, TypeOK
  <2> QED
    BY <1>1, <1>2, <2>1, <2>2 DEF Waits
<1>8. ASSUME NEW o \in Objs, Pop(o) PROVE Ahead(j)'
  <2>1. /\ UNCHANGED <<wheel, wpc, wobj>> /\ dq = Nil /\ dq' = o
        /\ \A p \in Objs : p # o => queue'[p] = queue[p]
    BY <1>0, <1>8 DEF Pop, worker, TypeOK
  <2> QED
    BY <1>1, <2>1, NilAssumption DEF Waits
<1>9. ASSUME NEW w \in Workers, Dispatch(w) PROVE Ahead(j)'
  <2>1. /\ UNCHANGED <<wheel, queue>> /\ wpc[w] = "idle"
        /\ wpc'[w] = "got" /\ wobj'[w] = dq
        /\ \A v \in Workers : v # w => wpc'[v] = wpc[v] /\ wobj'[v] = wobj[v]
    BY <1>0, <1>9 DEF Dispatch, TypeOK
  <2>2. \A o \in Objs : Waits(o) => Waits(o)' \/ o = dq
    BY <2>1 DEF Waits
  <2> QED
    BY <2>1, <2>2 DEF Ahead, WId, Active
<1>10. ASSUME NEW w \in Workers, JobStep(w) \/ Deadline(w) PROVE Ahead(j)'
  <2>1. UNCHANGED <<wheel, queue, dq, wpc, wobj>>
    BY <1>10 DEF JobStep, JobReturns, Deadline
  <2> QED
    BY <1>1, <2>1 DEF Waits
<1>11. ASSUME UNCHANGED vars PROVE Ahead(j)'
  BY <1>1, <1>11 DEF vars, worker, Waits
<1> QED
  BY <1>3, <1>4, <1>5, <1>6, <1>7, <1>8, <1>9, <1>10, <1>11, WorkerStaysAhead
  DEF Next, ClientStep, CancelStep, WheelStep

\* A task of which nothing is ahead stays so until it is submitted.
LEMMA NothingAhead ==
    ASSUME CarrierInv, MaxResubmits = 0, [Next]_vars, NEW j \in Ids, ~Ahead(j),
           ~Submit(j), ~ScheduleOnceTask(j)
    PROVE  ~Ahead(j)'
<1>0. TypeOK
  BY DEF CarrierInv
<1>1. Carriers(j) = {}
  BY DEF Ahead, Carriers, Waits
<1>2. ~Resubmit(j)
  BY <1>0 DEF Resubmit, TypeOK
<1>3. Carriers(j)' = {}
  BY <1>1, <1>2, GoneStays
<1>4. \A o \in Objs : Id(o) = j => ~Waits(o)'
  BY <1>3 DEF Carriers, Waits
<1>5. \A w \in Workers : wpc'[w] \in Active => WId(w)' # j
  BY <1>3 DEF Carriers
<1>6. \A w \in Workers : wpc'[w] \in {"ok", "record"} => WId(w)' # j
  <2> SUFFICES ASSUME NEW w \in Workers, wpc'[w] \in {"ok", "record"} PROVE WId(w)' # j
    OBVIOUS
  <2>1. wobj'[w] = wobj[w] /\ wpc[w] \in Active \union {"ok", "record"}
    BY <1>0, BeginsToFinish
  <2> QED
    BY <2>1 DEF Ahead, WId
<1> QED
  BY <1>4, <1>5, <1>6 DEF Ahead

\* Recorded is inductive for a task that nobody cancels.
LEMMA RecordedStep ==
    ASSUME TrackInv, NeverRefused, Registered, WheelHas, MaxResubmits = 0, [Next]_vars,
           NEW j \in Ids, j \notin Cancellable, Recorded(j)
    PROVE  Recorded(j)'
<1>0. TypeOK /\ CarrierInv
  BY DEF TrackInv, CarrierInv
<1>1. CASE Submit(j) \/ ScheduleOnceTask(j)
  <2>1. /\ outcome[j] # "accepted" /\ UNCHANGED <<wpc, wobj, dq, history>>
        /\ Carriers(j) = {} /\ \A w \in Workers : ~Busy(w, j)
    BY <1>0, <1>1 DEF CarrierInv, Fresh, Submit, ScheduleOnceTask, worker
  <2>2. history'[j] = <<>>
    BY <2>1 DEF Recorded
  <2>3. \A w \in Workers : WId(w)' = j => wpc'[w] = "idle"
    BY <2>1 DEF Busy, WId
  <2>4. PICK n \in Objs : n = <<j, 0>> /\ Id(n) = j
    BY ObjsFacts DEF Id
  <2>5. outcome'[j] = "accepted" => Waits(n)'
    <3>1. CASE Submit(j)
      <4>1. SubmitTask(n) /\ (outcome'[j] = "accepted" => Accepts(n))
        BY <1>0, <2>4, <3>1 DEF Submit, TypeOK
      <4> QED
        BY <1>0, <4>1 DEF SubmitTask, Accepts, Waits, TypeOK
    <3>2. CASE ScheduleOnceTask(j)
      BY <1>0, <2>4, <3>2 DEF ScheduleOnceTask, Waits, TypeOK
    <3> QED
      BY <1>1, <3>1, <3>2
  <2> QED
    BY <2>2, <2>3, <2>4, <2>5 DEF Recorded, Finishes, Ahead
<1>2. CASE ~Submit(j) /\ ~ScheduleOnceTask(j)
  <2>1. outcome'[j] = outcome[j]
    <3>1. ~Resubmit(j)
      BY <1>0 DEF Resubmit, TypeOK
    <3>2. Calm(j)
      BY <1>0, <1>2, <3>1, OwnStepCalm, ClientCalm DEF Next, ClientStep
    <3> QED
      BY <3>2 DEF Calm
  <2>2. \A w \in Workers : Finishes(w, j) => Carriers(j) = {}
    BY DEF TrackInv, Leaves, Finishes
  <2>3. \A w \in Workers : Finishes(w, j)' =>
           /\ wobj'[w] = wobj[w] /\ wobj[w] \in Objs /\ WId(w) = j
           /\ \/ Finishes(w, j) /\ ~WorkerStep(w) /\ wpc'[w] = wpc[w]
              \/ /\ WorkerStep(w) /\ wpc[w] \in Active
                 /\ wpc'[w] = "record" => \E st \in Defeated :
                                             status' = SetTracked(status, WId(w), st)
    BY <1>0, BeginsToFinish DEF Finishes, WId
  <2>4. \A w \in Workers : wpc[w] \in Active /\ WId(w) = j => Carriers(j) # {}
    BY CarriersAre
  <2>5. \A v, w \in Workers : Finishes(v, j)' /\ Finishes(w, j)' => v = w
    <3> SUFFICES ASSUME NEW v \in Workers, NEW w \in Workers, Finishes(v, j)', Finishes(w, j)'
                 PROVE  v = w
      OBVIOUS
    <3>1. CASE Finishes(v, j) /\ Finishes(w, j)
      BY <3>1 DEF Recorded
    <3>2. CASE WorkerStep(v) /\ WorkerStep(w) /\ wpc[v] \in Active /\ wpc[w] \in Active
      <4>1. v # w => wpc'[w] = wpc[w]
        BY <1>0, <3>2, WorkerEffects
      <4> QED
        BY <3>2, <4>1 DEF Finishes, Active
    <3> QED
      BY <2>2, <2>3, <2>4, <3>1, <3>2
  <2>6. ASSUME NEW w \in Workers, wpc'[w] = "record", WId(w)' = j
        PROVE  status'[wobj'[w]] \in Defeated
    <3>1. wobj'[w] = wobj[w] /\ wobj[w] \in Objs /\ WId(w) = j
      BY <2>3, <2>6 DEF Finishes
    <3>2. CASE WorkerStep(w) /\ wpc[w] \in Active
      <4>1. tasks[WId(w)] = wobj[w]
        BY <3>1, <3>2 DEF TrackInv, Tracks
      <4>2. PICK st \in Defeated : status' = SetTracked(status, WId(w), st)
        BY <2>3, <2>6, <3>2 DEF Finishes, Active
      <4> QED
        BY <3>1, <4>1, <4>2 DEF SetTracked
    <3>3. CASE ~WorkerStep(w) /\ wpc[w] = "record"
      <4>1. PICK o \in Objs : o = wobj[w] /\ Id(o) = j
        BY <3>1 DEF WId
      <4>2. status[o] \in Defeated /\ Carriers(j) = {}
        BY <2>2, <3>1, <3>3, <4>1 DEF Recorded, Finishes
      <4>3. status'[o] = status[o]
        <5> SUFFICES ASSUME status'[o] # status[o] PROVE FALSE
          OBVIOUS
        <5>1. ~Resubmit(j) /\ ~CancelBegin(j)
          BY <1>0 DEF Resubmit, CancelBegin, TypeOK
        <5>2. ~WheelCallback(o)
          BY <4>1, <4>2, GoneTracks DEF WheelCallback, Waits
        <5>3. PICK v \in Workers : /\ WorkerStep(v) /\ WId(v) = j
                                   /\ wpc[v] \in Active \union {"ok", "cancelled"}
          BY <1>0, <1>2, <4>1, <5>1, <5>2, StatusWriters
        <5>4. wpc[v] \notin Active /\ wpc[v] # "cancelled"
          BY <2>4, <4>2, <5>3 DEF TrackInv, Undisturbed
        <5>5. v = w
          BY <3>1, <3>3, <5>3, <5>4 DEF Recorded, Finishes
        <5> QED
          BY <3>3, <5>3, <5>5
      <4> QED
        BY <3>1, <4>1, <4>2, <4>3
    <3> QED
      BY <2>3, <2>6, <3>2, <3>3 DEF Finishes
  <2>7. CASE history'[j] = history[j]
    <3>1. Ahead(j) => Ahead(j)'
      BY <2>7, StaysAhead
    <3>2. ~Ahead(j) => ~Ahead(j)'
      BY <1>0, <1>2, NothingAhead
    <3> QED
      BY <2>1, <2>5, <2>6, <2>7, <3>1, <3>2 DEF Recorded
  <2>8. CASE history'[j] # history[j]
    <3>1. PICK w \in Workers :
              /\ WorkerStep(w) /\ Finishes(w, j) /\ wpc'[w] = "tail"
              /\ \E st : /\ history'[j] = Append(history[j], st)
                         /\ st = "Succeeded" \/ (wpc[w] = "record" /\ st = status[wobj[w]])
      BY <2>8, HistoryWriters
    <3>2. PICK st : /\ history'[j] = Append(history[j], st)
                    /\ st = "Succeeded" \/ (wpc[w] = "record" /\ st = status[wobj[w]])
      BY <3>1
    <3>3. Ahead(j) /\ st \in Terminal
      BY <3>1, <3>2 DEF Ahead, Finishes, Recorded, Terminal, Defeated
    <3>4. history'[j] = <<st>> /\ outcome[j] = "accepted"
      <4>1. history[j] = <<>>
        BY <3>3 DEF Recorded
      <4>2. Busy(w, j)
        BY <3>1 DEF Busy, Finishes
      <4>3. outcome[j] = "accepted"
        BY <1>0, <3>1, <4>2 DEF CarrierInv, Fresh
      <4>4. Append(<<>>, st) = <<st>>
        OBVIOUS
      <4> QED
        BY <3>2, <4>1, <4>3, <4>4
    <3>5. ~Ahead(j)'
      <4>1. Carriers(j) = {} /\ ~Resubmit(j)
        BY <1>0, <2>2, <3>1 DEF Resubmit, TypeOK
      <4>2. Carriers(j)' = {}
        BY <1>0, <1>2, <4>1, GoneStays
      <4>3. \A o \in Objs : Id(o) = j => ~Waits(o)'
        BY <4>2 DEF Carriers, Waits
      <4>4. \A v \in Workers : wpc'[v] \in Active => WId(v)' # j
        BY <4>2 DEF Carriers
      <4>5. \A v \in Workers : ~Finishes(v, j)'
        <5> SUFFICES ASSUME NEW v \in Workers, Finishes(v, j)' PROVE FALSE
          OBVIOUS
        <5>1. Finishes(v, j) /\ ~WorkerStep(v)
          BY <2>3, <2>4, <4>1
        <5> QED
          BY <3>1, <5>1 DEF Recorded
      <4> QED
        BY <4>3, <4>4, <4>5 DEF Ahead, Finishes
    <3> QED
      BY <2>1, <2>5, <2>6, <3>3, <3>4, <3>5 DEF Recorded
  <2> QED
    BY <2>7, <2>8
<1> QED
  BY <1>1, <1>2

\* An accepted task is recorded in history at most once, with a terminal status,
\* and is on its way until it is: none is recorded twice and none leaves the
\* scheduler unrecorded, for any number of tasks and workers, with retries and
\* timeouts, provided nobody cancels or resubmits and what the wheel brings back
\* is never refused.
THEOREM EachRecordedOnce ==
    ASSUME MaxResubmits = 0, Cancellable = {}, NeverRefused
    PROVE  Spec => []RecordedOnce
<1> DEFINE Inv == TrackInv /\ Registered /\ WheelHas /\ \A i \in Ids : Recorded(i)
<1>1. Init => Inv
  <2> SUFFICES ASSUME Init PROVE Inv
    OBVIOUS
  <2>1. \A o \in Objs : ~Waits(o)
    BY NilAssumption DEF Init, Waits
  <2>2. Registered /\ WheelHas
    BY <2>1 DEF Init, Registered, WheelHas
  <2>3. \A i \in Ids : Recorded(i)
    BY DEF Init, Recorded, Finishes
  <2> QED
    BY <2>2, <2>3, TrackInit
<1>2. Inv /\ [Next]_vars => Inv'
  <2> SUFFICES ASSUME Inv, [Next]_vars PROVE Inv'
    OBVIOUS
  <2>1. TypeOK
    BY DEF TrackInv, CarrierInv
  <2>2. TrackInv' /\ Registered' /\ WheelHas'
    BY <2>1, TrackStep, RegisteredStep, WheelHasStep
  <2>3. \A i \in Ids : Recorded(i)'
    BY RecordedStep
  <2> QED
    BY <2>2, <2>3
<1>3. Inv => RecordedOnce
  <2> SUFFICES ASSUME Inv, NEW i \in Ids
               PROVE  /\ Len(history[i]) <= 1
                      /\ \A n \in DOMAIN history[i] : history[i][n] \in Terminal
                      /\ \/ outcome[i] # "accepted" \/ history[i] # <<>> \/ Carriers(i) # {}
                         \/ \E w \in Workers : Busy(w, i)
    BY DEF RecordedOnce
  <2>1. Ahead(i) => Carriers(i) # {} \/ \E w \in Workers : Busy(w, i)
    <3>1. \A o \in Objs : Id(o) = i /\ Waits(o) => Carriers(i) # {}
      BY CarriersAre
    <3>2. \A w \in Workers : WId(w) = i /\ wpc[w] \in Active \union {"ok", "record"} => Busy(w, i)
      BY DEF Busy, Active
    <3> QED
      BY <3>1, <3>2 DEF Ahead
  <2>2. CASE history[i] = <<>>
    BY <2>1, <2>2 DEF Recorded
  <2>3. CASE history[i] # <<>>
    <3>1. PICK st \in Terminal : history[i] = <<st>>
      BY <2>3 DEF Recorded
    <3> QED
      BY <2>3, <3>1
  <2> QED
    BY <2>2, <2>3
<1> QED
  BY <1>1, <1>2, <1>3, PTL DEF Spec

-----------------------------------------------------------------------------
(* The dead letter queue is counted exactly *)

\* Task i is in the dead letter queue.
Buried(i) == tasks[i] # Nil /\ status[tasks[i]] = "Dead"

\* Only tasks with WithMaxRetries die.
MayDie ==
    /\ \A o \in Objs : status[o] = "Dead" => MaxRetries[Id(o)] > 0
    /\ \A w \in Workers : wpc[w] = "dead" => MaxRetries[WId(w)] > 0

\* Nothing will touch a dead task that nobody cancels: it has no carrier, and the
\* workers that still have an object of it will not evict it.
Rests(i) ==
    Buried(i) =>
        /\ Carriers(i) = {}
        /\ \A w \in Workers : Busy(w, i) =>
              wpc[w] \in {"record", "tail"} /\ status[wobj[w]] \in Kept

\* A worker about to publish the death of a task has the tracked object, and is
\* the last one to care about the task.
Dying(w) ==
    wpc[w] = "dead" /\ WId(w) \notin Cancellable =>
        /\ tasks[WId(w)] = wobj[w]
        /\ \A v \in Workers : Busy(v, WId(w)) =>
              v = w \/ (wpc[v] = "tail" /\ status[wobj[v]] \in Kept)

\* Only handleFailure makes a task Dead.
LEMMA DeadWriters ==
    ASSUME TypeOK, [Next]_vars, NEW o \in Objs, status'[o] = "Dead", status[o] # "Dead"
    PROVE  \E w \in Workers : /\ PublishAs(w, "dead", "Dead", "record") /\ WorkerStep(w)
                              /\ WId(w) = Id(o) /\ o = tasks[WId(w)]
<1>1. \A n \in Objs : SubmitTask(n) => status'[o] \in {status[o], "Queued"}
  BY DEF SubmitTask, TypeOK
<1>2. ~Submit(Id(o))
  BY <1>1, ObjsFacts DEF Submit
<1>3. ~(Resubmit(Id(o)) /\ o = tasks[Id(o)]) /\ ~WheelCallback(o)
  BY <1>1 DEF Resubmit, WheelCallback, TypeOK
<1>4. PICK v \in Workers : WorkerStep(v) /\ WId(v) = Id(o)
  BY <1>2, <1>3, StatusWriters
<1>5. \A st : SetTracked(status, WId(v), st)[o] = IF o = tasks[WId(v)] THEN st ELSE status[o]
  BY DEF SetTracked
<1>6. ~MarkRunning(v) /\ ~Hook(v) /\ ~FinishCancelled(v)
      /\ ~PublishAs(v, "retry", "Retrying", "arm") /\ ~PublishAs(v, "failed", "Failed", "record")
  BY <1>5 DEF MarkRunning, Hook, FinishCancelled, PublishAs
<1>7. ~Succeed(v)
  <2>1. SetTracked(status, WId(v), "Succeeded") \in [Objs -> Status]
    BY DEF SetTracked, TypeOK, Status
  <2> QED
    BY <1>5, <2>1 DEF Succeed
<1>8. ~TakeCtxDone(v)
  BY DEF TakeCtxDone, TypeOK
<1>9. PublishAs(v, "dead", "Dead", "record")
  BY <1>4, <1>6, <1>7, <1>8 DEF WorkerStep, Publish, CheckTracked, TakeDone, Decide, ArmRetry,
     RecordFailure, Evict, objects
<1>10. o = tasks[WId(v)]
  BY <1>5, <1>9 DEF PublishAs
<1> QED
  BY <1>4, <1>9, <1>10

\* Who removes a task from the table.
LEMMA TableLosers ==
    ASSUME TypeOK, [Next]_vars, NEW j \in Ids, tasks[j] # Nil, tasks'[j] = Nil
    PROVE  \/ CancelFinalize(j)
           \/ \E w \in Workers : /\ WorkerStep(w) /\ WId(w) = j
                                 /\ \/ CheckTracked(w)
                                    \/ wpc[w] = "tail" /\ status[wobj[w]] \notin Kept
<1>1. ASSUME NEW n \in Objs, SubmitTask(n) PROVE FALSE
  BY <1>1, NilAssumption DEF SubmitTask, TypeOK
<1>2. ASSUME NEW i \in Ids, ClientStep(i) \/ CancelStep(i) PROVE CancelFinalize(j)
  <2>1. ~Submit(i)
    BY <1>1, <1>2, ObjsFacts DEF Submit
  <2>2. ~ScheduleOnceTask(i)
    BY ObjsFacts, NilAssumption DEF ScheduleOnceTask, TypeOK
  <2>3. CancelFinalize(i) => i = j
    BY DEF CancelFinalize, TypeOK
  <2> QED
    BY <1>2, <2>1, <2>2, <2>3 DEF ClientStep, Resubmit, CancelBegin, CancelStep, CancelUnlink, table
<1>3. ASSUME NEW o \in Objs, WheelStep(o) \/ Pop(o) PROVE FALSE
  BY <1>1, <1>3 DEF WheelStep, ArmOnce, WheelFire, WheelCallback, Pop, table
<1>4. ASSUME NEW v \in Workers, Dispatch(v) \/ JobStep(v) \/ Deadline(v) PROVE FALSE
  BY <1>4 DEF Dispatch, JobStep, JobReturns, Deadline, table
<1>5. ASSUME NEW v \in Workers, WorkerStep(v)
      PROVE  WId(v) = j /\ (CheckTracked(v) \/ (wpc[v] = "tail" /\ status[wobj[v]] \notin Kept))
  <2>1. WId(v) \in Ids
    BY <1>5, WorkerMoves
  <2>2. CASE CheckTracked(v)
    BY <2>1, <2>2 DEF CheckTracked, TypeOK
  <2>3. CASE Evict(v)
    BY <2>1, <2>3 DEF Evict, TypeOK
  <2> QED
    BY <1>5, <2>2, <2>3 DEF WorkerStep, MarkRunning, Hook, TakeDone, TakeCtxDone, Succeed,
       FinishCancelled, Decide, Publish, PublishAs, ArmRetry, RecordFailure, table
<1>6. ~UNCHANGED vars
  BY DEF vars, table
<1> QED
  BY <1>2, <1>3, <1>4, <1>5, <1>6 DEF Next

\* MayDie is inductive: handleFailure declares dead what has exhausted its retries.
LEMMA MayDieStep ==
    ASSUME TypeOK, MayDie, [Next]_vars
    PROVE  MayDie'
<1>1. ASSUME NEW o \in Objs, status'[o] = "Dead" PROVE MaxRetries[Id(o)] > 0
  <2>1. CASE status[o] = "Dead"
    BY <2>1 DEF MayDie
  <2>2. CASE status[o] # "Dead"
    BY <1>1, <2>2, DeadWriters DEF MayDie, PublishAs
  <2> QED
    BY <2>1, <2>2
<1>2. ASSUME NEW w \in Workers, wpc'[w] = "dead" PROVE MaxRetries[WId(w)'] > 0
  <2>1. CASE ~WorkerStep(w)
    <3>1. wpc'[w] = wpc[w] /\ wobj'[w] = wobj[w]
      BY <1>2, <2>1, WorkerKeeps
    <3> QED
      BY <1>2, <3>1 DEF MayDie, WId
  <2>2. CASE WorkerStep(w)
    <3>1. wobj'[w] = wobj[w]
      BY <1>2, <2>2, WorkerMoves DEF SameHands
    <3>2. Decide(w)
      BY <1>2, <2>2 DEF WorkerStep, MarkRunning, CheckTracked, Hook, TakeDone, TakeCtxDone,
         Succeed, FinishCancelled, Publish, PublishAs, ArmRetry, RecordFailure, Evict, EndRun,
         GoTo, TypeOK
    <3>3. Exhausted(wobj[w])
      BY <1>2, <3>2 DEF Decide, GoTo, TypeOK
    <3> QED
      BY <3>1, <3>3 DEF Exhausted, WId
  <2> QED
    BY <2>1, <2>2
<1> QED
  BY <1>1, <1>2 DEF MayDie

\* A dead task that nobody cancels leaves the dead letter queue only through
\* Resubmit.
LEMMA RestStays ==
    ASSUME CarrierInv, CancelsOwn, [Next]_vars, NEW j \in Ids, j \notin Cancellable,
           Buried(j), Rests(j), ~Resubmit(j)
    PROVE  Buried(j)' /\ Rests(j)'
<1>0. TypeOK
  BY DEF CarrierInv
<1>1. Carriers(j) = {} /\ ~Submit(j) /\ ~ScheduleOnceTask(j) /\ ~CancelBegin(j) /\ tasks[j] # Nil
  BY NotFresh DEF Rests, Buried, CancelBegin
<1>2. Carriers(j)' = {}
  BY <1>1, GoneStays
<1>3. \A o \in Objs : Id(o) = j => ~WheelCallback(o) /\ dq # o
  BY <1>1, GoneTracks DEF WheelCallback, Waits
<1>4. \A w \in Workers : wpc[w] \in Active \union {"ok", "cancelled"} => WId(w) # j
  <2>1. \A w \in Workers : wpc[w] \in Active => WId(w) # j
    BY <1>1, GoneTracks
  <2>2. \A w \in Workers : wpc[w] \in {"ok", "cancelled"} => WId(w) # j
    BY DEF Rests, Busy
  <2> QED
    BY <2>1, <2>2
<1>5. \A o \in Objs : Id(o) = j => status'[o] = status[o]
  BY <1>0, <1>1, <1>3, <1>4, StatusWriters
<1>6. tasks'[j] = tasks[j]
  <2>1. tasks'[j] = Nil => FALSE
    <3> SUFFICES ASSUME tasks'[j] = Nil PROVE FALSE
      OBVIOUS
    <3>1. ~CancelFinalize(j)
      BY DEF CancelFinalize, CancelsOwn
    <3>2. PICK w \in Workers : /\ WorkerStep(w) /\ WId(w) = j
                               /\ \/ CheckTracked(w)
                                  \/ wpc[w] = "tail" /\ status[wobj[w]] \notin Kept
      BY <1>0, <1>1, <3>1, TableLosers
    <3>3. ~CheckTracked(w)
      BY <1>4, <3>2 DEF CheckTracked, Active
    <3> QED
      BY <3>2, <3>3 DEF Rests, Busy
  <2> QED
    BY <1>0, <1>1, <1>3, <2>1, TableWriters
<1>7. Buried(j)'
  <2>1. PICK o \in Objs : o = tasks[j] /\ Id(o) = j
    BY <1>0, <1>1 DEF TypeOK
  <2> QED
    BY <1>5, <1>6, <2>1 DEF Buried
<1>8. ASSUME NEW w \in Workers, Busy(w, j)'
      PROVE  wpc'[w] \in {"record", "tail"} /\ status'[wobj'[w]] \in Kept
  <2>1. wpc'[w] # "got"
    BY <1>2, <1>8 DEF Carriers, Busy, Active
  <2>2. wobj'[w] = wobj[w] /\ wpc[w] # "idle" /\ wobj[w] \in Objs
    <3>1. CASE WorkerStep(w)
      BY <1>0, <1>8, <3>1, WorkerMoves DEF SameHands, Busy
    <3>2. CASE ~WorkerStep(w)
      BY <1>0, <1>8, <2>1, <3>2, WorkerKeeps DEF Busy, TypeOK
    <3> QED
      BY <3>1, <3>2
  <2>3. PICK o \in Objs : o = wobj[w] /\ Id(o) = j /\ Busy(w, j)
    BY <1>8, <2>2 DEF Busy, WId
  <2>4. wpc[w] \in {"record", "tail"} /\ status[o] \in Kept
    BY <2>3 DEF Rests
  <2>5. wpc'[w] \in {"record", "tail"}
    <3>1. CASE WorkerStep(w)
      <4>1. RecordFailure(w) \/ Evict(w)
        BY <2>4, <3>1 DEF WorkerStep, MarkRunning, CheckTracked, Hook, TakeDone, TakeCtxDone,
           Succeed, FinishCancelled, Decide, Publish, PublishAs, ArmRetry
      <4> QED
        BY <1>0, <1>8, <4>1 DEF RecordFailure, Evict, EndRun, GoTo, Busy, TypeOK
    <3>2. CASE ~WorkerStep(w)
      BY <1>0, <2>1, <2>4, <3>2, WorkerKeeps
    <3> QED
      BY <3>1, <3>2
  <2> QED
    BY <1>5, <2>2, <2>3, <2>4, <2>5
<1> QED
  BY <1>2, <1>7, <1>8 DEF Rests

\* A task enters the dead letter queue when a worker publishes its death, and
\* rests there.
LEMMA RestBegins ==
    ASSUME CarrierInv, [Next]_vars, NEW j \in Ids, j \notin Cancellable,
           ~Buried(j), Buried(j)', \A w \in Workers : Dying(w)
    PROVE  /\ \E w \in Workers : PublishAs(w, "dead", "Dead", "record") /\ WId(w) = j
           /\ Rests(j)'
<1>0. TypeOK
  BY DEF CarrierInv
<1>1. tasks'[j] = tasks[j]
  <2> SUFFICES ASSUME tasks'[j] # tasks[j] PROVE FALSE
    OBVIOUS
  <2>1. CASE \E o \in Objs : WheelCallback(o) /\ tasks'[j] = o /\ status'[o] = "Queued"
    BY <2>1 DEF Buried
  <2>2. CASE Submit(j) \/ ScheduleOnceTask(j)
    <3>1. PICK n \in Objs : n = <<j, 0>> /\ Id(n) = j
      BY ObjsFacts DEF Id
    <3>2. tasks[j] = Nil /\ status[n] = "Queued"
      BY <2>2, <3>1 DEF CarrierInv, Fresh, Submit, ScheduleOnceTask
    <3>3. CASE Submit(j)
      <4>1. SubmitTask(n)
        BY <3>1, <3>3 DEF Submit
      <4> QED
        BY <1>0, <3>1, <3>2, <4>1 DEF SubmitTask, Buried, TypeOK
    <3>4. CASE ScheduleOnceTask(j)
      <4>1. tasks'[j] = n /\ status' = status
        BY <1>0, <3>1, <3>4 DEF ScheduleOnceTask, objects, TypeOK
      <4> QED
        BY <3>2, <4>1 DEF Buried
    <3> QED
      BY <2>2, <3>3, <3>4
  <2> QED
    BY <1>0, <2>1, <2>2, TableWriters DEF Buried
<1>2. PICK o \in Objs : o = tasks[j] /\ Id(o) = j
  BY <1>0, <1>1 DEF Buried, TypeOK
<1>3. PICK w \in Workers : /\ PublishAs(w, "dead", "Dead", "record") /\ WorkerStep(w)
                           /\ WId(w) = j
  BY <1>0, <1>1, <1>2, DeadWriters DEF Buried
<1>4. wpc[w] = "dead" /\ wpc'[w] = "record" /\ UNCHANGED <<wobj, wheel>>
      /\ status' = SetTracked(status, j, "Dead")
  BY <1>0, <1>3 DEF PublishAs, GoTo, TypeOK
<1>5. Carriers(j)' = {}
  BY <1>3, <1>4, LastCarrier DEF Active
<1>6. o = wobj[w] /\ \A v \in Workers : Busy(v, j) =>
                         v = w \/ (wpc[v] = "tail" /\ status[wobj[v]] \in Kept)
  BY <1>2, <1>3, <1>4 DEF Dying
<1>7. \A p \in Objs : status'[p] = status[p] \/ status'[p] = "Dead"
  BY <1>4 DEF SetTracked
<1>8. ASSUME NEW v \in Workers, Busy(v, j)'
      PROVE  wpc'[v] \in {"record", "tail"} /\ status'[wobj'[v]] \in Kept
  <2>1. CASE v = w
    <3>1. status'[o] = "Dead"
      BY <1>2, <1>4 DEF SetTracked
    <3> QED
      BY <1>4, <1>6, <2>1, <3>1 DEF Kept
  <2>2. CASE v # w
    <3>1. wpc'[v] = wpc[v] /\ Busy(v, j) /\ wobj[v] \in Objs
      BY <1>0, <1>3, <1>4, <1>8, <2>2, WorkerEffects DEF Busy, WId, TypeOK
    <3> QED
      BY <1>4, <1>6, <1>7, <2>2, <3>1 DEF Kept
  <2> QED
    BY <2>1, <2>2
<1> QED
  BY <1>3, <1>5, <1>8 DEF Rests

DeadTasks == {i \in Tracked : status[tasks[i]] = "Dead"}
DeadWorkers == {w \in Workers : wpc[w] = "dead"}

\* Who writes deadCount, and who moves workers in and out of DeadWorkers.
LEMMA CountWriters ==
    ASSUME TypeOK, [Next]_vars, \A i \in Ids : ~Resubmit(i),
           \A w \in Workers : /\ ~PublishAs(w, "dead", "Dead", "record")
                              /\ ~(Decide(w) /\ wpc'[w] = "dead")
    PROVE  deadCount' = deadCount /\ DeadWorkers' = DeadWorkers
<1>1. ASSUME NEW i \in Ids, ClientStep(i) \/ CancelStep(i) PROVE UNCHANGED <<deadCount, wpc>>
  BY <1>1 DEF ClientStep, Submit, ScheduleOnceTask, CancelBegin, CancelStep, CancelUnlink,
     CancelFinalize, worker
<1>2. ASSUME NEW o \in Objs, WheelStep(o) \/ Pop(o) PROVE UNCHANGED <<deadCount, wpc>>
  BY <1>2 DEF WheelStep, ArmOnce, WheelFire, WheelCallback, Pop, worker
<1>3. ASSUME NEW w \in Workers, Dispatch(w) \/ JobStep(w) \/ Deadline(w)
      PROVE  /\ deadCount' = deadCount
             /\ \A v \in Workers : wpc'[v] = "dead" <=> wpc[v] = "dead"
  BY <1>3 DEF Dispatch, JobStep, JobReturns, Deadline, TypeOK
<1>4. ASSUME NEW w \in Workers, WorkerStep(w)
      PROVE  /\ deadCount' = deadCount
             /\ \A v \in Workers : wpc'[v] = "dead" <=> wpc[v] = "dead"
  <2>1. \A v \in Workers \ {w} : wpc'[v] = wpc[v]
    BY <1>4, WorkerEffects
  <2>2. \A pc : GoTo(w, pc) => wpc'[w] = pc
    BY DEF GoTo, TypeOK
  <2>3. CASE Decide(w)
    BY <2>1, <2>2, <2>3 DEF Decide
  <2>4. CASE Publish(w)
    BY <2>1, <2>2, <2>4 DEF Publish, PublishAs
  <2>5. CASE ~Decide(w) /\ ~Publish(w)
    <3>1. deadCount' = deadCount /\ wpc[w] # "dead" /\ wpc'[w] # "dead"
      BY <1>4, <2>2, <2>5 DEF WorkerStep, MarkRunning, CheckTracked, Hook, TakeDone, TakeCtxDone,
         Succeed, FinishCancelled, ArmRetry, RecordFailure, Evict, EndRun, TypeOK
    <3> QED
      BY <2>1, <3>1
  <2> QED
    BY <2>3, <2>4, <2>5
<1>5. UNCHANGED vars => UNCHANGED <<deadCount, wpc>>
  BY DEF vars, worker
<1> QED
  BY <1>1, <1>2, <1>3, <1>4, <1>5 DEF Next, DeadWorkers

\* Tasks that may die are not cancelled.
DeadNotCancelled == \A i \in Ids : MaxRetries[i] > 0 => i \notin Cancellable

\* The count stays exact: deadCount is raised when a worker decides, the worker is
\* counted until it publishes, and the task from then on until Resubmit.
LEMMA CountStep ==
    ASSUME CarrierInv, CancelsOwn, MayDie, \A w \in Workers : Dying(w),
           \A i \in Ids \ Cancellable : Rests(i), DeadNotCancelled, IsFiniteSet(Workers),
           DeadCountExact, [Next]_vars
    PROVE  DeadCountExact' /\ \A i \in Ids \ Cancellable : Rests(i)'
<1>0. TypeOK /\ MayDie' /\ TypeOK'
  BY MayDieStep, TypeStep DEF CarrierInv
<1>1. ASSUME NEW i \in Ids, Buried(i) PROVE i \notin Cancellable
  <2>1. PICK o \in Objs : o = tasks[i] /\ Id(o) = i
    BY <1>0, <1>1 DEF Buried, TypeOK
  <2> QED
    BY <1>1, <2>1 DEF Buried, MayDie, DeadNotCancelled
<1>2. ASSUME NEW i \in Ids, Buried(i)' PROVE i \notin Cancellable
  <2>1. PICK o \in Objs : o = tasks'[i] /\ Id(o) = i
    BY <1>0, <1>2 DEF Buried, TypeOK
  <2> QED
    BY <1>0, <1>2, <2>1 DEF Buried, MayDie, DeadNotCancelled
<1>3. \A i \in Ids : Buried(i) /\ ~Resubmit(i) => Buried(i)' /\ Rests(i)'
  BY <1>1, RestStays
<1>4. \A i \in Ids : Buried(i)' /\ ~Buried(i) =>
         /\ \E w \in Workers : PublishAs(w, "dead", "Dead", "record") /\ WId(w) = i
         /\ Rests(i)'
  BY <1>2, RestBegins
<1>5. \A i \in Ids : Resubmit(i) => ~Buried(i)'
  <2> SUFFICES ASSUME NEW i \in Ids, Resubmit(i) PROVE ~Buried(i)'
    OBVIOUS
  <2>1. tasks' = tasks /\ tasks[i] \in Objs
    BY <1>0 DEF Resubmit, table, TypeOK
  <2>2. status'[tasks[i]] = "Queued"
    BY <1>0, <2>1 DEF Resubmit, TypeOK
  <2> QED
    BY <2>1, <2>2 DEF Buried
<1>6. \A i \in Ids \ Cancellable : Rests(i)'
  BY <1>3, <1>4, <1>5 DEF Rests
<1>7. /\ DeadTasks = {i \in Ids : Buried(i)} /\ DeadTasks' = {i \in Ids : Buried(i)'}
  BY DEF DeadTasks, Tracked, Buried
<1>8. /\ IsFiniteSet(DeadTasks) /\ IsFiniteSet(DeadWorkers)
      /\ Cardinality(DeadTasks) \in Nat /\ Cardinality(DeadWorkers) \in Nat
      /\ deadCount \in Int
  <2>1. DeadTasks \subseteq Ids /\ DeadWorkers \subseteq Workers
    BY DEF DeadTasks, DeadWorkers, Tracked
  <2>2. IsFiniteSet(DeadTasks) /\ IsFiniteSet(DeadWorkers)
    BY <2>1, SetsAssumption, FS_Subset
  <2> QED
    BY <1>0, <2>2, FS_CardinalityType DEF TypeOK
<1>9. deadCount = Cardinality(DeadTasks) + Cardinality(DeadWorkers)
  BY DEF DeadCountExact, DeadTasks, DeadWorkers
<1>10. SUFFICES deadCount' = Cardinality(DeadTasks') + Cardinality(DeadWorkers')
  BY <1>6 DEF DeadCountExact, DeadTasks, DeadWorkers
<1>11. ASSUME NEW w \in Workers, PublishAs(w, "dead", "Dead", "record")
       PROVE  deadCount' = Cardinality(DeadTasks') + Cardinality(DeadWorkers')
  <2>1. /\ wpc[w] = "dead" /\ wpc' = [wpc EXCEPT ![w] = "record"]
        /\ deadCount' = deadCount /\ tasks' = tasks
        /\ status' = SetTracked(status, WId(w), "Dead")
    BY <1>11 DEF PublishAs, GoTo, table
  <2>2. wobj[w] \in Objs
    BY <1>0, <2>1 DEF TypeOK
  <2>3. PICK j \in Ids : j = WId(w)
    BY <2>2, ObjsFacts DEF WId
  <2>4. j \notin Cancellable /\ tasks[j] = wobj[w]
    BY <2>1, <2>3 DEF MayDie, DeadNotCancelled, Dying
  <2>5. ~Buried(j)
    <3>1. Carriers(j) # {}
      BY <2>1, <2>3, CarriersAre DEF Active
    <3> QED
      BY <2>4, <3>1 DEF Rests
  <2>6. Buried(j)'
    <3>1. status'[wobj[w]] = "Dead"
      BY <2>1, <2>2, <2>3, <2>4 DEF SetTracked
    <3> QED
      BY <2>1, <2>2, <2>4, <3>1, NilAssumption DEF Buried
  <2>7. \A v \in Workers : PublishAs(v, "dead", "Dead", "record") => v = w
    <3> SUFFICES ASSUME NEW v \in Workers, PublishAs(v, "dead", "Dead", "record"), v # w PROVE FALSE
      OBVIOUS
    <3>1. wpc[v] = "dead" /\ wpc'[v] = "record"
      BY <1>0 DEF PublishAs, GoTo, TypeOK
    <3> QED
      BY <1>0, <2>1, <3>1 DEF TypeOK
  <2>8. \A i \in Ids : ~Resubmit(i)
    BY <1>0, <2>1 DEF Resubmit, worker, TypeOK
  <2>9. DeadTasks' = DeadTasks \union {j} /\ j \notin DeadTasks
    BY <1>3, <1>4, <1>7, <2>3, <2>5, <2>6, <2>7, <2>8
  <2>10. DeadWorkers' = DeadWorkers \ {w} /\ w \in DeadWorkers
    <3>1. \A v \in Workers : wpc'[v] = "dead" <=> wpc[v] = "dead" /\ v # w
      BY <1>0, <2>1 DEF TypeOK
    <3> QED
      BY <2>1, <3>1 DEF DeadWorkers
  <2>11. Cardinality(DeadTasks') = Cardinality(DeadTasks) + 1
    BY <1>8, <2>9, FS_AddElement
  <2>12. Cardinality(DeadWorkers') = Cardinality(DeadWorkers) - 1
    BY <1>8, <2>10, FS_RemoveElement
  <2> QED
    BY <1>8, <1>9, <2>1, <2>11, <2>12
<1>12. ASSUME \A w \in Workers : ~PublishAs(w, "dead", "Dead", "record"),
              \A i \in Ids : ~Resubmit(i)
       PROVE  DeadTasks' = DeadTasks
  BY <1>3, <1>4, <1>7, <1>12
<1>13. ASSUME NEW i \in Ids, Resubmit(i)
       PROVE  deadCount' = Cardinality(DeadTasks') + Cardinality(DeadWorkers')
  <2>1. /\ wpc' = wpc /\ deadCount' = deadCount - LeavesDLQ(tasks[i]) /\ tasks[i] # Nil
        /\ tasks' = tasks /\ status' = [status EXCEPT ![tasks[i]] = "Queued"]
    BY <1>13 DEF Resubmit, worker, table
  <2>2. DeadWorkers' = DeadWorkers
    BY <2>1 DEF DeadWorkers
  <2>3. \A k \in Ids : k # i => (Buried(k)' <=> Buried(k))
    <3>1. \A k \in Ids : k # i /\ tasks[k] # Nil => tasks[k] # tasks[i] /\ tasks[k] \in Objs
      BY <1>0, <2>1 DEF TypeOK
    <3>2. \A o \in Objs : o # tasks[i] => status'[o] = status[o]
      BY <1>0, <2>1 DEF TypeOK
    <3> QED
      BY <2>1, <3>1, <3>2 DEF Buried
  <2>4. DeadTasks' = DeadTasks \ {i}
    BY <1>5, <1>7, <1>13, <2>3
  <2>5. CASE i \in DeadTasks
    <3>1. LeavesDLQ(tasks[i]) = 1
      BY <2>5 DEF DeadTasks, LeavesDLQ
    <3>2. Cardinality(DeadTasks') = Cardinality(DeadTasks) - 1
      BY <1>8, <2>4, <2>5, FS_RemoveElement
    <3> QED
      BY <1>8, <1>9, <2>1, <2>2, <3>1, <3>2
  <2>6. CASE i \notin DeadTasks
    <3>1. LeavesDLQ(tasks[i]) = 0
      BY <2>1, <2>6 DEF DeadTasks, Tracked, LeavesDLQ
    <3>2. DeadTasks' = DeadTasks
      BY <2>4, <2>6
    <3> QED
      BY <1>8, <1>9, <2>1, <2>2, <3>1, <3>2
  <2> QED
    BY <2>5, <2>6
<1>14. ASSUME NEW w \in Workers, Decide(w), wpc'[w] = "dead"
       PROVE  deadCount' = Cardinality(DeadTasks') + Cardinality(DeadWorkers')
  <2>1. /\ wpc[w] = "fail" /\ wpc' = [wpc EXCEPT ![w] = "dead"] /\ deadCount' = deadCount + 1
        /\ UNCHANGED status /\ UNCHANGED tasks
    BY <1>0, <1>14 DEF Decide, GoTo, TypeOK, objects, table
  <2>2. DeadWorkers' = DeadWorkers \union {w} /\ w \notin DeadWorkers
    BY <1>0, <2>1 DEF DeadWorkers, TypeOK
  <2>3. DeadTasks' = DeadTasks
    BY <2>1 DEF DeadTasks, Tracked
  <2>4. Cardinality(DeadWorkers') = Cardinality(DeadWorkers) + 1
    BY <1>8, <2>2, FS_AddElement
  <2> QED
    BY <1>8, <1>9, <2>1, <2>3, <2>4
<1> QED
  BY <1>0, <1>9, <1>11, <1>12, <1>13, <1>14, CountWriters

\* Without Resubmit, Dying follows from what keeps QueuedIsTracked.
LEMMA TrackedDies ==
    ASSUME TrackInv, NEW w \in Workers
    PROVE  Dying(w)
<1> SUFFICES ASSUME wpc[w] = "dead", WId(w) \notin Cancellable PROVE Dying(w)
  BY DEF Dying
<1>0. TypeOK /\ OneCarrier
  BY DEF TrackInv, CarrierInv
<1>1. PICK j \in Ids : j = WId(w)
  BY <1>0, ObjsFacts DEF TypeOK, WId
<1>2. tasks[j] = wobj[w]
  BY <1>1 DEF TrackInv, Tracks, Active
<1>3. Carriers(j) # {}
  BY <1>1, CarriersAre DEF Active
<1>4. ASSUME NEW v \in Workers, Busy(v, j), v # w
      PROVE  wpc[v] = "tail" /\ status[wobj[v]] \in Kept
  <2>1. wpc[v] \notin Active
    BY <1>0, <1>1, <1>4, WorkerAlone DEF Busy, Active
  <2>2. wpc[v] \notin {"ok", "record", "cancelled"}
    BY <1>1, <1>3, <1>4 DEF TrackInv, Leaves, Undisturbed, Busy
  <2>3. wpc[v] = "tail"
    BY <1>0, <1>4, <2>1, <2>2 DEF Busy, Active, TypeOK, WorkerPC
  <2> QED
    BY <1>1, <1>3, <1>4, <2>3 DEF TrackInv, Leaves, Busy, Kept
<1> QED
  BY <1>1, <1>2, <1>4 DEF Dying

\* What is queued or run is the tracked task, or the task is not tracked.
TracksOrGone(i) ==
    /\ \A o \in Objs : Id(o) = i /\ (queue[o] > 0 \/ dq = o) => tasks[i] \in {o, Nil}
    /\ \A w \in Workers : wpc[w] \in Active /\ WId(w) = i => tasks[i] \in {wobj[w], Nil}

\* From its second look to handleFailure a worker has the tracked object.
Holds(w) ==
    wpc[w] \in {"hook", "run", "fail", "dead"} /\ WId(w) \notin Cancellable =>
        tasks[WId(w)] = wobj[w]

\* TracksOrGone is inductive: what enters the heap is tracked as it does.
LEMMA TracksOrGoneStep ==
    ASSUME CarrierInv, [Next]_vars, NEW j \in Ids, TracksOrGone(j)
    PROVE  TracksOrGone(j)'
<1>0. TypeOK
  BY DEF CarrierInv
<1>1. ASSUME NEW n \in Objs, SubmitTask(n)
      PROVE  \/ UNCHANGED <<tasks, queue>>
             \/ tasks' = [tasks EXCEPT ![Id(n)] = n] /\ queue' = [queue EXCEPT ![n] = @ + 1]
  BY <1>1 DEF SubmitTask
<1>2. ASSUME Carriers(j) = {} \/ \E o \in Objs : Carriers(j) = {<<"wheel", o>>}
      PROVE  /\ \A o \in Objs : Id(o) = j => ~(queue[o] > 0) /\ dq # o
             /\ \A w \in Workers : wpc[w] \in Active => WId(w) # j
  <2>1. \A o \in Objs : Id(o) = j => /\ queue[o] > 0 => <<"queue", o>> \in Carriers(j)
                                     /\ dq = o => <<"dequeued", o>> \in Carriers(j)
    BY DEF Carriers
  <2>2. \A w \in Workers : wpc[w] \in Active /\ WId(w) = j => <<"worker", w>> \in Carriers(j)
    BY DEF Carriers
  <2>3. \A x, o : /\ <<"queue", x>> # <<"wheel", o>> /\ <<"dequeued", x>> # <<"wheel", o>>
                  /\ <<"worker", x>> # <<"wheel", o>>
    OBVIOUS
  <2> QED
    BY <1>2, <2>1, <2>2, <2>3
<1>3. ASSUME NEW n \in Objs, UNCHANGED <<dq, wpc, wobj>>, SubmitTask(n),
             Id(n) = j => \/ Carriers(j) = {}
                          \/ \E o \in Objs : Carriers(j) = {<<"wheel", o>>}
      PROVE  TracksOrGone(j)'
  <2>1. CASE UNCHANGED <<tasks, queue>>
    BY <1>3, <2>1 DEF TracksOrGone, WId
  <2>2. CASE tasks' = [tasks EXCEPT ![Id(n)] = n] /\ queue' = [queue EXCEPT ![n] = @ + 1]
    <3>1. \A o \in Objs : o # n => queue'[o] = queue[o]
      BY <1>0, <2>2 DEF TypeOK
    <3>2. CASE Id(n) = j
      <4>1. tasks'[j] = n
        BY <1>0, <2>2, <3>2 DEF TypeOK
      <4>2. \A o \in Objs : Id(o) = j /\ (queue'[o] > 0 \/ dq' = o) => o = n
        BY <1>2, <1>3, <3>1, <3>2
      <4>3. \A w \in Workers : wpc'[w] \in Active => WId(w)' # j
        BY <1>2, <1>3, <3>2 DEF WId
      <4> QED
        BY <4>1, <4>2, <4>3 DEF TracksOrGone
    <3>3. CASE Id(n) # j
      <4>1. tasks'[j] = tasks[j]
        BY <1>0, <2>2, <3>3 DEF TypeOK
      <4>2. \A o \in Objs : Id(o) = j => queue'[o] = queue[o]
        BY <3>1, <3>3
      <4> QED
        BY <1>3, <4>1, <4>2 DEF TracksOrGone, WId
    <3> QED
      BY <3>2, <3>3
  <2> QED
    BY <1>1, <1>3, <2>1, <2>2
<1>4. ASSUME NEW i \in Ids, Submit(i) PROVE TracksOrGone(j)'
  <2>1. PICK n \in Objs : n = <<i, 0>> /\ Id(n) = i
    BY ObjsFacts DEF Id
  <2>2. SubmitTask(n) /\ UNCHANGED <<dq, wpc, wobj>> /\ Carriers(i) = {}
    BY <1>4, <2>1 DEF Submit, worker, CarrierInv, Fresh
  <2> QED
    BY <1>3, <2>1, <2>2
<1>5. ASSUME NEW o \in Objs, WheelCallback(o) PROVE TracksOrGone(j)'
  <2>1. SubmitTask(o) /\ UNCHANGED <<dq, wpc, wobj>> /\ wheel[o] # "idle"
    BY <1>5 DEF WheelCallback, worker
  <2>2. Id(o) = j => Carriers(j) = {<<"wheel", o>>}
    <3>1. Id(o) = j => <<"wheel", o>> \in Carriers(j)
      BY <2>1 DEF Carriers
    <3> QED
      BY <3>1 DEF CarrierInv, OneCarrier
  <2> QED
    BY <1>3, <2>1, <2>2
<1>6. ASSUME NEW i \in Ids, ScheduleOnceTask(i) PROVE TracksOrGone(j)'
  <2>1. UNCHANGED <<queue, dq, wpc, wobj>>
    BY <1>6 DEF ScheduleOnceTask, worker
  <2>2. i = j => Carriers(j) = {}
    BY <1>6 DEF ScheduleOnceTask, CarrierInv, Fresh
  <2>3. i # j => tasks'[j] = tasks[j]
    BY <1>0, <1>6 DEF ScheduleOnceTask, TypeOK
  <2>4. CASE i = j
    BY <1>2, <2>1, <2>2, <2>4 DEF TracksOrGone, WId
  <2>5. CASE i # j
    BY <2>1, <2>3, <2>5 DEF TracksOrGone, WId
  <2> QED
    BY <2>4, <2>5
<1>7. ASSUME NEW i \in Ids, Resubmit(i) PROVE TracksOrGone(j)'
  <2>1. UNCHANGED <<tasks, dq, wpc, wobj>> /\ tasks[i] # Nil
    BY <1>7 DEF Resubmit, table, worker
  <2>2. PICK n \in Objs : n = tasks[i] /\ Id(n) = i
    BY <1>0, <2>1 DEF TypeOK
  <2>3. \A o \in Objs : o # n => queue'[o] = queue[o]
    BY <1>0, <1>7, <2>2 DEF Resubmit, TypeOK
  <2> QED
    BY <2>1, <2>2, <2>3 DEF TracksOrGone, WId
<1>8. ASSUME tasks'[j] \in {tasks[j], Nil},
             \A o \in Objs : Id(o) = j /\ (queue'[o] > 0 \/ dq' = o) => queue[o] > 0 \/ dq = o,
             \A w \in Workers : wpc'[w] \in Active /\ Id(wobj'[w]) = j =>
                 \/ wpc[w] \in Active /\ wobj'[w] = wobj[w]
                 \/ wobj'[w] \in Objs /\ dq = wobj'[w]
      PROVE  TracksOrGone(j)'
  BY <1>8 DEF TracksOrGone, WId
<1>9. ASSUME NEW i \in Ids, CancelBegin(i) \/ CancelStep(i) PROVE TracksOrGone(j)'
  <2>1. UNCHANGED <<queue, dq, wpc, wobj>> /\ tasks'[j] \in {tasks[j], Nil}
    BY <1>0, <1>9 DEF CancelBegin, CancelStep, CancelUnlink, CancelFinalize, table, worker, TypeOK
  <2> QED
    BY <1>8, <2>1
<1>10. ASSUME NEW o \in Objs, ArmOnce(o) \/ WheelFire(o) \/ Pop(o) PROVE TracksOrGone(j)'
  <2>1. UNCHANGED <<tasks, wpc, wobj>>
    BY <1>10 DEF ArmOnce, WheelFire, Pop, table, worker
  <2>2. \A p \in Objs : queue'[p] > 0 \/ dq' = p => queue[p] > 0 \/ dq = p
    BY <1>0, <1>10 DEF ArmOnce, WheelFire, Pop, TypeOK
  <2> QED
    BY <1>8, <2>1, <2>2
<1>11. ASSUME NEW w \in Workers, Dispatch(w) PROVE TracksOrGone(j)'
  <2>1. /\ UNCHANGED <<tasks, queue>> /\ dq \in Objs /\ dq' = Nil
        /\ wobj' = [wobj EXCEPT ![w] = dq] /\ wpc' = [wpc EXCEPT ![w] = "got"]
    BY <1>0, <1>11 DEF Dispatch, table, TypeOK
  <2>2. /\ wobj'[w] = dq
        /\ \A v \in Workers \ {w} : wobj'[v] = wobj[v] /\ wpc'[v] = wpc[v]
    BY <1>0, <2>1 DEF TypeOK
  <2> QED
    BY <1>8, <2>1, <2>2, NilAssumption
<1>12. ASSUME NEW w \in Workers, JobStep(w) \/ Deadline(w) PROVE TracksOrGone(j)'
  <2>1. UNCHANGED <<tasks, queue, dq, wpc, wobj>>
    BY <1>12 DEF JobStep, JobReturns, Deadline, table
  <2> QED
    BY <1>8, <2>1
<1>13. ASSUME NEW w \in Workers, WorkerStep(w) PROVE TracksOrGone(j)'
  <2>1. UNCHANGED <<queue, dq>> /\ SameHands
    BY <1>0, <1>13, WorkerMoves
  <2>2. /\ tasks'[j] \in {tasks[j], Nil}
        /\ \A v \in Workers \ {w} : wpc'[v] = wpc[v] /\ wobj'[v] = wobj[v]
    BY <1>0, <1>13, WorkerEffects
  <2>3. wpc'[w] \in Active => wpc[w] \in Active /\ wobj'[w] = wobj[w]
    BY <1>0, <1>13, <2>1, HookEffects DEF SameHands, Active
  <2> QED
    BY <1>8, <2>1, <2>2, <2>3
<1>14. ASSUME UNCHANGED vars PROVE TracksOrGone(j)'
  BY <1>8, <1>14 DEF vars, table, worker
<1> QED
  BY <1>4, <1>5, <1>6, <1>7, <1>9, <1>10, <1>11, <1>12, <1>13, <1>14
  DEF Next, ClientStep, WheelStep

\* With a single worker nobody untracks the task it is at.
LEMMA HoldsStep ==
    ASSUME CarrierInv, CancelsOwn, \A i \in Ids : TracksOrGone(i), [Next]_vars,
           \A v, w \in Workers : v = w, NEW w \in Workers, Holds(w)
    PROVE  Holds(w)'
<1>0. TypeOK /\ OneCarrier
  BY DEF CarrierInv
<1> SUFFICES ASSUME wpc'[w] \in {"hook", "run", "fail", "dead"}, WId(w)' \notin Cancellable
             PROVE  tasks'[WId(w)'] = wobj'[w]
  BY DEF Holds
<1>1. wobj'[w] = wobj[w] /\ wobj[w] \in Objs
      /\ wpc[w] \in {"check", "hook", "run", "fail", "dead"}
      /\ (wpc[w] = "check" => CheckTracked(w))
  <2>1. CASE ~WorkerStep(w)
    BY <1>0, <2>1, WorkerKeeps DEF TypeOK
  <2>2. CASE WorkerStep(w)
    <3>1. wobj'[w] = wobj[w] /\ wobj[w] \in Objs
      BY <1>0, <2>2, WorkerMoves DEF SameHands
    <3>2. wpc[w] = "check" => CheckTracked(w)
      BY <2>2 DEF WorkerStep, MarkRunning, Hook, TakeDone, TakeCtxDone, Succeed, FinishCancelled,
         Decide, Publish, PublishAs, ArmRetry, RecordFailure, Evict
    <3>3. wpc[w] \in {"check", "hook", "run", "fail", "dead"}
      BY <1>0, <2>2 DEF WorkerStep, MarkRunning, CheckTracked, Hook, TakeDone, TakeCtxDone,
         Succeed, FinishCancelled, Decide, Publish, PublishAs, ArmRetry, RecordFailure, Evict,
         EndRun, GoTo, TypeOK
    <3> QED
      BY <3>1, <3>2, <3>3
  <2> QED
    BY <2>1, <2>2
<1>2. PICK j \in Ids : j = WId(w) /\ j = WId(w)' /\ j \notin Cancellable
  BY <1>1, ObjsFacts DEF WId
<1>3. wpc[w] \in Active /\ Busy(w, j) /\ <<"worker", w>> \in Carriers(j)
  BY <1>1, <1>2, CarriersAre DEF Active, Busy
<1>4. tasks[j] = wobj[w] \/ (tasks[j] \in {wobj[w], Nil} /\ CheckTracked(w))
  BY <1>1, <1>2, <1>3 DEF Holds, TracksOrGone
<1>5. CheckTracked(w) => tasks'[j] = tasks[j] /\ tasks[j] # Nil
  BY <1>0, <1>2 DEF CheckTracked, EndRun, TypeOK
<1>6. tasks[j] = wobj[w] /\ tasks[j] # Nil
  BY <1>1, <1>4, <1>5, NilAssumption
<1>7. tasks'[j] # Nil
  <2> SUFFICES ASSUME tasks'[j] = Nil PROVE FALSE
    OBVIOUS
  <2>1. ~CancelFinalize(j)
    BY <1>2 DEF CancelFinalize, CancelsOwn
  <2>2. PICK v \in Workers : CheckTracked(v) \/ wpc[v] = "tail"
    BY <1>0, <1>6, <2>1, TableLosers
  <2>3. v = w
    OBVIOUS
  <2> QED
    BY <1>5, <1>6, <1>1, <2>2, <2>3
<1>8. tasks'[j] = tasks[j]
  <2> SUFFICES ASSUME tasks'[j] # tasks[j] PROVE FALSE
    OBVIOUS
  <2>1. PICK o \in Objs : WheelCallback(o) /\ Id(o) = j
    BY <1>0, <1>3, <1>7, TableWriters, NotFresh
  <2>2. Waits(o)
    BY <2>1 DEF WheelCallback, Waits
  <2> QED
    BY <1>0, <1>2, <1>3, <2>1, <2>2, WorkerAlone
<1> QED
  BY <1>1, <1>2, <1>6, <1>8

\* s.deadCount is the number of tasks in the dead letter queue, those about to
\* enter it included: for any number of workers, with retries and timeouts, when
\* nobody calls Resubmit; and with Resubmit for one worker without timeouts.
\* Tasks that may die are not cancelled.
THEOREM DeadLettersCounted ==
    ASSUME \/ MaxResubmits = 0
           \/ Timeouts = {} /\ \A v, w \in Workers : v = w,
           DeadNotCancelled, IsFiniteSet(Workers)
    PROVE  Spec => []DeadCountExact
<1> DEFINE Common == MayDie /\ DeadCountExact /\ \A i \in Ids \ Cancellable : Rests(i)
<1>0. Init => TrackInv /\ Common /\ (\A i \in Ids : TracksOrGone(i)) /\ \A w \in Workers : Holds(w)
  <2> SUFFICES ASSUME Init
               PROVE  Common /\ (\A i \in Ids : TracksOrGone(i)) /\ \A w \in Workers : Holds(w)
    BY TrackInit
  <2>1. MayDie /\ (\A i \in Ids : Rests(i) /\ TracksOrGone(i)) /\ \A w \in Workers : Holds(w)
    BY DEF Init, MayDie, Rests, Buried, TracksOrGone, Holds
  <2>2. DeadTasks = {} /\ DeadWorkers = {} /\ deadCount = 0
    BY DEF Init, DeadTasks, DeadWorkers, Tracked
  <2>3. DeadCountExact
    BY <2>2, FS_EmptySet DEF DeadCountExact, DeadTasks, DeadWorkers
  <2> QED
    BY <2>1, <2>3
<1>1. CASE MaxResubmits = 0
  <2>1. TrackInv /\ Common /\ [Next]_vars => (TrackInv /\ Common)'
    <3> SUFFICES ASSUME TrackInv, Common, [Next]_vars PROVE (TrackInv /\ Common)'
      OBVIOUS
    <3>1. CarrierInv /\ CancelsOwn /\ TypeOK
      BY DEF TrackInv, CarrierInv
    <3>2. TrackInv' /\ MayDie'
      BY <1>1, <3>1, TrackStep, MayDieStep
    <3>3. \A w \in Workers : Dying(w)
      BY TrackedDies
    <3>4. DeadCountExact' /\ \A i \in Ids \ Cancellable : Rests(i)'
      BY <3>1, <3>3, CountStep
    <3> QED
      BY <3>2, <3>4
  <2> QED
    BY <1>0, <2>1, PTL DEF Spec
<1>2. CASE Timeouts = {} /\ \A v, w \in Workers : v = w
  <2> DEFINE Alone == /\ CarrierInv /\ CancelsOwn /\ Undisturbed
                      /\ \A i \in Ids : TracksOrGone(i)
                      /\ \A w \in Workers : Holds(w)
  <2>1. Alone /\ Common /\ [Next]_vars => (Alone /\ Common)'
    <3> SUFFICES ASSUME Alone, Common, [Next]_vars PROVE (Alone /\ Common)'
      OBVIOUS
    <3>1. TypeOK
      BY DEF CarrierInv
    <3>2. CarrierInv' /\ CancelsOwn' /\ Undisturbed' /\ MayDie'
      BY <1>2, <3>1, CarrierInvStep, UndisturbedStep, MayDieStep
    <3>3. (\A i \in Ids : TracksOrGone(i)') /\ \A w \in Workers : Holds(w)'
      BY <1>2, TracksOrGoneStep, HoldsStep
    <3>4. \A w \in Workers : Dying(w)
      BY <1>2 DEF Holds, Dying
    <3>5. DeadCountExact' /\ \A i \in Ids \ Cancellable : Rests(i)'
      BY <3>4, CountStep
    <3> QED
      BY <3>2, <3>3, <3>5
  <2>2. TrackInv => CarrierInv /\ CancelsOwn /\ Undisturbed
    BY DEF TrackInv
  <2> QED
    BY <1>0, <2>1, <2>2, PTL DEF Spec
<1> QED
  BY <1>1, <1>2

=============================================================================
