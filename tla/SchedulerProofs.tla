--------------------------- MODULE SchedulerProofs ---------------------------
(***************************************************************************)
(* Proofs about module Scheduler, for every set of ids and workers, every  *)
(* priority, key and retry setting, and every bound: type correctness,     *)
(* backpressure, and that a task never has two carriers.  The last proof   *)
(* follows the task: every action keeps the carriers of an id, moves the   *)
(* one it has, or opens a first one where there was none.                  *)
(***************************************************************************)
EXTENDS Scheduler, SequenceTheorems, FiniteSetTheorems, TLAPS

\* Objs holds the pairs of an id and a generation.
LEMMA ObjsFacts ==
    /\ \A i \in Ids : <<i, 0>> \in Objs
    /\ \A o \in Objs : Id(o) \in Ids
    /\ \A i \in Ids, g \in 0 .. MaxGen : g < MaxGen => <<i, g + 1>> \in Objs
    /\ \A o \in Objs : KeySet(o) \subseteq Keys
  BY FieldsAssumption, BoundsAssumption, NilAssumption
  DEF Objs, Id, KeySet, Key

\* The critical section of Submit keeps the four variables it writes typed.
LEMMA SubmitTaskTypes ==
    ASSUME TypeOK, NEW o \in Objs, SubmitTask(o)
    PROVE  /\ tasks' \in [Ids -> Objs \union {Nil}]
           /\ \A i \in Ids : tasks'[i] # Nil => Id(tasks'[i]) = i
           /\ activeKeys' \subseteq Keys
           /\ queue' \in [Objs -> Nat]
           /\ status' \in [Objs -> Status]
<1>1. CASE QueueFull \/ KeyBusy(o)
  BY <1>1 DEF TypeOK, SubmitTask, Accepts
<1>2. CASE ~(QueueFull \/ KeyBusy(o))
  <2>1. activeKeys' = activeKeys \union KeySet(o)
    BY <1>2 DEF SubmitTask, Accepts
  <2>2. status' = [status EXCEPT ![o] = "Queued"]
    BY <1>2 DEF SubmitTask, Accepts
  <2>3. \/ UNCHANGED <<tasks, queue>>
        \/ /\ tasks' = [tasks EXCEPT ![Id(o)] = o]
           /\ queue' = [queue EXCEPT ![o] = @ + 1]
    BY <1>2 DEF SubmitTask, Accepts
  <2> QED
    <3>1. activeKeys' \subseteq Keys /\ status' \in [Objs -> Status]
      BY <2>1, <2>2, ObjsFacts DEF TypeOK, Status
    <3>2. queue' \in [Objs -> Nat]
      BY <2>3 DEF TypeOK
    <3>3. tasks' \in [Ids -> Objs \union {Nil}]
      BY <2>3, ObjsFacts DEF TypeOK
    <3>4. \A i \in Ids : tasks'[i] # Nil => Id(tasks'[i]) = i
      BY <2>3, ObjsFacts DEF TypeOK
    <3> QED
      BY <3>1, <3>2, <3>3, <3>4
<1> QED
  BY <1>1, <1>2

\* Recording a status keeps history typed.
LEMMA RecordTypes ==
    ASSUME TypeOK, NEW i \in Ids, NEW st \in Status, Record(i, st)
    PROVE  history' \in [Ids -> Seq(Status)]
<1>1. Append(history[i], st) \in Seq(Status)
  BY AppendProperties DEF TypeOK
<1> QED
  BY <1>1 DEF TypeOK, Record

\* Leaving runTask keeps the worker's variables typed.
LEMMA EndRunTypes ==
    ASSUME TypeOK, NEW w \in Workers, EndRun(w)
    PROVE  /\ wpc' \in [Workers -> WorkerPC]
           /\ wobj' \in [Workers -> Objs \union {Nil}]
           /\ \A v \in Workers : wpc'[v] # "idle" => wobj'[v] \in Objs
           /\ ctx' \in [Workers -> {"live", "canceled", "deadline"}]
           /\ done' \in [Workers -> {"none", "nil", "err"}]
           /\ cancelFn' \in [Objs -> Workers \union {Nil}]
  BY DEF TypeOK, EndRun, WorkerPC

\* New() leaves every variable typed.
LEMMA InitTypes == Init => TypeOK
  BY BoundsAssumption DEF Init, TypeOK, Status, WorkerPC

\* TypeOK is inductive: one step per action of Next.
LEMMA TypeStep == TypeOK /\ [Next]_vars => TypeOK'
<1> SUFFICES ASSUME TypeOK, [Next]_vars PROVE TypeOK'
  OBVIOUS
<1> USE ObjsFacts
<1>1. ASSUME NEW i \in Ids, Submit(i) PROVE TypeOK'
  BY <1>1, SubmitTaskTypes DEF TypeOK, Submit, worker, cancel
<1>2. ASSUME NEW i \in Ids, ScheduleOnceTask(i) PROVE TypeOK'
  BY <1>2 DEF TypeOK, ScheduleOnceTask, objects, worker, cancel, Id
<1>3. ASSUME NEW i \in Ids, Resubmit(i) PROVE TypeOK'
  <2>1. tasks[i] \in Objs
    BY <1>3 DEF TypeOK, Resubmit
  <2>2. /\ resubmits[i] + 1 \in 0 .. MaxResubmits
        /\ deadCount' \in Int
    <3>1. resubmits[i] \in 0 .. MaxResubmits /\ resubmits[i] < MaxResubmits
      BY <1>3 DEF TypeOK, Resubmit
    <3>2. deadCount \in Int /\ deadCount' = deadCount - LeavesDLQ(tasks[i])
      BY <1>3 DEF TypeOK, Resubmit
    <3>3. LeavesDLQ(tasks[i]) \in Int
      BY DEF LeavesDLQ
    <3> HIDE <1>3
    <3> QED  BY <3>1, <3>2, <3>3, BoundsAssumption
  <2> QED
    <3>1. status' \in [Objs -> Status] /\ attempts' \in [Objs -> Nat]
      BY <1>3, <2>1 DEF TypeOK, Resubmit, Status
    <3>2. queue' \in [Objs -> Nat]
      <4>1. queue \in [Objs -> Nat] /\ queue' = [queue EXCEPT ![tasks[i]] = @ + 1]
        BY <1>3 DEF TypeOK, Resubmit
      <4> QED
        BY <2>1, <4>1
    <3>3. resubmits' \in [Ids -> 0 .. MaxResubmits]
      <4>1. /\ resubmits \in [Ids -> 0 .. MaxResubmits]
            /\ resubmits' = [resubmits EXCEPT ![i] = @ + 1]
        BY <1>3 DEF TypeOK, Resubmit
      <4> QED
        BY <2>2, <4>1
    <3> QED
      BY <1>3, <2>2, <3>1, <3>2, <3>3 DEF TypeOK, Resubmit, table, worker, cancel
<1>4. ASSUME NEW i \in Ids, CancelBegin(i) PROVE TypeOK'
  <2>1. ctx' \in [Workers -> {"live", "canceled", "deadline"}]
    BY <1>4 DEF TypeOK, CancelBegin, CallCancel
  <2>2. status' \in [Objs -> Status]
    BY <1>4 DEF TypeOK, CancelBegin, Status
  <2>3. /\ cobj' \in [Ids -> Objs \union {Nil}]
        /\ \A j \in Ids : j # i => cobj'[j] = cobj[j]
    <3>1. cobj' = cobj \/ (tasks[i] # Nil /\ cobj' = [cobj EXCEPT ![i] = tasks[i]])
      BY <1>4 DEF CancelBegin
    <3>2. tasks[i] \in Objs \union {Nil} /\ cobj \in [Ids -> Objs \union {Nil}]
      BY DEF TypeOK
    <3> QED
      BY <3>1, <3>2
  <2>4. cpc' = [cpc EXCEPT ![i] = "unlink"]
    BY <1>4 DEF CancelBegin
  <2>5. /\ cpc' \in [Ids -> {"idle", "unlink", "finalize"}]
        /\ \A j \in Ids : cpc'[j] = "finalize" => cobj'[j] \in Objs
    BY <2>3, <2>4 DEF TypeOK
  <2> QED
    BY <1>4, <2>1, <2>2, <2>3, <2>5 DEF TypeOK, CancelBegin, table, client
<1>5. ASSUME NEW i \in Ids, CancelUnlink(i) PROVE TypeOK'
  BY <1>5 DEF TypeOK, CancelUnlink, table, objects, worker, client
<1>6. ASSUME NEW i \in Ids, CancelFinalize(i) PROVE TypeOK'
  <2>1. status[cobj[i]] \in Status
    BY <1>6 DEF TypeOK, CancelFinalize
  <2>2. history' \in [Ids -> Seq(Status)]
    BY <1>6, <2>1, RecordTypes DEF CancelFinalize
  <2> QED
    BY <1>6, <2>2 DEF TypeOK, CancelFinalize, ReleaseKey, objects, worker, client
<1>7. ASSUME NEW o \in Objs, ArmOnce(o) PROVE TypeOK'
  BY <1>7 DEF TypeOK, ArmOnce, WheelSchedule, table, objects, worker, cancel, client
<1>8. ASSUME NEW o \in Objs, WheelFire(o) PROVE TypeOK'
  BY <1>8 DEF TypeOK, WheelFire, table, objects, worker, cancel, client
<1>9. ASSUME NEW o \in Objs, WheelCallback(o) PROVE TypeOK'
  BY <1>9, SubmitTaskTypes DEF TypeOK, WheelCallback, worker, cancel, client
<1>10. ASSUME NEW o \in Objs, Pop(o) PROVE TypeOK'
  BY <1>10 DEF TypeOK, Pop, table, objects, worker, cancel, client
<1>11. ASSUME NEW w \in Workers, Dispatch(w) PROVE TypeOK'
  BY <1>11, NilAssumption DEF TypeOK, Dispatch, table, objects, cancel, client, WorkerPC
<1>12. ASSUME NEW w \in Workers, NEW res \in {"nil", "err"}, JobReturns(w, res) PROVE TypeOK'
  BY <1>12 DEF TypeOK, JobReturns, table, objects, cancel, client
<1>13. ASSUME NEW w \in Workers, Deadline(w) PROVE TypeOK'
  BY <1>13 DEF TypeOK, Deadline, table, objects, cancel, client
<1>14. ASSUME NEW w \in Workers, MarkRunning(w) PROVE TypeOK'
  BY <1>14 DEF TypeOK, MarkRunning, SetTracked, GoTo, table, cancel, client, Status, WorkerPC
<1>15. ASSUME NEW w \in Workers, CheckTracked(w) PROVE TypeOK'
  <2> DEFINE o == tasks[WId(w)]
  <2>1. WId(w) \in Ids
    BY <1>15 DEF TypeOK, CheckTracked, WId
  <2>2. CASE o = Nil
    <3>1. EndRun(w) /\ UNCHANGED <<tasks, history>>
      BY <1>15, <2>2 DEF CheckTracked
    <3> QED
      BY <1>15, <3>1, EndRunTypes DEF TypeOK, CheckTracked, cancel, client
  <2>3. CASE o # Nil /\ status[o] = "Cancelled"
    <3>1. history' \in [Ids -> Seq(Status)]
      <4>1. Record(WId(w), status[o]) /\ status[o] \in Status
        BY <1>15, <2>1, <2>3 DEF TypeOK, CheckTracked, Record
      <4> QED
        BY <2>1, <4>1, RecordTypes
    <3> QED
      <4>1. EndRun(w) /\ tasks' = [tasks EXCEPT ![WId(w)] = Nil]
        BY <1>15, <2>3 DEF CheckTracked
      <4> QED
        BY <1>15, <2>1, <3>1, <4>1, EndRunTypes DEF TypeOK, CheckTracked, cancel, client
  <2>4. CASE o # Nil /\ status[o] # "Cancelled"
    BY <1>15, <2>1, <2>4 DEF TypeOK, CheckTracked, GoTo, cancel, client, WorkerPC
  <2> QED
    BY <2>2, <2>3, <2>4
<1>16. ASSUME NEW w \in Workers, Hook(w) PROVE TypeOK'
  <2> DEFINE o == tasks[WId(w)]
  <2>1. WId(w) \in Ids
    BY <1>16 DEF TypeOK, Hook, WId
  <2>2. CASE CancelledBeforeHook(o)
    <3>1. EndRun(w) /\ UNCHANGED <<status, runs>>
      BY <1>16, <2>2 DEF Hook
    <3> QED
      BY <1>16, <3>1, EndRunTypes DEF TypeOK, Hook, table, cancel
  <2>3. CASE ~CancelledBeforeHook(o)
    <3>1. /\ cancelFn' = SetTracked(cancelFn, WId(w), w)
          /\ status' = SetTracked(status, WId(w), "Running")
          /\ runs' = [runs EXCEPT ![WId(w)] = @ + 1]
          /\ wpc' = [wpc EXCEPT ![w] = "run"]
          /\ UNCHANGED <<wobj, ctx, done>>
      BY <1>16, <2>3 DEF Hook, GoTo
    <3>2. /\ cancelFn' \in [Objs -> Workers \union {Nil}]
          /\ status' \in [Objs -> Status]
      BY <3>1 DEF TypeOK, SetTracked, Status
    <3>3. runs' \in [Ids -> Nat]
      BY <3>1, <2>1 DEF TypeOK
    <3>4. wpc' \in [Workers -> WorkerPC] /\ wobj[w] \in Objs
      BY <1>16, <3>1 DEF TypeOK, Hook, WorkerPC
    <3> QED
      BY <1>16, <3>1, <3>2, <3>3, <3>4 DEF TypeOK, Hook, table, cancel
  <2> QED
    BY <2>2, <2>3
<1>17. ASSUME NEW w \in Workers, TakeDone(w) PROVE TypeOK'
  BY <1>17 DEF TypeOK, TakeDone, ReleaseKey, GoTo, objects, cancel, client, WorkerPC
<1>18. ASSUME NEW w \in Workers, TakeCtxDone(w) PROVE TypeOK'
  BY <1>18 DEF TypeOK, TakeCtxDone, ReleaseKey, GoTo, cancel, client, Status, WorkerPC
<1>19. ASSUME NEW w \in Workers, Succeed(w) PROVE TypeOK'
  BY <1>19 DEF TypeOK, Succeed, SetTracked, Record, GoTo, WId, table, cancel, client, Status, WorkerPC
<1>20. ASSUME NEW w \in Workers, FinishCancelled(w) PROVE TypeOK'
  <2>1. status' \in [Objs -> Status]
    BY <1>20 DEF TypeOK, FinishCancelled, SetTracked, Status
  <2>2. WId(w) \in Ids /\ status'[wobj[w]] \in Status
    BY <1>20, <2>1 DEF TypeOK, FinishCancelled, WId
  <2>3. history' \in [Ids -> Seq(Status)]
    BY <1>20, <2>2, RecordTypes DEF FinishCancelled
  <2> QED
    BY <1>20, <2>1, <2>3 DEF TypeOK, FinishCancelled, GoTo, table, cancel, client, WorkerPC
<1>21. ASSUME NEW w \in Workers, Evict(w) PROVE TypeOK'
  BY <1>21 DEF TypeOK, Evict, EndRun, WId, cancel, client, WorkerPC
<1>22. ASSUME NEW w \in Workers, Decide(w) PROVE TypeOK'
  <2>1. /\ deadCount' \in Int
        /\ \E pc \in {"dead", "retry", "failed"} : wpc' = [wpc EXCEPT ![w] = pc]
    BY <1>22 DEF TypeOK, Decide, GoTo
  <2>2. wpc' \in [Workers -> WorkerPC] /\ wobj[w] \in Objs
    BY <1>22, <2>1 DEF TypeOK, Decide, WorkerPC
  <2> QED
    BY <1>22, <2>1, <2>2 DEF TypeOK, Decide, table, objects, cancel, client
<1>23. ASSUME NEW w \in Workers, Publish(w) PROVE TypeOK'
  <2>1. ASSUME NEW d \in WorkerPC \ {"idle"}, NEW st \in Status, NEW pc \in WorkerPC,
               PublishAs(w, d, st, pc)
        PROVE  TypeOK'
    <3>1. status' \in [Objs -> Status]
      BY <2>1 DEF TypeOK, PublishAs, SetTracked
    <3> QED
      BY <2>1, <3>1 DEF TypeOK, PublishAs, GoTo, table, cancel, client, WorkerPC
  <2> QED
    BY <1>23, <2>1 DEF Publish, WorkerPC, Status
<1>24. ASSUME NEW w \in Workers, ArmRetry(w) PROVE TypeOK'
  <2> DEFINE o == <<WId(w), gen[WId(w)] + 1>>
  <2>1. WId(w) \in Ids /\ wobj[w] \in Objs
    BY <1>24 DEF TypeOK, ArmRetry, WId
  <2>2. gen[WId(w)] \in 0 .. MaxGen /\ gen[WId(w)] < MaxGen
    BY <1>24, <2>1 DEF TypeOK, ArmRetry
  <2>3. o \in Objs /\ gen[WId(w)] + 1 \in 0 .. MaxGen
    BY <2>1, <2>2, BoundsAssumption
  <2>4. attempts' \in [Objs -> Nat]
    <3>1. attempts' = [attempts EXCEPT ![o] = attempts[wobj[w]] + 1]
      BY <1>24 DEF ArmRetry
    <3>2. attempts \in [Objs -> Nat] /\ attempts[wobj[w]] + 1 \in Nat
      BY <2>1 DEF TypeOK
    <3> QED
      BY <2>3, <3>1, <3>2
  <2>5. wheel' \in [Objs -> {"idle", "arming", "armed", "firing"}]
    BY <1>24 DEF TypeOK, ArmRetry, WheelSchedule
  <2>6. gen' \in [Ids -> 0 .. MaxGen]
    BY <1>24, <2>1, <2>3 DEF TypeOK, ArmRetry
  <2> QED
    BY <1>24, <2>1, <2>4, <2>5, <2>6 DEF TypeOK, ArmRetry, GoTo, table, cancel, client, WorkerPC
<1>25. ASSUME NEW w \in Workers, RecordFailure(w) PROVE TypeOK'
  <2>1. WId(w) \in Ids /\ status[wobj[w]] \in Status
    BY <1>25 DEF TypeOK, RecordFailure, WId
  <2>2. history' \in [Ids -> Seq(Status)]
    BY <1>25, <2>1, RecordTypes DEF RecordFailure
  <2> QED
    BY <1>25, <2>2 DEF TypeOK, RecordFailure, GoTo, table, objects, cancel, client, WorkerPC
<1>26. CASE UNCHANGED vars
  BY <1>26 DEF TypeOK, vars, table, objects, worker, cancel, client
<1> QED
  BY <1>1, <1>2, <1>3, <1>4, <1>5, <1>6, <1>7, <1>8, <1>9, <1>10, <1>11, <1>12,
     <1>13, <1>14, <1>15, <1>16, <1>17, <1>18, <1>19, <1>20, <1>21, <1>22, <1>23,
     <1>24, <1>25, <1>26
  DEF Next, ClientStep, CancelStep, JobStep, WorkerStep, WheelStep

\* Every variable of the scheduler keeps its type, whatever the constants:
\* in particular a worker past its receive always holds a task, Cancel always
\* finalizes a real object, and a task is tracked under its own id.
THEOREM TypeCorrect == Spec => []TypeOK
  BY InitTypes, TypeStep, PTL DEF Spec

-----------------------------------------------------------------------------
(* Capacity *)

\* Only Submit, from a client or from the wheel, and ScheduleOnceTask add to
\* the active map.
LEMMA TrackedGrows ==
    ASSUME TypeOK, [Next]_vars
    PROVE  \/ Tracked' \subseteq Tracked
           \/ \E i \in Ids : i \in Once /\ Tracked' \subseteq Tracked \union {i}
           \/ \E i \in Ids : ~QueueFull /\ Tracked' \subseteq Tracked \union {i}
<1>1. CASE \A i \in Ids : tasks'[i] \in {tasks[i], Nil}
  BY <1>1 DEF Tracked
<1>2. CASE tasks' = tasks
  BY <1>2 DEF Tracked
<1>3. ASSUME NEW o \in Objs, SubmitTask(o)
      PROVE  \/ Tracked' \subseteq Tracked
             \/ \E i \in Ids : ~QueueFull /\ Tracked' \subseteq Tracked \union {i}
  <2>1. tasks' = tasks \/ (~QueueFull /\ tasks' = [tasks EXCEPT ![Id(o)] = o])
    BY <1>3 DEF SubmitTask, Accepts
  <2>2. CASE ~QueueFull /\ tasks' = [tasks EXCEPT ![Id(o)] = o]
    <3>1. Id(o) \in Ids /\ \A i \in Ids : i # Id(o) => tasks'[i] = tasks[i]
      BY <2>2, ObjsFacts DEF TypeOK
    <3> QED
      BY <2>2, <3>1 DEF Tracked
  <2>3. CASE tasks' = tasks
    BY <2>3 DEF Tracked
  <2> QED
    BY <2>1, <2>2, <2>3
<1>4. ASSUME NEW i \in Ids, ClientStep(i)
      PROVE  \/ tasks' = tasks \/ SubmitTask(<<i, 0>>)
             \/ i \in Once /\ Tracked' \subseteq Tracked \union {i}
  <2>1. CASE ScheduleOnceTask(i)
    <3>1. i \in Once /\ \A j \in Ids : j # i => tasks'[j] = tasks[j]
      BY <2>1 DEF ScheduleOnceTask, TypeOK
    <3> QED
      BY <3>1 DEF Tracked
  <2> QED
    BY <1>4, <2>1 DEF ClientStep, Submit, Resubmit, CancelBegin, table
<1>5. ASSUME NEW i \in Ids, CancelStep(i) PROVE \A j \in Ids : tasks'[j] \in {tasks[j], Nil}
  BY <1>5 DEF CancelStep, CancelUnlink, CancelFinalize, table, TypeOK
<1>6. ASSUME NEW o \in Objs, WheelStep(o) \/ Pop(o) PROVE tasks' = tasks \/ SubmitTask(o)
  BY <1>6 DEF WheelStep, ArmOnce, WheelFire, WheelCallback, Pop, table
<1>7. ASSUME NEW w \in Workers, Dispatch(w) \/ JobStep(w) \/ Deadline(w) \/ WorkerStep(w)
      PROVE  tasks' = tasks \/ tasks' = [tasks EXCEPT ![WId(w)] = Nil]
  BY <1>7 DEF Dispatch, JobStep, JobReturns, Deadline, WorkerStep, MarkRunning,
      CheckTracked, Hook, TakeDone, TakeCtxDone, Succeed, FinishCancelled, Decide,
      Publish, PublishAs, ArmRetry, RecordFailure, Evict, table
<1>8. ASSUME NEW w \in Workers, tasks' = [tasks EXCEPT ![WId(w)] = Nil]
      PROVE  \A j \in Ids : tasks'[j] \in {tasks[j], Nil}
  BY <1>8 DEF TypeOK
<1>9. \A i \in Ids : <<i, 0>> \in Objs
  BY ObjsFacts
<1> QED
  BY <1>1, <1>2, <1>3, <1>4, <1>5, <1>6, <1>7, <1>8, <1>9 DEF Next, vars, table

\* Backpressure for every capacity: at most MaxQueueSize tasks that were not
\* scheduled are in the active map, however submissions, retries that come
\* back from the wheel and evictions interleave.
THEOREM CapacityRespected == Spec => []Backpressure
<1>1. Init => TypeOK /\ Backpressure
  <2> SUFFICES ASSUME Init PROVE TypeOK /\ Backpressure
    OBVIOUS
  <2>1. Tracked \ Once = {}
    BY DEF Init, Tracked
  <2>2. Cardinality(Tracked \ Once) = 0
    BY <2>1, FS_EmptySet
  <2> QED
    BY <2>2, InitTypes, BoundsAssumption DEF Backpressure
<1>2. (TypeOK /\ Backpressure) /\ [Next]_vars => (TypeOK /\ Backpressure)'
  <2> SUFFICES ASSUME TypeOK, Backpressure, [Next]_vars PROVE Backpressure'
    BY TypeStep
  <2>1. /\ IsFiniteSet(Tracked) /\ IsFiniteSet(Tracked \ Once) /\ IsFiniteSet(Tracked')
        /\ Tracked \subseteq Ids /\ Tracked' \subseteq Ids
    <3>1. Tracked \subseteq Ids /\ Tracked' \subseteq Ids /\ (Tracked \ Once) \subseteq Ids
      BY DEF Tracked
    <3> QED
      BY <3>1, SetsAssumption, FS_Subset
  <2>2. CASE Tracked' \ Once \subseteq Tracked \ Once
    <3>1. Cardinality(Tracked' \ Once) <= Cardinality(Tracked \ Once)
      BY <2>1, <2>2, FS_Subset
    <3>2. /\ Cardinality(Tracked \ Once) \in Nat /\ Cardinality(Tracked' \ Once) \in Nat
      BY <2>1, <2>2, FS_Subset, FS_CardinalityType
    <3> QED
      BY <3>1, <3>2, BoundsAssumption DEF Backpressure
  <2>3. ASSUME NEW i \in Ids, ~QueueFull, Tracked' \subseteq Tracked \union {i}
        PROVE  Backpressure'
    <3>1. Cardinality(Tracked) < MaxQueueSize /\ Cardinality(Tracked) \in Nat
      BY <2>1, <2>3, FS_CardinalityType, BoundsAssumption DEF QueueFull
    <3>2. /\ IsFiniteSet(Tracked \union {i})
          /\ Cardinality(Tracked \union {i}) <= Cardinality(Tracked) + 1
      <4>1. /\ IsFiniteSet(Tracked \union {i})
            /\ Cardinality(Tracked \union {i}) = IF i \in Tracked THEN Cardinality(Tracked)
                                                 ELSE Cardinality(Tracked) + 1
        BY <2>1, FS_AddElement
      <4> QED
        BY <3>1, <4>1
    <3>3. /\ Tracked' \ Once \subseteq Tracked \union {i}
          /\ IsFiniteSet(Tracked' \ Once)
          /\ Cardinality(Tracked' \ Once) <= Cardinality(Tracked \union {i})
      BY <2>3, <3>2, FS_Subset
    <3>4. Cardinality(Tracked' \ Once) \in Nat /\ Cardinality(Tracked \union {i}) \in Nat
      BY <3>2, <3>3, FS_CardinalityType
    <3> QED
      BY <3>1, <3>2, <3>3, <3>4, BoundsAssumption DEF Backpressure
  <2> QED
    BY <2>2, <2>3, TrackedGrows
<1>3. TypeOK /\ Backpressure => Backpressure
  OBVIOUS
<1> QED
  BY <1>1, <1>2, <1>3, PTL DEF Spec

-----------------------------------------------------------------------------
(* One carrier *)

\* The three things an action may do to the carriers of i.
Keeps(i) == Carriers(i)' \subseteq Carriers(i)
Moves(i) == \E a \in Carriers(i) : \E b : \A c \in Carriers(i)' :
                c = b \/ (c \in Carriers(i) /\ c # a)
Opens(i) == Carriers(i) = {} /\ \E b : \A c \in Carriers(i)' : c = b

Unique(i) == \A c, d \in Carriers(i) : c = d

\* Each of them keeps the carrier unique.
LEMMA StaysUnique ==
    ASSUME NEW i, Unique(i), Keeps(i) \/ Moves(i) \/ Opens(i)
    PROVE  Unique(i)'
  BY DEF Unique, Keeps, Moves, Opens

\* A step that puts no object of j into the heap, the wheel or dequeueLoop's hand,
\* and no worker on its way to executing one, keeps the carriers of j.
LEMMA NothingNew ==
    ASSUME NEW j \in Ids,
           \A o \in Objs : Id(o) = j /\ queue'[o] > 0 => queue[o] > 0,
           \A o \in Objs : Id(o) = j /\ wheel'[o] # "idle" => wheel[o] # "idle",
           \A o \in Objs : Id(o) = j /\ dq' = o => dq = o,
           \A w \in Workers : wpc'[w] \in Active /\ Id(wobj'[w]) = j =>
                                 wpc[w] \in Active /\ wobj'[w] = wobj[w]
    PROVE  Keeps(j)
<1> SUFFICES ASSUME NEW c \in Carriers(j)' PROVE c \in Carriers(j)
  BY DEF Keeps
<1> QED
  BY DEF Carriers, WId

\* A worker goes on with its task, without becoming a carrier, or ends.
StaysOrEnds(w) ==
    \/ \E pc \in WorkerPC : /\ pc \in Active => wpc[w] \in Active
                            /\ wpc' = [wpc EXCEPT ![w] = pc] /\ UNCHANGED wobj
    \/ EndRun(w)

\* Such a step creates no carrier.
LEMMA WorkerOnly ==
    ASSUME TypeOK, NEW w \in Workers, NEW j \in Ids, UNCHANGED <<queue, wheel, dq>>,
           StaysOrEnds(w)
    PROVE  Keeps(j)
<1>1. \A v \in Workers : wpc'[v] \in Active => wpc[v] \in Active /\ wobj'[v] = wobj[v]
  BY DEF TypeOK, EndRun, Active, StaysOrEnds
<1> QED
  BY <1>1, NothingNew

\* dequeueLoop's pop moves a task from the heap to its hand.
LEMMA PopCarriers ==
    ASSUME TypeOK, OneCarrier, NEW o \in Objs, Pop(o), NEW j \in Ids
    PROVE  Keeps(j) \/ Moves(j)
<1>1. CASE Id(o) = j
  <2>1. <<"queue", o>> \in Carriers(j)
    BY <1>1 DEF Pop, Carriers
  <2>2. ASSUME NEW c \in Carriers(j)', c # <<"dequeued", o>>
        PROVE  c \in Carriers(j) /\ c # <<"queue", o>>
    BY <1>1, <2>2 DEF Pop, Carriers, TypeOK, worker, WId, OneCarrier
  <2> QED
    BY <2>1, <2>2 DEF Moves
<1>2. CASE Id(o) # j
  BY <1>2, NothingNew DEF Pop, TypeOK, worker
<1> QED
  BY <1>1, <1>2

\* dispatchTask moves it from dequeueLoop to a worker.
LEMMA DispatchCarriers ==
    ASSUME TypeOK, NEW w \in Workers, Dispatch(w), NEW j \in Ids
    PROVE  Keeps(j) \/ Moves(j)
<1>0. dq \in Objs /\ dq' = Nil /\ Nil \notin Objs
  BY NilAssumption DEF TypeOK, Dispatch
<1>1. CASE Id(dq) = j
  <2>1. <<"dequeued", dq>> \in Carriers(j)
    BY <1>0, <1>1 DEF Carriers
  <2>2. ASSUME NEW c \in Carriers(j)', c # <<"worker", w>>
        PROVE  c \in Carriers(j) /\ c # <<"dequeued", dq>>
    BY <1>0, <1>1, <2>2 DEF Dispatch, Carriers, TypeOK, WId
  <2> QED
    BY <2>1, <2>2 DEF Moves
<1>2. CASE Id(dq) # j
  <2>1. \A o \in Objs : dq' # o
    BY <1>0
  <2>2. \A v \in Workers : wpc'[v] \in Active /\ Id(wobj'[v]) = j =>
                              wpc[v] \in Active /\ wobj'[v] = wobj[v]
    BY <1>2 DEF Dispatch, TypeOK
  <2> QED
    BY <2>1, <2>2, NothingNew DEF Dispatch
<1> QED
  BY <1>1, <1>2

\* handleFailure's wheel.Schedule moves it from the worker to the wheel.
LEMMA ArmRetryCarriers ==
    ASSUME TypeOK, NEW w \in Workers, ArmRetry(w), NEW j \in Ids
    PROVE  Keeps(j) \/ Moves(j)
<1> DEFINE o == <<WId(w), gen[WId(w)] + 1>>
<1>0. /\ wpc[w] = "arm" /\ wpc' = [wpc EXCEPT ![w] = "tail"]
      /\ UNCHANGED <<queue, dq, wobj>>
      /\ \A p \in Objs : wheel'[p] # "idle" => p = o \/ wheel[p] # "idle"
      /\ Id(o) = WId(w)
  BY DEF ArmRetry, WheelSchedule, GoTo, Id
<1> HIDE DEF o
<1>1. CASE WId(w) = j
  <2>1. <<"worker", w>> \in Carriers(j)
    BY <1>0, <1>1 DEF Carriers, Active
  <2>2. ASSUME NEW c \in Carriers(j)', c # <<"wheel", o>>
        PROVE  c \in Carriers(j) /\ c # <<"worker", w>>
    BY <1>0, <2>2 DEF Carriers, TypeOK, WId, Active
  <2> QED
    BY <2>1, <2>2 DEF Moves
<1>2. CASE WId(w) # j
  BY <1>0, <1>2, NothingNew DEF TypeOK, WId, Active
<1> QED
  BY <1>1, <1>2

\* A wheel callback moves it to the heap, or loses it when Submit refuses.
LEMMA CallbackCarriers ==
    ASSUME TypeOK, NEW o \in Objs, WheelCallback(o), NEW j \in Ids
    PROVE  Keeps(j) \/ Moves(j)
<1>0. /\ wheel[o] = "firing" /\ wheel' = [wheel EXCEPT ![o] = "idle"]
      /\ UNCHANGED <<dq, wpc, wobj>>
      /\ queue' = queue \/ queue' = [queue EXCEPT ![o] = @ + 1]
  BY DEF WheelCallback, SubmitTask, worker
<1>1. CASE Id(o) = j
  <2>1. <<"wheel", o>> \in Carriers(j)
    BY <1>0, <1>1 DEF Carriers
  <2>2. ASSUME NEW c \in Carriers(j)', c # <<"queue", o>>
        PROVE  c \in Carriers(j) /\ c # <<"wheel", o>>
    BY <1>0, <2>2 DEF Carriers, TypeOK, WId
  <2> QED
    BY <2>1, <2>2 DEF Moves
<1>2. CASE Id(o) # j
  BY <1>0, <1>2, NothingNew DEF TypeOK
<1> QED
  BY <1>1, <1>2

\* Submit and Resubmit push an object of an id that has no carrier.
LEMMA PushCarriers ==
    ASSUME TypeOK, NEW o \in Objs, NEW j \in Ids, Id(o) = j => Carriers(j) = {},
           queue' = queue \/ queue' = [queue EXCEPT ![o] = @ + 1],
           UNCHANGED <<wheel, dq, wpc, wobj>>
    PROVE  Keeps(j) \/ Opens(j)
<1>1. CASE Id(o) = j
  <2>1. ASSUME NEW c \in Carriers(j)', c # <<"queue", o>> PROVE c \in Carriers(j)
    BY <2>1 DEF Carriers, TypeOK, WId
  <2>2. \A c \in Carriers(j)' : c = <<"queue", o>>
    BY <1>1, <2>1
  <2> QED
    BY <1>1, <2>2 DEF Opens
<1>2. CASE Id(o) # j
  BY <1>2, NothingNew DEF TypeOK
<1> QED
  BY <1>1, <1>2

\* ScheduleOnceTask opens the first carrier of its task.
LEMMA OnceCarriers ==
    ASSUME TypeOK, NEW i \in Ids, ScheduleOnceTask(i), NEW j \in Ids,
           i = j => Carriers(j) = {}
    PROVE  Keeps(j) \/ Opens(j)
<1>0. /\ wheel' = [wheel EXCEPT ![<<i, 0>>] = "arming"]
      /\ UNCHANGED <<queue, dq, wpc, wobj>> /\ Id(<<i, 0>>) = i
  BY DEF ScheduleOnceTask, worker, Id
<1>1. CASE i = j
  <2>1. ASSUME NEW c \in Carriers(j)', c # <<"wheel", <<i, 0>>>> PROVE c \in Carriers(j)
    BY <1>0, <2>1 DEF Carriers, TypeOK, WId
  <2>2. \A c \in Carriers(j)' : c = <<"wheel", <<i, 0>>>>
    BY <1>1, <2>1
  <2> QED
    BY <1>1, <2>2 DEF Opens
<1>2. CASE i # j
  BY <1>0, <1>2, NothingNew DEF TypeOK
<1> QED
  BY <1>1, <1>2

-----------------------------------------------------------------------------
(* The inductive invariant *)

Defeated == {"Dead", "Failed"}

\* Before a client's call is accepted its task is nowhere in the scheduler.
Fresh ==
    \A i \in Ids : outcome[i] # "accepted" =>
        /\ tasks[i] = Nil /\ Carriers(i) = {} /\ status[<<i, 0>>] = "Queued"
        /\ \A w \in Workers : ~Busy(w, i)

\* Without timeouts no context passes its deadline ...
NoDeadline == Timeouts = {} => \A w \in Workers : ctx[w] # "deadline"

\* ... and a task shown as Dead or Failed, which Resubmit would push again,
\* has no carrier left.
Quiet ==
    Timeouts = {} =>
        \A i \in Ids : tasks[i] # Nil /\ status[tasks[i]] \in Defeated => Carriers(i) = {}

CarrierInv == TypeOK /\ OneCarrier /\ Fresh /\ NoDeadline /\ Quiet

\* What a step of the scheduler's own goroutines, or of Cancel, does to an id.
Calm(i) ==
    /\ Keeps(i) \/ Moves(i)
    /\ outcome'[i] = outcome[i]
    /\ tasks'[i] # Nil => \/ tasks'[i] = tasks[i]
                          \/ Carriers(i) # {} /\ status'[tasks'[i]] = "Queued"
    /\ \/ status'[<<i, 0>>] = status[<<i, 0>>] \/ tasks[i] # Nil
       \/ Carriers(i) # {} \/ \E w \in Workers : Busy(w, i)
    /\ /\ Timeouts = {} /\ tasks[i] # Nil /\ tasks'[i] = tasks[i]
       /\ status'[tasks[i]] \in Defeated
       => status[tasks[i]] \in Defeated \/ (Carriers(i) # {} /\ Carriers(i)' = {})
    /\ \A w \in Workers : Busy(w, i)' => Busy(w, i) \/ Carriers(i) # {}

\* What the invariant says of one id.
IdInv(i) ==
    /\ Unique(i)
    /\ outcome[i] # "accepted" =>
          /\ tasks[i] = Nil /\ Carriers(i) = {} /\ status[<<i, 0>>] = "Queued"
          /\ \A w \in Workers : ~Busy(w, i)
    /\ Timeouts = {} /\ tasks[i] # Nil /\ status[tasks[i]] \in Defeated => Carriers(i) = {}

\* A calm step keeps what the invariant says of the id.
LEMMA CalmPreserves ==
    ASSUME CarrierInv, NEW i \in Ids, Calm(i)
    PROVE  IdInv(i)'
<1>1. Unique(i)'
  BY StaysUnique DEF CarrierInv, OneCarrier, Unique, Calm
<1>2. Carriers(i) = {} => Carriers(i)' = {}
  BY DEF Calm, Keeps, Moves
<1>3. outcome'[i] # "accepted" =>
        /\ tasks'[i] = Nil /\ Carriers(i)' = {} /\ status'[<<i, 0>>] = "Queued"
        /\ \A w \in Workers : ~Busy(w, i)'
  BY <1>2 DEF CarrierInv, Fresh, Calm
<1>4. Timeouts = {} /\ tasks'[i] # Nil /\ status'[tasks'[i]] \in Defeated
        => Carriers(i)' = {}
  BY <1>2 DEF CarrierInv, Quiet, Calm, Defeated
<1> QED
  BY <1>1, <1>3, <1>4 DEF IdInv

\* The worker stops being a carrier.
HandsOver(w) == wpc[w] \in Active /\ wpc'[w] \notin Active

\* When the only carrier of a task is its worker and it stops being one, the
\* task has none left.
LEMMA HandedOver ==
    ASSUME TypeOK, OneCarrier, NEW w \in Workers, NEW j \in Ids, WId(w) = j,
           HandsOver(w), Keeps(j)
    PROVE  Carriers(j)' = {}
<1>1. <<"worker", w>> \in Carriers(j)
  BY DEF Carriers, HandsOver
<1>2. <<"worker", w>> \notin Carriers(j)'
  BY DEF Carriers, HandsOver
<1> QED
  BY <1>1, <1>2 DEF OneCarrier, Keeps

\* The steps of one worker that keep the heap, the wheel and dequeueLoop, and
\* set at most the status of its own and of the tracked object.
LEMMA CalmWorker ==
    ASSUME CarrierInv, NEW w \in Workers, NEW j \in Ids, wpc[w] # "idle",
           UNCHANGED <<queue, wheel, dq, outcome>>, StaysOrEnds(w),
           tasks' = tasks \/ tasks' = [tasks EXCEPT ![WId(w)] = Nil],
           \A o \in Objs : \/ status'[o] = status[o]
                           \/ /\ o = tasks[WId(w)] \/ o = wobj[w]
                              /\ Timeouts = {} => status'[o] \notin Defeated \/ HandsOver(w)
    PROVE  Calm(j)
<1> USE DEF CarrierInv
<1>1. WId(w) \in Ids
  BY ObjsFacts DEF TypeOK, WId
<1>2. Keeps(j)
  BY WorkerOnly
<1>3. tasks'[j] # Nil => tasks'[j] = tasks[j]
  BY DEF TypeOK
<1>4. \/ status'[<<j, 0>>] = status[<<j, 0>>] \/ tasks[j] # Nil
      \/ \E v \in Workers : Busy(v, j)
  <2>1. <<j, 0>> \in Objs /\ Id(<<j, 0>>) = j
    BY ObjsFacts DEF Id
  <2>2. ASSUME <<j, 0>> = tasks[WId(w)] PROVE tasks[j] # Nil
    <3>1. tasks[WId(w)] # Nil
      BY <2>1, <2>2, NilAssumption
    <3>2. WId(w) = j
      BY <1>1, <2>1, <2>2, <3>1 DEF TypeOK
    <3> QED
      BY <3>1, <3>2
  <2>3. <<j, 0>> = wobj[w] => Busy(w, j)
    BY <2>1 DEF Busy, WId
  <2> QED
    BY <2>1, <2>2, <2>3
<1>5. ASSUME Timeouts = {}, tasks[j] # Nil, status'[tasks[j]] \in Defeated
      PROVE  status[tasks[j]] \in Defeated \/ (Carriers(j) # {} /\ Carriers(j)' = {})
  <2>1. tasks[j] \in Objs /\ Id(tasks[j]) = j
    BY <1>5 DEF TypeOK
  <2>2. tasks[j] = tasks[WId(w)] \/ tasks[j] = wobj[w] => WId(w) = j
    BY <1>1, <1>5, <2>1 DEF TypeOK, WId
  <2>3. status'[tasks[j]] = status[tasks[j]] \/ (WId(w) = j /\ HandsOver(w))
    BY <1>5, <2>1, <2>2
  <2>4. WId(w) = j /\ HandsOver(w) => Carriers(j) # {}
    BY DEF HandsOver, Carriers
  <2> QED
    BY <1>2, <1>5, <2>3, <2>4, HandedOver
<1>6. \A v \in Workers : Busy(v, j)' => Busy(v, j)
  <2>1. \A v \in Workers : wpc'[v] # "idle" => wpc[v] # "idle" /\ wobj'[v] = wobj[v]
    BY DEF TypeOK, EndRun, StaysOrEnds
  <2> QED
    BY <2>1 DEF Busy, WId
<1> QED
  BY <1>2, <1>3, <1>4, <1>5, <1>6 DEF Calm

\* The steps that leave every worker where it is: Cancel, the wheel, Pop.
LEMMA CalmStill ==
    ASSUME CarrierInv, NEW j \in Ids, Keeps(j) \/ Moves(j),
           UNCHANGED <<wpc, wobj, outcome>>, tasks'[j] \in {tasks[j], Nil},
           \A o \in Objs : \/ status'[o] = status[o]
                           \/ o = tasks[Id(o)] /\ status'[o] \notin Defeated
    PROVE  Calm(j)
<1> USE DEF CarrierInv
<1>1. status'[<<j, 0>>] = status[<<j, 0>>] \/ tasks[j] # Nil
  <2>1. <<j, 0>> \in Objs /\ Id(<<j, 0>>) = j
    BY ObjsFacts DEF Id
  <2> QED
    BY <2>1, NilAssumption
<1>2. tasks[j] # Nil /\ status'[tasks[j]] \in Defeated => status[tasks[j]] \in Defeated
  <2>1. tasks[j] # Nil => tasks[j] \in Objs
    BY DEF TypeOK
  <2> QED
    BY <2>1
<1>3. \A v \in Workers : Busy(v, j)' => Busy(v, j)
  BY DEF Busy, WId
<1> QED
  BY <1>1, <1>2, <1>3 DEF Calm

\* Everything the scheduler does on its own, and Cancel, is calm.
LEMMA OwnStepCalm ==
    ASSUME CarrierInv, NEW j \in Ids,
           \/ \E i \in Ids : CancelBegin(i) \/ CancelStep(i)
           \/ \E o \in Objs : WheelStep(o) \/ Pop(o)
           \/ \E w \in Workers : Dispatch(w) \/ JobStep(w) \/ Deadline(w) \/ WorkerStep(w)
           \/ UNCHANGED vars
    PROVE  Calm(j)
<1> USE DEF CarrierInv
<1>1. ASSUME NEW i \in Ids, CancelBegin(i) PROVE Calm(j)
  <2>1. Keeps(j)
    BY <1>1, NothingNew DEF CancelBegin
  <2>2. \A o \in Objs : \/ status'[o] = status[o]
                        \/ o = tasks[Id(o)] /\ status'[o] \notin Defeated
    <3>1. \/ status' = status
          \/ tasks[i] # Nil /\ status' = [status EXCEPT ![tasks[i]] = "Cancelled"]
      BY <1>1 DEF CancelBegin
    <3>2. tasks[i] # Nil => tasks[i] \in Objs /\ Id(tasks[i]) = i
      BY DEF TypeOK
    <3> QED
      BY <3>1, <3>2 DEF TypeOK, Defeated
  <2> QED
    BY <1>1, <2>1, <2>2, CalmStill DEF CancelBegin, table, client
<1>2. ASSUME NEW i \in Ids, CancelUnlink(i) PROVE Calm(j)
  <2>1. Keeps(j)
    BY <1>2, NothingNew DEF CancelUnlink, worker
  <2> QED
    BY <1>2, <2>1, CalmStill DEF CancelUnlink, table, objects, worker, client
<1>3. ASSUME NEW i \in Ids, CancelFinalize(i) PROVE Calm(j)
  <2>1. Keeps(j)
    BY <1>3, NothingNew DEF CancelFinalize, worker
  <2>2. tasks'[j] \in {tasks[j], Nil}
    BY <1>3 DEF CancelFinalize, TypeOK
  <2> QED
    BY <1>3, <2>1, <2>2, CalmStill DEF CancelFinalize, objects, worker, client
<1>4. ASSUME NEW o \in Objs, ArmOnce(o) PROVE Calm(j)
  <2>1. Keeps(j)
    BY <1>4, NothingNew DEF ArmOnce, WheelSchedule, worker
  <2> QED
    BY <1>4, <2>1, CalmStill DEF ArmOnce, table, objects, worker, client
<1>5. ASSUME NEW o \in Objs, WheelFire(o) PROVE Calm(j)
  <2>1. Keeps(j)
    BY <1>5, NothingNew DEF WheelFire, worker, TypeOK
  <2> QED
    BY <1>5, <2>1, CalmStill DEF WheelFire, table, objects, worker, client
<1>6. ASSUME NEW o \in Objs, Pop(o) PROVE Calm(j)
  BY <1>6, PopCarriers, CalmStill DEF Pop, table, objects, worker, client
<1>7. ASSUME NEW w \in Workers, NEW res \in {"nil", "err"}, JobReturns(w, res) PROVE Calm(j)
  <2>1. Keeps(j)
    BY <1>7, NothingNew DEF JobReturns
  <2> QED
    BY <1>7, <2>1, CalmStill DEF JobReturns, table, objects, client
<1>8. ASSUME NEW w \in Workers, Deadline(w) PROVE Calm(j)
  <2>1. Keeps(j)
    BY <1>8, NothingNew DEF Deadline
  <2> QED
    BY <1>8, <2>1, CalmStill DEF Deadline, table, objects, client
<1>9. CASE UNCHANGED vars
  <2>1. Keeps(j)
    BY <1>9, NothingNew DEF vars, worker
  <2> QED
    BY <1>9, <2>1, CalmStill DEF vars, table, objects, worker, client
<1>10. ASSUME NEW o \in Objs, WheelCallback(o) PROVE Calm(j)
  <2>1. Keeps(j) \/ Moves(j)
    BY <1>10, CallbackCarriers
  <2>2. UNCHANGED <<wpc, wobj, outcome>>
    BY <1>10 DEF WheelCallback, worker, client
  <2>3. \A p \in Objs : status'[p] = status[p] \/ (p = o /\ status'[p] = "Queued")
    BY <1>10 DEF WheelCallback, SubmitTask, TypeOK
  <2>4. tasks' = tasks \/ (tasks' = [tasks EXCEPT ![Id(o)] = o] /\ status'[o] = "Queued")
    BY <1>10 DEF WheelCallback, SubmitTask, TypeOK
  <2>5. Id(o) = j => Carriers(j) # {}
    BY <1>10 DEF WheelCallback, Carriers
  <2>6. status'[<<j, 0>>] = status[<<j, 0>>] \/ Carriers(j) # {}
    <3>1. <<j, 0>> \in Objs /\ Id(<<j, 0>>) = j
      BY ObjsFacts DEF Id
    <3> QED
      BY <2>3, <2>5, <3>1
  <2>7. tasks'[j] # Nil => \/ tasks'[j] = tasks[j]
                           \/ Carriers(j) # {} /\ status'[tasks'[j]] = "Queued"
    BY <2>4, <2>5, ObjsFacts DEF TypeOK
  <2>8. tasks[j] # Nil /\ status'[tasks[j]] \in Defeated => status[tasks[j]] \in Defeated
    <3>1. tasks[j] # Nil => tasks[j] \in Objs
      BY DEF TypeOK
    <3> QED
      BY <2>3, <3>1 DEF Defeated
  <2>9. \A v \in Workers : Busy(v, j)' => Busy(v, j)
    BY <2>2 DEF Busy, WId
  <2> QED
    BY <2>1, <2>2, <2>6, <2>7, <2>8, <2>9 DEF Calm
<1>11. ASSUME NEW w \in Workers, Dispatch(w) PROVE Calm(j)
  <2>1. Keeps(j) \/ Moves(j)
    BY <1>11, DispatchCarriers
  <2>2. \A v \in Workers : Busy(v, j)' => Busy(v, j) \/ Carriers(j) # {}
    <3>1. dq \in Objs
      BY <1>11 DEF Dispatch, TypeOK
    <3>2. Id(dq) = j => <<"dequeued", dq>> \in Carriers(j)
      BY <3>1 DEF Carriers
    <3> QED
      BY <1>11, <3>1, <3>2 DEF Dispatch, TypeOK, Busy, WId
  <2> QED
    BY <1>11, <2>1, <2>2 DEF Dispatch, Calm, table, objects, client
<1>12. ASSUME NEW w \in Workers, ArmRetry(w) PROVE Calm(j)
  <2>1. Keeps(j) \/ Moves(j)
    BY <1>12, ArmRetryCarriers
  <2>2. \A v \in Workers : Busy(v, j)' => Busy(v, j)
    BY <1>12 DEF ArmRetry, GoTo, TypeOK, Busy, WId
  <2>3. UNCHANGED <<tasks, status, outcome>>
    BY <1>12 DEF ArmRetry, table, client
  <2> QED
    BY <2>1, <2>2, <2>3 DEF Calm
<1>13. ASSUME NEW w \in Workers, MarkRunning(w) PROVE Calm(j)
  <2>1. StaysOrEnds(w)
    BY <1>13 DEF MarkRunning, GoTo, StaysOrEnds, Active, WorkerPC
  <2> QED
    BY <1>13, <2>1, CalmWorker DEF MarkRunning, SetTracked, table, client, Defeated
<1>14. ASSUME NEW w \in Workers, CheckTracked(w) PROVE Calm(j)
  <2>1. /\ tasks' = tasks \/ tasks' = [tasks EXCEPT ![WId(w)] = Nil]
        /\ EndRun(w) \/ (wpc' = [wpc EXCEPT ![w] = "hook"] /\ UNCHANGED wobj)
    BY <1>14 DEF CheckTracked, GoTo
  <2>2. StaysOrEnds(w)
    BY <1>14, <2>1 DEF CheckTracked, StaysOrEnds, Active, WorkerPC
  <2> QED
    BY <1>14, <2>1, <2>2, CalmWorker DEF CheckTracked, client
<1>15. ASSUME NEW w \in Workers, Hook(w) PROVE Calm(j)
  <2>1. /\ EndRun(w) \/ (wpc' = [wpc EXCEPT ![w] = "run"] /\ UNCHANGED wobj)
        /\ status' = status \/ status' = SetTracked(status, WId(w), "Running")
    BY <1>15 DEF Hook, GoTo
  <2>2. StaysOrEnds(w)
    BY <1>15, <2>1 DEF Hook, StaysOrEnds, Active, WorkerPC
  <2> QED
    BY <1>15, <2>1, <2>2, CalmWorker DEF Hook, SetTracked, table, Defeated
<1>16. ASSUME NEW w \in Workers, TakeDone(w) PROVE Calm(j)
  <2>1. StaysOrEnds(w)
    BY <1>16 DEF TakeDone, GoTo, StaysOrEnds, Active, WorkerPC
  <2> QED
    BY <1>16, <2>1, CalmWorker DEF TakeDone, objects, client
<1>17. ASSUME NEW w \in Workers, TakeCtxDone(w) PROVE Calm(j)
  <2>1. StaysOrEnds(w)
    BY <1>17 DEF TakeCtxDone, GoTo, StaysOrEnds, Active, WorkerPC
  <2>2. \A o \in Objs : \/ status'[o] = status[o]
                        \/ o = wobj[w] /\ (Timeouts = {} => status'[o] \notin Defeated)
    <3>1. Timeouts = {} => ctx[w] = "canceled"
      BY <1>17 DEF NoDeadline, TakeCtxDone, TypeOK
    <3> QED
      BY <1>17, <3>1 DEF TakeCtxDone, TypeOK, Defeated
  <2> QED
    BY <1>17, <2>1, <2>2, CalmWorker DEF TakeCtxDone, client
<1>18. ASSUME NEW w \in Workers, Succeed(w) PROVE Calm(j)
  <2>1. StaysOrEnds(w)
    BY <1>18 DEF Succeed, GoTo, StaysOrEnds, Active, WorkerPC
  <2>2. \A o \in Objs : \/ status'[o] = status[o]
                        \/ (o = tasks[WId(w)] \/ o = wobj[w]) /\ status'[o] \notin Defeated
    BY <1>18 DEF Succeed, SetTracked, Defeated
  <2> QED
    BY <1>18, <2>1, <2>2, CalmWorker DEF Succeed, table, client
<1>19. ASSUME NEW w \in Workers, FinishCancelled(w) PROVE Calm(j)
  <2>1. StaysOrEnds(w)
    BY <1>19 DEF FinishCancelled, GoTo, StaysOrEnds, Active, WorkerPC
  <2> QED
    BY <1>19, <2>1, CalmWorker DEF FinishCancelled, SetTracked, table, client, Defeated
<1>20. ASSUME NEW w \in Workers, Evict(w) PROVE Calm(j)
  <2>1. StaysOrEnds(w)
    BY <1>20 DEF Evict, StaysOrEnds
  <2> QED
    BY <1>20, <2>1, CalmWorker DEF Evict, client
<1>21. ASSUME NEW w \in Workers, Decide(w) PROVE Calm(j)
  <2>1. \E pc \in {"dead", "retry", "failed"} : wpc' = [wpc EXCEPT ![w] = pc]
    BY <1>21 DEF Decide, GoTo
  <2>2. StaysOrEnds(w)
    BY <1>21, <2>1 DEF Decide, StaysOrEnds, Active, WorkerPC
  <2> QED
    BY <1>21, <2>2, CalmWorker DEF Decide, table, objects, client
<1>22. ASSUME NEW w \in Workers, RecordFailure(w) PROVE Calm(j)
  <2>1. StaysOrEnds(w)
    BY <1>22 DEF RecordFailure, GoTo, StaysOrEnds, Active, WorkerPC
  <2> QED
    BY <1>22, <2>1, CalmWorker DEF RecordFailure, table, objects, client
<1>23. ASSUME NEW w \in Workers, Publish(w) PROVE Calm(j)
  <2>1. ASSUME NEW d \in Active, NEW st \in Status, NEW pc \in WorkerPC,
               PublishAs(w, d, st, pc), st \notin Defeated \/ pc \notin Active
        PROVE  Calm(j)
    <3>1. wpc[w] \in Active /\ StaysOrEnds(w)
      BY <2>1 DEF PublishAs, GoTo, StaysOrEnds
    <3>2. st \notin Defeated \/ HandsOver(w)
      BY <2>1 DEF PublishAs, GoTo, HandsOver, TypeOK
    <3>3. wpc[w] # "idle"
      BY <3>1 DEF Active
    <3> QED
      BY <2>1, <3>1, <3>2, <3>3, CalmWorker DEF PublishAs, SetTracked, table, client
  <2> QED
    BY <1>23, <2>1 DEF Publish, Active, Status, WorkerPC, Defeated
<1> QED
  BY <1>1, <1>2, <1>3, <1>4, <1>5, <1>6, <1>7, <1>8, <1>9, <1>10, <1>11, <1>12,
     <1>13, <1>14, <1>15, <1>16, <1>17, <1>18, <1>19, <1>20, <1>21, <1>22, <1>23
  DEF CancelStep, JobStep, WorkerStep, WheelStep

\* A client's call for i is calm for every other id.
LEMMA OthersCalm ==
    ASSUME CarrierInv, NEW i \in Ids, NEW j \in Ids \ {i}, UNCHANGED <<dq, wpc, wobj>>,
           \A o \in Objs : Id(o) # i => /\ queue'[o] = queue[o] /\ wheel'[o] = wheel[o]
                                       /\ status'[o] = status[o],
           tasks'[j] = tasks[j], outcome'[j] = outcome[j]
    PROVE  Calm(j)
<1> USE DEF CarrierInv
<1>1. Keeps(j)
  BY NothingNew
<1>2. status'[<<j, 0>>] = status[<<j, 0>>]
  <2>1. <<j, 0>> \in Objs /\ Id(<<j, 0>>) = j
    BY ObjsFacts DEF Id
  <2> QED
    BY <2>1
<1>3. tasks[j] # Nil => status'[tasks[j]] = status[tasks[j]]
  BY DEF TypeOK
<1>4. \A v \in Workers : Busy(v, j)' => Busy(v, j)
  BY DEF Busy, WId
<1> QED
  BY <1>1, <1>2, <1>3, <1>4 DEF Calm

\* The client calls are calls of that kind.
LEMMA ClientCalm ==
    ASSUME CarrierInv, NEW i \in Ids, NEW j \in Ids \ {i},
           Submit(i) \/ ScheduleOnceTask(i) \/ Resubmit(i)
    PROVE  Calm(j)
<1> USE DEF CarrierInv
<1>0. <<i, 0>> \in Objs /\ Id(<<i, 0>>) = i
  BY ObjsFacts DEF Id
<1>1. CASE Submit(i)
  <2>1. UNCHANGED <<dq, wpc, wobj, wheel>> /\ outcome'[j] = outcome[j]
    BY <1>1 DEF Submit, worker, TypeOK
  <2>2. \A o \in Objs : Id(o) # i => queue'[o] = queue[o] /\ status'[o] = status[o]
    BY <1>0, <1>1 DEF Submit, SubmitTask, TypeOK
  <2>3. tasks'[j] = tasks[j]
    BY <1>0, <1>1 DEF Submit, SubmitTask, TypeOK
  <2> QED
    BY <2>1, <2>2, <2>3, OthersCalm
<1>2. CASE ScheduleOnceTask(i)
  <2>1. outcome'[j] = outcome[j] /\ tasks'[j] = tasks[j]
    BY <1>2 DEF ScheduleOnceTask, TypeOK
  <2>2. UNCHANGED <<dq, wpc, wobj, queue, status>>
    BY <1>2 DEF ScheduleOnceTask, worker, objects
  <2>3. \A o \in Objs : Id(o) # i => wheel'[o] = wheel[o]
    BY <1>0, <1>2 DEF ScheduleOnceTask, TypeOK
  <2> QED
    BY <2>1, <2>2, <2>3, OthersCalm
<1>3. CASE Resubmit(i)
  <2>1. UNCHANGED <<tasks, dq, wpc, wobj, wheel, outcome>>
    BY <1>3 DEF Resubmit, worker, table
  <2>2. \A o \in Objs : Id(o) # i => queue'[o] = queue[o] /\ status'[o] = status[o]
    BY <1>3 DEF Resubmit, TypeOK
  <2> QED
    BY <2>1, <2>2, OthersCalm
<1> QED
  BY <1>1, <1>2, <1>3

\* Submit finds no carrier of its task: an accepted task is not submitted again.
LEMMA SubmitKeeps ==
    ASSUME CarrierInv, NEW i \in Ids, Submit(i), NEW j \in Ids
    PROVE  IdInv(j)'
<1> USE DEF CarrierInv
<1>0. <<i, 0>> \in Objs /\ Id(<<i, 0>>) = i
  BY ObjsFacts DEF Id
<1>1. CASE i # j
  BY <1>1, ClientCalm, CalmPreserves
<1>2. CASE i = j
  <2>1. /\ tasks[j] = Nil /\ Carriers(j) = {} /\ status[<<j, 0>>] = "Queued"
        /\ \A w \in Workers : ~Busy(w, j)
    BY <1>2 DEF Submit, Fresh
  <2>2. UNCHANGED <<dq, wpc, wobj, wheel>>
    BY DEF Submit, worker
  <2>3. CASE Accepts(<<i, 0>>)
    <3>1. /\ outcome'[j] = "accepted" /\ tasks'[j] = <<i, 0>> /\ status'[<<i, 0>>] = "Queued"
          /\ queue' = [queue EXCEPT ![<<i, 0>>] = @ + 1]
      BY <1>0, <1>2, <2>3 DEF Submit, SubmitTask, Accepts, TypeOK
    <3>2. Unique(j)'
      BY <1>0, <2>1, <2>2, <3>1, PushCarriers, StaysUnique DEF OneCarrier, Unique
    <3> QED
      BY <3>1, <3>2 DEF IdInv, Defeated
  <2>4. CASE ~Accepts(<<i, 0>>)
    <3>1. UNCHANGED <<tasks, queue>> /\ status'[<<j, 0>>] = "Queued"
      BY <1>0, <1>2, <2>1, <2>4 DEF Submit, SubmitTask, Accepts, TypeOK
    <3>2. Keeps(j)
      BY <2>2, <3>1, NothingNew
    <3>3. Carriers(j)' = {} /\ \A w \in Workers : ~Busy(w, j)'
      BY <2>1, <2>2, <3>2 DEF Keeps, Busy, WId
    <3> QED
      BY <2>1, <3>1, <3>3 DEF IdInv, Unique
  <2> QED
    BY <2>3, <2>4
<1> QED
  BY <1>1, <1>2

\* ScheduleOnceTask is called once for a task nobody has seen before.
LEMMA OnceKeeps ==
    ASSUME CarrierInv, NEW i \in Ids, ScheduleOnceTask(i), NEW j \in Ids
    PROVE  IdInv(j)'
<1> USE DEF CarrierInv
<1>0. /\ <<i, 0>> \in Objs /\ Id(<<i, 0>>) = i
      /\ UNCHANGED <<dq, wpc, wobj, queue, status>>
  BY ObjsFacts DEF Id, ScheduleOnceTask, worker, objects
<1>1. CASE i # j
  BY <1>1, ClientCalm, CalmPreserves
<1>2. CASE i = j
  <2>1. Carriers(j) = {} /\ status[<<j, 0>>] = "Queued"
    BY <1>2 DEF ScheduleOnceTask, Fresh
  <2>2. Unique(j)'
    BY <2>1, OnceCarriers, StaysUnique DEF OneCarrier, Unique
  <2>3. outcome'[j] = "accepted" /\ tasks'[j] = <<j, 0>> /\ status'[<<j, 0>>] = "Queued"
    BY <1>0, <1>2, <2>1 DEF ScheduleOnceTask, TypeOK
  <2> QED
    BY <2>2, <2>3 DEF IdInv, Defeated
<1> QED
  BY <1>1, <1>2

\* Resubmit pushes an object without looking for another carrier: it finds
\* none because without timeouts Dead and Failed are set only when the worker
\* has given the task up.
LEMMA ResubmitKeeps ==
    ASSUME CarrierInv, Timeouts = {}, NEW i \in Ids, Resubmit(i), NEW j \in Ids
    PROVE  IdInv(j)' /\ (i = j => Carriers(j) = {})
<1> USE DEF CarrierInv
<1>0. /\ tasks[i] \in Objs /\ Id(tasks[i]) = i
      /\ UNCHANGED <<tasks, dq, wpc, wobj, wheel, outcome>>
      /\ queue' = [queue EXCEPT ![tasks[i]] = @ + 1]
      /\ status' = [status EXCEPT ![tasks[i]] = "Queued"]
      /\ status[tasks[i]] \in Defeated
  BY DEF Resubmit, Resubmittable, TypeOK, worker, table, Defeated
<1>1. CASE i # j
  BY <1>1, ClientCalm, CalmPreserves
<1>2. CASE i = j
  <2>1. Carriers(j) = {} /\ outcome[j] = "accepted"
    BY <1>0, <1>2, NilAssumption DEF Quiet, Fresh
  <2>2. Unique(j)'
    BY <1>0, <2>1, PushCarriers, StaysUnique DEF OneCarrier, Unique
  <2>3. tasks'[j] = tasks[i] /\ status'[tasks'[j]] = "Queued"
    BY <1>0, <1>2 DEF TypeOK
  <2> QED
    BY <1>0, <2>1, <2>2, <2>3 DEF IdInv, Defeated
<1> QED
  BY <1>1, <1>2

\* Every step for one id, whoever takes it.
LEMMA IdStep ==
    ASSUME CarrierInv, Timeouts = {} \/ MaxResubmits = 0, [Next]_vars, NEW j \in Ids
    PROVE  IdInv(j)'
<1>1. ASSUME NEW i \in Ids, Resubmit(i) PROVE Timeouts = {}
  BY <1>1, BoundsAssumption DEF Resubmit, CarrierInv, TypeOK
<1>2. \/ \E i \in Ids : Submit(i) \/ ScheduleOnceTask(i) \/ Resubmit(i)
      \/ Calm(j)
  BY OwnStepCalm DEF Next, ClientStep
<1> QED
  BY <1>1, <1>2, SubmitKeeps, OnceKeeps, ResubmitKeeps, CalmPreserves

\* The heap never holds an object twice: who pushes one holds its only carrier.
LEMMA QueueStep ==
    ASSUME CarrierInv, Timeouts = {} \/ MaxResubmits = 0, [Next]_vars
    PROVE  \A o \in Objs : queue'[o] <= 1
<1> USE DEF CarrierInv
<1>0. \A o \in Objs : queue[o] \in Nat /\ queue[o] <= 1
  BY DEF OneCarrier, TypeOK
<1>1. ASSUME NEW o \in Objs, ~(queue[o] > 0),
             queue' = queue \/ queue' = [queue EXCEPT ![o] = @ + 1]
      PROVE  \A p \in Objs : queue'[p] <= 1
  <2>1. queue[o] = 0 /\ queue \in [Objs -> Nat]
    BY <1>0, <1>1 DEF TypeOK
  <2>2. CASE queue' = queue
    BY <1>0, <2>2
  <2>3. CASE queue' = [queue EXCEPT ![o] = @ + 1]
    BY <1>0, <2>1, <2>3
  <2> QED
    BY <1>1, <2>2, <2>3
<1>2. ASSUME NEW i \in Ids, Submit(i) PROVE \A p \in Objs : queue'[p] <= 1
  <2>1. <<i, 0>> \in Objs /\ Id(<<i, 0>>) = i
    BY ObjsFacts DEF Id
  <2>2. ~(queue[<<i, 0>>] > 0)
    BY <1>2, <2>1 DEF Submit, Fresh, Carriers
  <2>3. queue' = queue \/ queue' = [queue EXCEPT ![<<i, 0>>] = @ + 1]
    BY <1>2 DEF Submit, SubmitTask
  <2> QED
    BY <1>1, <2>1, <2>2, <2>3
<1>3. ASSUME NEW o \in Objs, WheelCallback(o) PROVE \A p \in Objs : queue'[p] <= 1
  <2>1. Id(o) \in Ids /\ <<"wheel", o>> \in Carriers(Id(o))
    BY <1>3, ObjsFacts DEF WheelCallback, Carriers
  <2>2. queue[o] > 0 => <<"queue", o>> \in Carriers(Id(o))
    BY <1>3 DEF Carriers
  <2>3. ~(queue[o] > 0)
    BY <2>1, <2>2 DEF OneCarrier
  <2>4. queue' = queue \/ queue' = [queue EXCEPT ![o] = @ + 1]
    BY <1>3 DEF WheelCallback, SubmitTask
  <2> QED
    BY <1>1, <2>3, <2>4
<1>4. ASSUME NEW i \in Ids, Resubmit(i) PROVE \A p \in Objs : queue'[p] <= 1
  <2>1. Timeouts = {}
    BY <1>4, BoundsAssumption DEF Resubmit, TypeOK
  <2>2. tasks[i] \in Objs /\ Id(tasks[i]) = i
    BY <1>4 DEF Resubmit, TypeOK
  <2>3. Carriers(i) = {}
    BY <1>4, <2>1, ResubmitKeeps
  <2>4. ~(queue[tasks[i]] > 0)
    BY <2>2, <2>3 DEF Carriers
  <2> QED
    BY <1>1, <1>4, <2>2, <2>4 DEF Resubmit
<1>5. ASSUME NEW o \in Objs, Pop(o) PROVE \A p \in Objs : queue'[p] <= 1
  BY <1>0, <1>5 DEF Pop, TypeOK
<1>6. \/ \E i \in Ids : Submit(i) \/ Resubmit(i)
      \/ \E o \in Objs : WheelCallback(o) \/ Pop(o)
      \/ queue' = queue
  <2>1. ASSUME NEW i \in Ids, ScheduleOnceTask(i) \/ CancelBegin(i) \/ CancelStep(i)
        PROVE  queue' = queue
    BY <2>1 DEF ScheduleOnceTask, CancelBegin, CancelStep, CancelUnlink, CancelFinalize
  <2>2. ASSUME NEW o \in Objs, ArmOnce(o) \/ WheelFire(o) PROVE queue' = queue
    BY <2>2 DEF ArmOnce, WheelFire
  <2>3. ASSUME NEW w \in Workers, Dispatch(w) \/ JobStep(w) \/ Deadline(w) \/ WorkerStep(w)
        PROVE  queue' = queue
    BY <2>3 DEF Dispatch, JobStep, JobReturns, Deadline, WorkerStep, MarkRunning,
        CheckTracked, Hook, TakeDone, TakeCtxDone, Succeed, FinishCancelled, Decide,
        Publish, PublishAs, ArmRetry, RecordFailure, Evict
  <2> QED
    BY <2>1, <2>2, <2>3 DEF Next, ClientStep, WheelStep, vars
<1> QED
  BY <1>0, <1>2, <1>3, <1>4, <1>5, <1>6

\* Only a deadline makes a context pass its deadline.
LEMMA DeadlineStep ==
    ASSUME TypeOK, NoDeadline, [Next]_vars
    PROVE  NoDeadline'
<1> SUFFICES ASSUME Timeouts = {}, NEW w \in Workers PROVE ctx'[w] # "deadline"
  BY DEF NoDeadline
<1>0. ctx[w] # "deadline"
  BY DEF NoDeadline
<1>1. ASSUME NEW i \in Ids, CancelBegin(i) PROVE ctx'[w] # "deadline"
  <2>1. ctx' = ctx \/ CallCancel(tasks[i])
    BY <1>1 DEF CancelBegin
  <2> QED
    BY <1>0, <2>1 DEF CallCancel
<1>2. ASSUME NEW v \in Workers, EndRun(v) PROVE ctx'[w] # "deadline"
  BY <1>0, <1>2 DEF EndRun, TypeOK
<1>3. \/ \E i \in Ids : CancelBegin(i)
      \/ \E v \in Workers : EndRun(v)
      \/ ctx' = ctx
  <2>1. ASSUME NEW i \in Ids, Submit(i) \/ ScheduleOnceTask(i) \/ Resubmit(i) \/ CancelStep(i)
        PROVE  ctx' = ctx
    BY <2>1 DEF Submit, ScheduleOnceTask, Resubmit, CancelStep, CancelUnlink,
        CancelFinalize, worker
  <2>2. ASSUME NEW o \in Objs, WheelStep(o) \/ Pop(o) PROVE ctx' = ctx
    BY <2>2 DEF WheelStep, ArmOnce, WheelFire, WheelCallback, Pop, worker
  <2>3. ASSUME NEW v \in Workers, Dispatch(v) \/ JobStep(v) \/ Deadline(v) \/ WorkerStep(v)
        PROVE  EndRun(v) \/ ctx' = ctx
    BY <2>3 DEF Dispatch, JobStep, JobReturns, Deadline, WorkerStep, MarkRunning,
        CheckTracked, Hook, TakeDone, TakeCtxDone, Succeed, FinishCancelled, Decide,
        Publish, PublishAs, ArmRetry, RecordFailure, Evict
  <2> QED
    BY <2>1, <2>2, <2>3 DEF Next, ClientStep, vars, worker
<1> QED
  BY <1>0, <1>1, <1>2, <1>3

\* CarrierInv is inductive.
LEMMA CarrierInvStep ==
    ASSUME CarrierInv, Timeouts = {} \/ MaxResubmits = 0, [Next]_vars
    PROVE  CarrierInv'
<1>1. TypeOK' /\ NoDeadline'
  BY TypeStep, DeadlineStep DEF CarrierInv
<1>2. \A i \in Ids : IdInv(i)'
  BY IdStep
<1>3. OneCarrier'
  BY <1>2, QueueStep DEF OneCarrier, IdInv, Unique
<1>4. Fresh'
  BY <1>2 DEF Fresh, IdInv
<1>5. Quiet'
  BY <1>2 DEF Quiet, IdInv
<1> QED
  BY <1>1, <1>3, <1>4, <1>5 DEF CarrierInv

\* New() leaves a scheduler without any carrier.
LEMMA CarrierInvInit == Init => CarrierInv
<1> SUFFICES ASSUME Init PROVE CarrierInv
  OBVIOUS
<1>1. TypeOK
  BY BoundsAssumption DEF Init, TypeOK, Status, WorkerPC
<1>2. \A i \in Ids : Carriers(i) = {}
  BY NilAssumption DEF Init, Carriers, Active
<1>3. OneCarrier
  BY <1>2 DEF Init, OneCarrier
<1>4. Fresh
  BY <1>2, ObjsFacts DEF Init, Fresh, Busy
<1>5. NoDeadline /\ Quiet
  BY <1>2 DEF Init, NoDeadline, Quiet
<1> QED
  BY <1>1, <1>3, <1>4, <1>5 DEF CarrierInv

\* A task is never forked: at any time at most one of heap, wheel, dequeueLoop
\* and workers can still lead to an execution of it, however submissions,
\* retries, cancellations and evictions interleave, provided no task has a
\* timeout or nobody calls Resubmit.
THEOREM NeverForked ==
    ASSUME Timeouts = {} \/ MaxResubmits = 0
    PROVE  Spec => []OneCarrier
<1>1. Init => CarrierInv
  BY CarrierInvInit
<1>2. CarrierInv /\ [Next]_vars => CarrierInv'
  BY CarrierInvStep
<1>3. CarrierInv => OneCarrier
  BY DEF CarrierInv
<1> QED
  BY <1>1, <1>2, <1>3, PTL DEF Spec

\* Under the same condition two workers never execute one task concurrently.
THEOREM NeverConcurrent ==
    ASSUME Timeouts = {} \/ MaxResubmits = 0
    PROVE  Spec => []OneAttemptAtATime
<1>1. TypeOK /\ OneCarrier => OneAttemptAtATime
  <2> SUFFICES ASSUME TypeOK, OneCarrier, NEW v \in Workers, NEW w \in Workers,
                      wpc[v] = "run", wpc[w] = "run", WId(v) = WId(w)
               PROVE  v = w
    BY DEF OneAttemptAtATime
  <2>1. WId(w) \in Ids
    BY ObjsFacts DEF TypeOK, WId
  <2>2. <<"worker", v>> \in Carriers(WId(w)) /\ <<"worker", w>> \in Carriers(WId(w))
    BY DEF Carriers, Active
  <2>3. <<"worker", v>> = <<"worker", w>>
    BY <2>1, <2>2 DEF OneCarrier
  <2> QED
    BY <2>3
<1> QED
  BY <1>1, TypeCorrect, NeverForked, PTL

=============================================================================
