--------------------------- MODULE ExecutionProofs ---------------------------
(***************************************************************************)
(* What follows from a task having one carrier.  Every execution was paid  *)
(* for by an attempt of that carrier, so the retry budget is kept; Cancel  *)
(* reaches the job that executes; a key is held by one object and given    *)
(* back by it; and what waits in the heap is what the table tracks.        *)
(***************************************************************************)
EXTENDS SchedulerProofs

-----------------------------------------------------------------------------
(* The retry budget *)

\* The executions the Resubmit calls of i have added, and may be used up.
Allowance(i) == (Limit(i) + 1) * resubmits[i]

\* An object that will be executed, or (with k = 1) has been, has not used
\* more than its attempts.
Within(o, k) ==
    attempts[o] <= Limit(Id(o)) /\ runs[Id(o)] <= Allowance(Id(o)) + attempts[o] + k

Waits(o) == queue[o] > 0 \/ wheel[o] # "idle" \/ dq = o

\* Before and after the hook.
Before == {"got", "check", "hook"}
After == {"run", "fail", "dead", "retry", "failed", "arm"}

\* The account of one id.
Paid(i) ==
    /\ runs[i] <= Allowance(i) + Limit(i) + 1
    /\ outcome[i] # "accepted" => runs[i] = 0 /\ attempts[<<i, 0>>] = 0
    /\ \A o \in Objs : Id(o) = i /\ Waits(o) => Within(o, 0)
    /\ \A w \in Workers : WId(w) = i =>
          /\ wpc[w] \in Before => Within(wobj[w], 0)
          /\ wpc[w] \in After => Within(wobj[w], 1)
          /\ wpc[w] \in {"retry", "arm"} => attempts[wobj[w]] < Limit(i)

\* A worker that goes on, and decides on a retry only within the budget.
GoesOn(w) ==
    /\ wobj'[w] = wobj[w]
    /\ wpc'[w] \in Before => wpc[w] \in Before
    /\ wpc'[w] \in After => wpc[w] \in After
    /\ wpc'[w] \in {"retry", "arm"} =>
          wpc[w] \in {"retry", "arm"} \/ attempts[wobj[w]] < Limit(WId(w))

\* A step that executes nothing of j and changes no attempts of it.
Even(j) ==
    /\ runs'[j] = runs[j] /\ resubmits'[j] = resubmits[j]
    /\ outcome'[j] # "accepted" => outcome[j] # "accepted"
    /\ \A o \in Objs : Id(o) = j =>
          /\ attempts'[o] = attempts[o]
          /\ Waits(o)' => Waits(o) \/ (o = <<j, 0>> /\ outcome[j] # "accepted")
    /\ \A w \in Workers : wpc'[w] \in Active /\ Id(wobj'[w]) = j =>
          \/ GoesOn(w)
          \/ wpc'[w] = "got" /\ \E o \in Objs : wobj'[w] = o /\ Waits(o)

\* Budgets are numbers, and one Resubmit adds one budget.
LEMMA BudgetFacts ==
    ASSUME TypeOK, NEW i \in Ids
    PROVE  /\ Limit(i) \in Nat /\ resubmits[i] \in Nat /\ Allowance(i) \in Nat /\ runs[i] \in Nat
           /\ (Limit(i) + 1) * (1 + resubmits[i]) = Allowance(i) + Limit(i) + 1
           /\ resubmits'[i] = resubmits[i] => Allowance(i)' = Allowance(i)
           /\ resubmits'[i] = resubmits[i] + 1 => Allowance(i)' = Allowance(i) + Limit(i) + 1
<1>1. Limit(i) \in Nat /\ resubmits[i] \in Nat /\ runs[i] \in Nat
  BY FieldsAssumption, BoundsAssumption DEF Limit, TypeOK
<1>2. \A l, r \in Nat : (l + 1) * r \in Nat /\ (l + 1) * (1 + r) = (l + 1) * r + l + 1
                        /\ (l + 1) * (r + 1) = (l + 1) * r + l + 1
  OBVIOUS
<1> QED
  BY <1>1, <1>2 DEF Allowance

\* An even step leaves the account in order.
LEMMA EvenPaid ==
    ASSUME TypeOK, TypeOK', NEW j \in Ids, Paid(j), Even(j)
    PROVE  Paid(j)'
<1>1. Allowance(j)' = Allowance(j) /\ runs'[j] = runs[j]
  BY BudgetFacts DEF Even
<1>2. \A o \in Objs : Id(o) = j => /\ attempts'[o] = attempts[o]
                                   /\ (Within(o, 0)' <=> Within(o, 0)) /\ (Within(o, 1)' <=> Within(o, 1))
  BY <1>1 DEF Even, Within
<1>3. outcome'[j] # "accepted" => runs'[j] = 0 /\ attempts'[<<j, 0>>] = 0
  BY <1>1, <1>2, ObjsFacts DEF Paid, Even, Id
<1>4. outcome[j] # "accepted" => Within(<<j, 0>>, 0)
  <2>1. <<j, 0>> \in Objs /\ Id(<<j, 0>>) = j
    BY ObjsFacts DEF Id
  <2> QED
    BY <2>1, BudgetFacts DEF Paid, Within
<1>5. ASSUME NEW o \in Objs, Id(o) = j, Waits(o)' PROVE Within(o, 0)'
  BY <1>2, <1>4, <1>5 DEF Even, Paid
<1>6. ASSUME NEW w \in Workers, Id(wobj'[w]) = j, wpc'[w] \in Active
      PROVE  \E o \in Objs : /\ o = wobj'[w]
                             /\ wpc'[w] \in Before => Within(o, 0)'
                             /\ wpc'[w] \in After => Within(o, 1)'
                             /\ wpc'[w] \in {"retry", "arm"} => attempts'[o] < Limit(j)
  <2>1. CASE GoesOn(w)
    <3>1. wobj'[w] = wobj[w] /\ WId(w) = j
      BY <1>6, <2>1 DEF GoesOn, WId
    <3>2. wobj[w] \in Objs
      BY <1>6, <3>1 DEF TypeOK, Active
    <3> QED
      BY <1>2, <1>6, <2>1, <3>1, <3>2 DEF Paid, GoesOn, WId
  <2>2. CASE wpc'[w] = "got" /\ \E o \in Objs : wobj'[w] = o /\ Waits(o)
    BY <1>2, <1>6, <2>2 DEF Paid, After, Before
  <2> QED
    BY <1>6, <2>1, <2>2 DEF Even
<1>7. ASSUME NEW w \in Workers, Id(wobj'[w]) = j
      PROVE  /\ wpc'[w] \in Before => Within(wobj[w], 0)'
             /\ wpc'[w] \in After => Within(wobj[w], 1)'
             /\ wpc'[w] \in {"retry", "arm"} => attempts'[wobj'[w]] < Limit(j)
  BY <1>6, <1>7 DEF Within, Active, Before, After
<1> QED
  BY <1>1, <1>3, <1>5, <1>7 DEF Paid, WId

\* Steps of one worker.
LEMMA EvenWorker ==
    ASSUME TypeOK, NEW w \in Workers, NEW j \in Ids, runs'[j] = runs[j],
           UNCHANGED <<queue, wheel, dq, attempts, outcome, resubmits>>,
           \/ EndRun(w)
           \/ /\ UNCHANGED wobj
              /\ \E pc \in WorkerPC : /\ GoTo(w, pc)
                                      /\ pc \in Before => wpc[w] \in Before
                                      /\ pc \in After => wpc[w] \in After
                                      /\ pc \in {"retry", "arm"} => \/ wpc[w] \in {"retry", "arm"}
                                                                    \/ attempts[wobj[w]] < Limit(WId(w))
    PROVE  Even(j)
<1>1. \A o \in Objs : Waits(o)' => Waits(o)
  BY DEF Waits
<1>2. ASSUME NEW v \in Workers, wpc'[v] \in Active PROVE GoesOn(v)
  <2>1. CASE v # w
    <3>1. wpc'[v] = wpc[v] /\ wobj'[v] = wobj[v]
      BY <2>1 DEF TypeOK, EndRun, GoTo
    <3> QED
      BY <3>1 DEF GoesOn
  <2>2. CASE v = w
    <3>1. ~EndRun(w)
      BY <1>2, <2>2 DEF EndRun, TypeOK, Active
    <3>2. PICK pc \in WorkerPC : /\ GoTo(w, pc)
                                 /\ pc \in Before => wpc[w] \in Before
                                 /\ pc \in After => wpc[w] \in After
                                 /\ pc \in {"retry", "arm"} => \/ wpc[w] \in {"retry", "arm"}
                                                               \/ attempts[wobj[w]] < Limit(WId(w))
      BY <3>1
    <3>3. wpc'[w] = pc /\ wobj'[w] = wobj[w]
      BY <3>1, <3>2 DEF GoTo, TypeOK
    <3> QED
      BY <2>2, <3>2, <3>3 DEF GoesOn
  <2> QED
    BY <2>1, <2>2
<1> QED
  BY <1>1, <1>2 DEF Even

\* Steps that leave every worker where it is.
LEMMA EvenStill ==
    ASSUME NEW j \in Ids, UNCHANGED <<wpc, wobj>>,
           runs'[j] = runs[j], resubmits'[j] = resubmits[j],
           outcome'[j] # "accepted" => outcome[j] # "accepted",
           \A o \in Objs : Id(o) = j =>
              /\ attempts'[o] = attempts[o]
              /\ Waits(o)' => Waits(o) \/ (o = <<j, 0>> /\ outcome[j] # "accepted")
    PROVE  Even(j)
<1>1. \A w \in Workers : GoesOn(w)
  BY DEF GoesOn
<1> QED
  BY <1>1 DEF Even

\* A retry that is decided on is within the limit.
LEMMA RetriesWithin ==
    ASSUME TypeOK, NEW o \in Objs, ~Exhausted(o), Retries(o)
    PROVE  attempts[o] < Limit(Id(o))
<1>1. /\ Id(o) \in Ids /\ attempts[o] \in Nat /\ MaxRetries[Id(o)] \in Nat
      /\ StrategyMax[Id(o)] \in Nat
  BY ObjsFacts, FieldsAssumption DEF TypeOK
<1> QED
  BY <1>1 DEF Exhausted, Retries, Limit

\* The steps of j that are not even.
Executes(j) == \E w \in Workers : WId(w) = j /\ wpc'[w] = "run" /\ Hook(w)
ArmsRetry(j) == \E w \in Workers : WId(w) = j /\ ArmRetry(w)

\* All other steps are even.
LEMMA EvenWorkerStep ==
    ASSUME TypeOK, NEW j \in Ids, NEW w \in Workers, WorkerStep(w)
    PROVE  Even(j) \/ Executes(j) \/ ArmsRetry(j)
<1>0. wpc[w] # "idle" /\ wobj[w] \in Objs /\ WId(w) \in Ids
  <2>1. wpc[w] # "idle"
    BY DEF WorkerStep, MarkRunning, CheckTracked, Hook, TakeDone, TakeCtxDone, Succeed,
           FinishCancelled, Decide, Publish, PublishAs, ArmRetry, RecordFailure, Evict
  <2> QED
    BY <2>1, ObjsFacts DEF TypeOK, WId
<1>1. CASE MarkRunning(w)
  BY <1>1, EvenWorker DEF MarkRunning, client, WorkerPC, Before, After
<1>2. CASE CheckTracked(w)
  BY <1>2, EvenWorker DEF CheckTracked, client, WorkerPC, Before, After
<1>3. CASE Hook(w)
  <2>1. wpc[w] = "hook" /\ UNCHANGED <<queue, wheel, dq, attempts, outcome, resubmits>>
    BY <1>3 DEF Hook
  <2>2. CASE EndRun(w) /\ UNCHANGED runs
    BY <2>1, <2>2, EvenWorker
  <2>3. CASE GoTo(w, "run") /\ runs' = [runs EXCEPT ![WId(w)] = @ + 1] /\ UNCHANGED wobj
    <3>1. CASE WId(w) = j
      <4>1. wpc'[w] = "run"
        BY <2>3 DEF GoTo, TypeOK
      <4> QED
        BY <1>3, <3>1, <4>1 DEF Executes
    <3>2. CASE WId(w) # j
      <4>1. runs'[j] = runs[j]
        BY <1>0, <2>3, <3>2 DEF TypeOK
      <4>2. \A v \in Workers : v # w => GoesOn(v)
        <5>1. \A v \in Workers : v # w => wpc'[v] = wpc[v] /\ wobj'[v] = wobj[v]
          BY <2>3 DEF TypeOK, GoTo
        <5> QED
          BY <5>1 DEF GoesOn
      <4>3. Id(wobj'[w]) # j
        BY <2>3, <3>2 DEF WId
      <4> QED
        BY <2>1, <4>1, <4>2, <4>3 DEF Even, Waits
    <3> QED
      BY <3>1, <3>2
  <2> QED
    BY <1>3, <2>2, <2>3 DEF Hook
<1>4. CASE TakeDone(w)
  BY <1>4, EvenWorker DEF TakeDone, objects, client, WorkerPC, Before, After
<1>5. CASE TakeCtxDone(w)
  <2>1. GoTo(w, "cancelled") \/ GoTo(w, "fail")
    BY <1>5 DEF TakeCtxDone
  <2> QED
    BY <1>5, <2>1, EvenWorker DEF TakeCtxDone, client, WorkerPC, Before, After
<1>6. CASE Succeed(w)
  BY <1>6, EvenWorker DEF Succeed, client, WorkerPC, Before, After
<1>7. CASE FinishCancelled(w)
  BY <1>7, EvenWorker DEF FinishCancelled, client, WorkerPC, Before, After
<1>8. CASE Decide(w)
  <2>1. /\ wpc[w] = "fail"
        /\ UNCHANGED <<queue, wheel, dq, attempts, outcome, resubmits, runs, wobj>>
    BY <1>8 DEF Decide, objects, client
  <2>2. \/ GoTo(w, "dead") \/ GoTo(w, "failed")
        \/ GoTo(w, "retry") /\ attempts[wobj[w]] < Limit(WId(w))
    BY <1>0, <1>8, RetriesWithin DEF Decide, WId
  <2> QED
    BY <2>1, <2>2, EvenWorker DEF WorkerPC, Before, After
<1>9. CASE Publish(w)
  <2>1. \/ wpc[w] = "retry" /\ GoTo(w, "arm")
        \/ GoTo(w, "record")
    BY <1>9 DEF Publish, PublishAs
  <2>2. UNCHANGED <<queue, wheel, dq, attempts, outcome, resubmits, runs, wobj>>
    BY <1>9 DEF Publish, PublishAs, client
  <2> QED
    BY <2>1, <2>2, EvenWorker DEF WorkerPC, Before, After
<1>10. CASE ArmRetry(w)
  <2>1. CASE WId(w) = j
    BY <1>10, <2>1 DEF ArmsRetry
  <2>2. CASE WId(w) # j
    <3> DEFINE n == <<WId(w), gen[WId(w)] + 1>>
    <3>1. /\ attempts' = [attempts EXCEPT ![n] = attempts[wobj[w]] + 1] /\ WheelSchedule(n)
          /\ UNCHANGED <<queue, dq, wobj, outcome, runs, resubmits>> /\ GoTo(w, "tail")
      BY <1>10 DEF ArmRetry, client
    <3>2. Id(n) = WId(w)
      BY DEF Id
    <3> HIDE DEF n
    <3>3. \A o \in Objs : Id(o) = j => attempts'[o] = attempts[o] /\ (Waits(o)' => Waits(o))
      BY <2>2, <3>1, <3>2 DEF TypeOK, WheelSchedule, Waits
    <3>4. \A v \in Workers : wpc'[v] \in Active => GoesOn(v)
      <4>1. \A v \in Workers : v # w => wpc'[v] = wpc[v] /\ wobj'[v] = wobj[v]
        BY <3>1 DEF TypeOK, GoTo
      <4>2. wpc'[w] = "tail"
        BY <3>1 DEF TypeOK, GoTo
      <4> QED
        BY <4>1, <4>2 DEF GoesOn, Active
    <3> QED
      BY <3>1, <3>3, <3>4 DEF Even
  <2> QED
    BY <2>1, <2>2
<1>11. CASE RecordFailure(w)
  BY <1>11, EvenWorker DEF RecordFailure, objects, client, WorkerPC, Before, After
<1>12. CASE Evict(w)
  BY <1>12, EvenWorker DEF Evict, client
<1> QED
  BY <1>1, <1>2, <1>3, <1>4, <1>5, <1>6, <1>7, <1>8, <1>9, <1>10, <1>11, <1>12 DEF WorkerStep

\* The steps of everybody else.
LEMMA EvenOtherStep ==
    ASSUME TypeOK, NEW j \in Ids,
           \/ \E i \in Ids : (ClientStep(i) /\ ~(i = j /\ Resubmit(i))) \/ CancelStep(i)
           \/ \E o \in Objs : WheelStep(o) \/ Pop(o)
           \/ \E w \in Workers : Dispatch(w) \/ JobStep(w) \/ Deadline(w)
           \/ UNCHANGED vars
    PROVE  Even(j)
<1>1. ASSUME UNCHANGED <<wpc, wobj, runs, resubmits, outcome, attempts>>,
             \A o \in Objs : Waits(o)' => Waits(o)
      PROVE  Even(j)
  BY <1>1, EvenStill
<1>2. ASSUME NEW i \in Ids, Submit(i) PROVE Even(j)
  <2>1. /\ UNCHANGED <<wpc, wobj, runs, resubmits, attempts, wheel, dq>>
        /\ outcome[i] # "accepted"
        /\ queue' = queue \/ queue' = [queue EXCEPT ![<<i, 0>>] = @ + 1]
    BY <1>2 DEF Submit, SubmitTask, worker
  <2>2. outcome'[j] # "accepted" => outcome[j] # "accepted"
    BY <1>2 DEF Submit, TypeOK
  <2>3. Id(<<i, 0>>) = i
    BY DEF Id
  <2>4. \A o \in Objs : Waits(o)' => Waits(o) \/ o = <<i, 0>>
    BY <2>1 DEF Waits, TypeOK
  <2> QED
    BY <2>1, <2>2, <2>3, <2>4, EvenStill
<1>3. ASSUME NEW i \in Ids, ScheduleOnceTask(i) PROVE Even(j)
  <2>1. /\ UNCHANGED <<wpc, wobj, runs, resubmits, attempts, queue, dq>>
        /\ outcome[i] = "new" /\ wheel' = [wheel EXCEPT ![<<i, 0>>] = "arming"]
    BY <1>3 DEF ScheduleOnceTask, worker, objects
  <2>2. outcome'[j] # "accepted" => outcome[j] # "accepted"
    BY <1>3 DEF ScheduleOnceTask, TypeOK
  <2>3. Id(<<i, 0>>) = i
    BY DEF Id
  <2>4. \A o \in Objs : Waits(o)' => Waits(o) \/ o = <<i, 0>>
    BY <2>1 DEF Waits, TypeOK
  <2> QED
    BY <2>1, <2>2, <2>3, <2>4, EvenStill
<1>4. ASSUME NEW i \in Ids, Resubmit(i), i # j PROVE Even(j)
  <2>1. /\ UNCHANGED <<wpc, wobj, runs, outcome, wheel, dq>>
        /\ attempts' = [attempts EXCEPT ![tasks[i]] = 0]
        /\ queue' = [queue EXCEPT ![tasks[i]] = @ + 1]
        /\ resubmits' = [resubmits EXCEPT ![i] = @ + 1]
        /\ tasks[i] # Nil
    BY <1>4 DEF Resubmit, worker
  <2>2. Id(tasks[i]) = i
    BY <2>1 DEF TypeOK
  <2>3. \A o \in Objs : Id(o) = j => attempts'[o] = attempts[o] /\ queue'[o] = queue[o]
    BY <1>4, <2>1, <2>2 DEF TypeOK
  <2>4. resubmits'[j] = resubmits[j]
    BY <1>4, <2>1 DEF TypeOK
  <2> QED
    BY <2>1, <2>3, <2>4, EvenStill DEF Waits
<1>5. ASSUME NEW i \in Ids, CancelBegin(i) \/ CancelStep(i) PROVE Even(j)
  <2>1. /\ UNCHANGED <<wpc, wobj, runs, resubmits, outcome, attempts, queue, dq>>
        /\ \A o \in Objs : wheel'[o] # "idle" => wheel[o] # "idle"
    BY <1>5 DEF CancelBegin, CancelStep, CancelUnlink, CancelFinalize, worker, objects, client
  <2> QED
    BY <1>1, <2>1 DEF Waits
<1>6. ASSUME NEW o \in Objs, ArmOnce(o) PROVE Even(j)
  <2>1. /\ UNCHANGED <<wpc, wobj, runs, resubmits, outcome, attempts, queue, dq>>
        /\ \A p \in Objs : wheel'[p] # "idle" => wheel[p] # "idle"
    BY <1>6 DEF ArmOnce, WheelSchedule, worker, objects, client
  <2> QED
    BY <1>1, <2>1 DEF Waits
<1>7. ASSUME NEW o \in Objs, WheelFire(o) PROVE Even(j)
  <2>1. /\ UNCHANGED <<wpc, wobj, runs, resubmits, outcome, attempts, queue, dq>>
        /\ \A p \in Objs : wheel'[p] # "idle" => wheel[p] # "idle"
    BY <1>7 DEF WheelFire, worker, objects, client, TypeOK
  <2> QED
    BY <1>1, <2>1 DEF Waits
<1>8. ASSUME NEW o \in Objs, WheelCallback(o) PROVE Even(j)
  <2>1. /\ UNCHANGED <<wpc, wobj, runs, resubmits, outcome, attempts, dq>>
        /\ wheel[o] = "firing" /\ wheel' = [wheel EXCEPT ![o] = "idle"]
        /\ queue' = queue \/ queue' = [queue EXCEPT ![o] = @ + 1]
    BY <1>8 DEF WheelCallback, SubmitTask, worker, client
  <2>2. \A p \in Objs : Waits(p)' => Waits(p)
    BY <2>1 DEF Waits, TypeOK
  <2> QED
    BY <1>1, <2>1, <2>2
<1>9. ASSUME NEW o \in Objs, Pop(o) PROVE Even(j)
  <2>1. /\ UNCHANGED <<wpc, wobj, runs, resubmits, outcome, attempts, wheel>>
        /\ queue[o] > 0 /\ dq' = o /\ queue' = [queue EXCEPT ![o] = @ - 1]
    BY <1>9 DEF Pop, worker, client, objects
  <2>2. \A p \in Objs : Waits(p)' => Waits(p)
    BY <2>1 DEF Waits, TypeOK
  <2> QED
    BY <1>1, <2>1, <2>2
<1>10. ASSUME NEW w \in Workers, Dispatch(w) PROVE Even(j)
  <2>1. /\ UNCHANGED <<queue, wheel, runs, resubmits, outcome, attempts>>
        /\ dq # Nil /\ dq' = Nil /\ dq \in Objs
        /\ wobj' = [wobj EXCEPT ![w] = dq] /\ wpc' = [wpc EXCEPT ![w] = "got"]
    BY <1>10 DEF Dispatch, client, objects, TypeOK
  <2>2. \A p \in Objs : Waits(p)' => Waits(p)
    BY <2>1, NilAssumption DEF Waits
  <2>3. \A v \in Workers : v # w => GoesOn(v)
    BY <2>1 DEF GoesOn, TypeOK
  <2>4. wpc'[w] = "got" /\ wobj'[w] = dq /\ Waits(dq)
    BY <2>1 DEF TypeOK, Waits
  <2> QED
    BY <2>1, <2>2, <2>3, <2>4 DEF Even
<1>11. ASSUME NEW w \in Workers, JobStep(w) \/ Deadline(w) PROVE Even(j)
  BY <1>1, <1>11 DEF JobStep, JobReturns, Deadline, Waits, objects, client
<1>12. CASE UNCHANGED vars
  BY <1>1, <1>12 DEF vars, Waits, worker, client, objects
<1> QED
  BY <1>2, <1>3, <1>4, <1>5, <1>6, <1>7, <1>8, <1>9, <1>10, <1>11, <1>12
  DEF ClientStep, WheelStep

\* Who waits or is on its way to executing is a carrier.
LEMMA CarriersAre ==
    ASSUME NEW i \in Ids
    PROVE  /\ \A o \in Objs : Id(o) = i /\ Waits(o) => \E k \in {"queue", "wheel", "dequeued"} :
                                                          <<k, o>> \in Carriers(i)
           /\ \A w \in Workers : WId(w) = i /\ wpc[w] \in Active => <<"worker", w>> \in Carriers(i)
  BY DEF Carriers, Waits

\* While a worker is a carrier nothing else of its task is.
LEMMA WorkerAlone ==
    ASSUME OneCarrier, NEW w \in Workers, WId(w) \in Ids, wpc[w] \in Active
    PROVE  /\ \A o \in Objs : Id(o) = WId(w) => ~Waits(o)
           /\ \A v \in Workers : WId(v) = WId(w) /\ wpc[v] \in Active => v = w
<1>1. <<"worker", w>> \in Carriers(WId(w))
  BY CarriersAre
<1>2. \A c \in Carriers(WId(w)) : c = <<"worker", w>>
  BY <1>1 DEF OneCarrier
<1> QED
  BY <1>2, CarriersAre

\* An execution is paid for by the attempt it belongs to.
LEMMA ExecutesPaid ==
    ASSUME CarrierInv, TypeOK', NEW j \in Ids, Paid(j), Executes(j)
    PROVE  Paid(j)'
<1>0. TypeOK /\ OneCarrier
  BY DEF CarrierInv
<1>1. PICK w \in Workers : WId(w) = j /\ wpc'[w] = "run" /\ Hook(w)
  BY DEF Executes
<1>2. /\ wpc[w] = "hook" /\ wpc' = [wpc EXCEPT ![w] = "run"]
      /\ runs' = [runs EXCEPT ![j] = @ + 1]
      /\ UNCHANGED <<queue, wheel, dq, wobj, attempts, outcome, resubmits>>
  <2>1. ~EndRun(w)
    BY <1>0, <1>1 DEF EndRun, TypeOK
  <2> QED
    BY <1>1, <2>1 DEF Hook, GoTo
<1>3. wobj[w] \in Objs /\ attempts[wobj[w]] \in Nat /\ Id(wobj[w]) = j
  BY <1>0, <1>1, <1>2 DEF TypeOK, WId
<1>4. /\ Limit(j) \in Nat /\ Allowance(j) \in Nat /\ runs[j] \in Nat
      /\ Allowance(j)' = Allowance(j) /\ runs'[j] = runs[j] + 1
  <2>1. runs'[j] = runs[j] + 1
    BY <1>0, <1>2 DEF TypeOK
  <2>2. resubmits'[j] = resubmits[j]
    BY <1>2
  <2> QED
    BY <1>0, <2>1, <2>2, BudgetFacts
<1>5. attempts[wobj[w]] <= Limit(j) /\ runs[j] <= Allowance(j) + attempts[wobj[w]] + 0
  BY <1>1, <1>2, <1>3 DEF Paid, Within, Before
<1>6. runs'[j] <= Allowance(j)' + Limit(j) + 1
  BY <1>3, <1>4, <1>5
<1>7. outcome[j] = "accepted"
  BY <1>0, <1>1, <1>2 DEF CarrierInv, Fresh, Busy
<1>8. \A o \in Objs : Id(o) = j => ~Waits(o)'
  <2>1. \A o \in Objs : Waits(o)' <=> Waits(o)
    BY <1>2 DEF Waits
  <2> QED
    BY <1>0, <1>1, <1>2, <2>1, WorkerAlone DEF Active
<1>9. ASSUME NEW v \in Workers, Id(wobj'[v]) = j, wpc'[v] \in Active PROVE v = w
  BY <1>0, <1>1, <1>2, <1>9, WorkerAlone DEF Active, WId, TypeOK
<1>10. attempts'[wobj'[w]] <= Limit(j) /\ runs'[j] <= Allowance(j)' + attempts'[wobj'[w]] + 1
  BY <1>2, <1>3, <1>4, <1>5
<1>11. ASSUME NEW v \in Workers, WId(v)' = j
       PROVE  /\ wpc'[v] \in Before => Within(wobj[v], 0)'
              /\ wpc'[v] \in After => Within(wobj[v], 1)'
              /\ wpc'[v] \in {"retry", "arm"} => attempts'[wobj'[v]] < Limit(j)
  <2>1. CASE v = w
    BY <1>1, <1>2, <1>3, <1>10, <2>1 DEF Within, Before, After
  <2>2. CASE v # w
    BY <1>9, <1>11, <2>2 DEF Active, Before, After, WId
  <2> QED
    BY <2>1, <2>2
<1> QED
  BY <1>2, <1>6, <1>7, <1>8, <1>11 DEF Paid

\* A retry is one attempt more, within the limit.
LEMMA ArmPaid ==
    ASSUME CarrierInv, TypeOK', NEW j \in Ids, Paid(j), ArmsRetry(j)
    PROVE  Paid(j)'
<1>0. TypeOK /\ OneCarrier
  BY DEF CarrierInv
<1>1. PICK w \in Workers : WId(w) = j /\ ArmRetry(w)
  BY DEF ArmsRetry
<1>2. PICK n : n = <<j, gen[j] + 1>>
  OBVIOUS
<1>3. /\ wpc[w] = "arm" /\ wpc' = [wpc EXCEPT ![w] = "tail"] /\ gen[j] < MaxGen
      /\ attempts' = [attempts EXCEPT ![n] = attempts[wobj[w]] + 1] /\ WheelSchedule(n)
      /\ UNCHANGED <<queue, dq, wobj, outcome, runs, resubmits>>
  BY <1>1, <1>2 DEF ArmRetry, GoTo, client
<1>4. n \in Objs /\ Id(n) = j
  BY <1>0, <1>2, <1>3, ObjsFacts DEF TypeOK, Id
<1>5. wobj[w] \in Objs /\ attempts[wobj[w]] \in Nat /\ Id(wobj[w]) = j
  BY <1>0, <1>1, <1>3 DEF TypeOK, WId
<1>6. /\ Limit(j) \in Nat /\ Allowance(j) \in Nat /\ runs[j] \in Nat
      /\ Allowance(j)' = Allowance(j) /\ runs'[j] = runs[j]
  BY <1>0, <1>3, BudgetFacts
<1>7. attempts[wobj[w]] < Limit(j) /\ runs[j] <= Allowance(j) + attempts[wobj[w]] + 1
  BY <1>1, <1>3, <1>5 DEF Paid, Within, After
<1>8. attempts'[n] = attempts[wobj[w]] + 1
  BY <1>0, <1>3, <1>4 DEF TypeOK
<1>9. Within(n, 0)'
  <2>1. attempts'[n] <= Limit(j) /\ runs'[j] <= Allowance(j)' + attempts'[n] + 0
    BY <1>5, <1>6, <1>7, <1>8
  <2> QED
    BY <1>4, <2>1 DEF Within
<1>10. outcome[j] = "accepted"
  BY <1>0, <1>1, <1>3 DEF CarrierInv, Fresh, Busy
<1>11. \A o \in Objs : Id(o) = j /\ Waits(o)' => o = n
  <2>1. \A o \in Objs : Waits(o)' => Waits(o) \/ o = n
    BY <1>3 DEF Waits, WheelSchedule
  <2> QED
    BY <1>0, <1>1, <1>3, <2>1, WorkerAlone DEF Active
<1>12. ASSUME NEW v \in Workers, WId(v)' = j PROVE wpc'[v] \notin Active
  <2>1. CASE v = w
    BY <1>0, <1>3, <2>1 DEF TypeOK, Active
  <2>2. CASE v # w
    BY <1>0, <1>1, <1>3, <1>12, <2>2, WorkerAlone DEF Active, WId, TypeOK
  <2> QED
    BY <2>1, <2>2
<1>13. runs'[j] <= Allowance(j)' + Limit(j) + 1
  BY <1>6 DEF Paid
<1> QED
  BY <1>3, <1>9, <1>10, <1>11, <1>12, <1>13 DEF Paid, Active, Before, After

\* Resubmit gives a task without carriers one more budget.
LEMMA ResubmitPaid ==
    ASSUME CarrierInv, Timeouts = {}, TypeOK', NEW j \in Ids, Paid(j), Resubmit(j)
    PROVE  Paid(j)'
<1>0. TypeOK /\ OneCarrier
  BY DEF CarrierInv
<1>1. /\ tasks[j] # Nil /\ UNCHANGED <<wpc, wobj, runs, outcome, wheel, dq>>
      /\ attempts' = [attempts EXCEPT ![tasks[j]] = 0]
      /\ queue' = [queue EXCEPT ![tasks[j]] = @ + 1]
      /\ resubmits' = [resubmits EXCEPT ![j] = @ + 1]
  BY DEF Resubmit, worker
<1>2. tasks[j] \in Objs /\ Id(tasks[j]) = j
  BY <1>0, <1>1 DEF TypeOK
<1>3. Carriers(j) = {}
  BY <1>1 DEF Resubmit, Resubmittable, CarrierInv, Quiet, Defeated
<1>4. /\ Limit(j) \in Nat /\ Allowance(j) \in Nat /\ runs[j] \in Nat
      /\ Allowance(j)' = Allowance(j) + Limit(j) + 1 /\ runs'[j] = runs[j]
  <2>1. resubmits'[j] = resubmits[j] + 1
    BY <1>0, <1>1 DEF TypeOK
  <2>2. runs'[j] = runs[j]
    BY <1>1
  <2> QED
    BY <1>0, <2>1, <2>2, BudgetFacts
<1>5. runs[j] <= Allowance(j) + Limit(j) + 1
  BY DEF Paid
<1>6. attempts'[tasks[j]] = 0
  BY <1>0, <1>1, <1>2 DEF TypeOK
<1>7. PICK n \in Objs : n = tasks[j]
  BY <1>2
<1>8. Within(n, 0)'
  <2>1. attempts'[n] <= Limit(j) /\ runs'[j] <= Allowance(j)' + attempts'[n] + 0
    BY <1>4, <1>5, <1>6, <1>7
  <2> QED
    BY <1>2, <1>7, <2>1 DEF Within
<1>9. outcome[j] = "accepted"
  BY <1>1 DEF CarrierInv, Fresh
<1>10. \A o \in Objs : Id(o) = j /\ Waits(o)' => o = n
  <2>1. \A o \in Objs : Waits(o)' => Waits(o) \/ o = n
    BY <1>0, <1>1, <1>7 DEF Waits, TypeOK
  <2> QED
    BY <1>3, <2>1, CarriersAre
<1>11. \A v \in Workers : WId(v)' = j => wpc'[v] \notin Active
  BY <1>1, <1>3, CarriersAre DEF WId
<1>12. runs'[j] <= Allowance(j)' + Limit(j) + 1
  BY <1>4, <1>5
<1> QED
  BY <1>1, <1>8, <1>9, <1>10, <1>11, <1>12 DEF Paid, Active, Before, After

\* RetryBudget for every budget, any number of workers and tasks, and however
\* failures, retries, Cancel and Resubmit interleave: handleFailure's counting
\* of attempts across the retry objects bounds the executions of the job.  Under
\* the condition of NeverForked, without which two copies would each count.
THEOREM BudgetKept ==
    ASSUME Timeouts = {} \/ MaxResubmits = 0
    PROVE  Spec => []RetryBudget
<1> DEFINE Inv == CarrierInv /\ \A i \in Ids : Paid(i)
<1>1. Init => Inv
  <2> SUFFICES ASSUME Init PROVE Inv
    OBVIOUS
  <2>1. TypeOK /\ CarrierInv
    BY CarrierInvInit DEF CarrierInv
  <2>2. ASSUME NEW i \in Ids PROVE Paid(i)
    <3>1. runs[i] = 0 /\ attempts[<<i, 0>>] = 0 /\ \A w \in Workers : wpc[w] = "idle"
      BY ObjsFacts DEF Init
    <3>2. \A o \in Objs : ~Waits(o)
      BY NilAssumption DEF Init, Waits
    <3>3. runs[i] <= Allowance(i) + Limit(i) + 1
      BY <2>1, <3>1, BudgetFacts
    <3> QED
      BY <3>1, <3>2, <3>3 DEF Paid, Before, After
  <2> QED
    BY <2>1, <2>2
<1>2. Inv /\ [Next]_vars => Inv'
  <2> SUFFICES ASSUME Inv, [Next]_vars PROVE Inv'
    OBVIOUS
  <2>1. CarrierInv' /\ TypeOK /\ TypeOK'
    BY CarrierInvStep DEF CarrierInv
  <2>2. ASSUME NEW j \in Ids PROVE Paid(j)'
    <3>1. Resubmit(j) => Timeouts = {}
      BY <2>1, BoundsAssumption DEF Resubmit, TypeOK
    <3>2. Even(j) \/ Executes(j) \/ ArmsRetry(j) \/ Resubmit(j)
      BY <2>1, EvenWorkerStep, EvenOtherStep DEF Next
    <3> QED
      BY <2>1, <3>1, <3>2, EvenPaid, ExecutesPaid, ArmPaid, ResubmitPaid
  <2> QED
    BY <2>1, <2>2
<1>3. Inv => RetryBudget
  <2> SUFFICES ASSUME Inv, NEW i \in Ids PROVE runs[i] <= (Limit(i) + 1) * (1 + resubmits[i])
    BY DEF RetryBudget
  <2>1. (Limit(i) + 1) * (1 + resubmits[i]) = Allowance(i) + Limit(i) + 1
    BY BudgetFacts DEF CarrierInv
  <2> QED
    BY <2>1 DEF Paid
<1> QED
  BY <1>1, <1>2, <1>3, PTL DEF Spec

-----------------------------------------------------------------------------
(* Cancel reaches the job *)

\* A job that executes with a live context is not shown as cancelled, and the
\* t.cancel that Cancel would call is its worker's.
Hooked(w) ==
    wpc[w] = "run" /\ tasks[WId(w)] # Nil =>
        \/ ctx[w] # "live"
        \/ status[tasks[WId(w)]] # "Cancelled" /\ cancelFn[tasks[WId(w)]] = w

\* After its cancelled run nothing of the task is left that another worker
\* could execute, and nothing that Resubmit would take.
Aftermath(w) ==
    wpc[w] = "cancelled" =>
        /\ Carriers(WId(w)) = {}
        /\ Timeouts = {} /\ tasks[WId(w)] # Nil => status[tasks[WId(w)]] \notin Defeated

\* What a step of v can do to the other workers and to the tasks.
LEMMA WorkerEffects ==
    ASSUME TypeOK, NEW v \in Workers, WorkerStep(v)
    PROVE  /\ \A x \in Workers \ {v} : /\ wpc'[x] = wpc[x] /\ wobj'[x] = wobj[x]
                                      /\ ctx'[x] = ctx[x]
           /\ \A i \in Ids : tasks'[i] = tasks[i] \/ tasks'[i] = Nil
           /\ \A o \in Objs : \/ status'[o] = status[o]
                              \/ /\ Id(o) = WId(v)
                                 /\ status'[o] # "Cancelled" \/ wpc[v] \in {"run", "cancelled"}
           /\ \A o \in Objs : \/ cancelFn'[o] = cancelFn[o] \/ cancelFn[o] = v
                              \/ Id(o) = WId(v) /\ wpc[v] = "hook"
<1>0. wpc[v] # "idle" /\ wobj[v] \in Objs /\ WId(v) \in Ids
  <2>1. wpc[v] # "idle"
    BY DEF WorkerStep, MarkRunning, CheckTracked, Hook, TakeDone, TakeCtxDone, Succeed,
           FinishCancelled, Decide, Publish, PublishAs, ArmRetry, RecordFailure, Evict
  <2> QED
    BY <2>1, ObjsFacts DEF TypeOK, WId
<1>1. \A o \in Objs : o = tasks[WId(v)] => Id(o) = WId(v)
  BY <1>0, NilAssumption DEF TypeOK
<1>2. ASSUME EndRun(v)
      PROVE  /\ \A x \in Workers \ {v} : /\ wpc'[x] = wpc[x] /\ wobj'[x] = wobj[x]
                                        /\ ctx'[x] = ctx[x]
             /\ \A o \in Objs : cancelFn'[o] = cancelFn[o] \/ cancelFn[o] = v
  BY <1>2 DEF EndRun, TypeOK
<1>3. ASSUME NEW pc, GoTo(v, pc) PROVE \A x \in Workers \ {v} : wpc'[x] = wpc[x]
  BY <1>3 DEF GoTo, TypeOK
<1>4. CASE MarkRunning(v)
  BY <1>0, <1>1, <1>3, <1>4 DEF MarkRunning, SetTracked, table, TypeOK
<1>5. CASE CheckTracked(v)
  BY <1>0, <1>2, <1>3, <1>5 DEF CheckTracked, TypeOK
<1>6. CASE Hook(v)
  <2>1. CASE EndRun(v) /\ UNCHANGED status
    BY <1>2, <1>6, <2>1 DEF Hook, table
  <2>2. CASE ~(EndRun(v) /\ UNCHANGED status)
    BY <1>0, <1>1, <1>3, <1>6, <2>2 DEF Hook, SetTracked, table, TypeOK
  <2> QED
    BY <2>1, <2>2
<1>7. CASE TakeDone(v)
  BY <1>3, <1>7 DEF TakeDone, objects
<1>8. CASE TakeCtxDone(v)
  <2>1. \A x \in Workers \ {v} : wpc'[x] = wpc[x]
    BY <1>3, <1>8 DEF TakeCtxDone
  <2>2. \A o \in Objs : o # wobj[v] => status'[o] = status[o]
    BY <1>0, <1>8 DEF TakeCtxDone, TypeOK
  <2> QED
    BY <1>0, <1>8, <2>1, <2>2 DEF TakeCtxDone, WId
<1>9. CASE Succeed(v)
  <2>1. \A o \in Objs : \/ status'[o] = status[o]
                        \/ (o = tasks[WId(v)] \/ o = wobj[v]) /\ status'[o] = "Succeeded"
    BY <1>0, <1>9 DEF Succeed, SetTracked, TypeOK
  <2> QED
    BY <1>0, <1>1, <1>3, <1>9, <2>1 DEF Succeed, table, WId
<1>10. CASE FinishCancelled(v)
  <2>1. \A o \in Objs : status'[o] = status[o] \/ o = tasks[WId(v)]
    BY <1>0, <1>10 DEF FinishCancelled, SetTracked, TypeOK
  <2> QED
    BY <1>0, <1>1, <1>3, <1>10, <2>1 DEF FinishCancelled, table
<1>11. CASE Decide(v)
  BY <1>3, <1>11 DEF Decide, objects, table
<1>12. CASE Publish(v)
  <2>1. \A o \in Objs : \/ status'[o] = status[o]
                        \/ o = tasks[WId(v)] /\ status'[o] # "Cancelled"
    BY <1>0, <1>12 DEF Publish, PublishAs, SetTracked, TypeOK
  <2> QED
    BY <1>0, <1>1, <1>3, <1>12, <2>1 DEF Publish, PublishAs, table
<1>13. CASE ArmRetry(v)
  BY <1>3, <1>13 DEF ArmRetry, table
<1>14. CASE RecordFailure(v)
  BY <1>3, <1>14 DEF RecordFailure, table, objects
<1>15. CASE Evict(v)
  BY <1>0, <1>2, <1>15 DEF Evict, TypeOK
<1> QED
  BY <1>4, <1>5, <1>6, <1>7, <1>8, <1>9, <1>10, <1>11, <1>12, <1>13, <1>14, <1>15
  DEF WorkerStep

\* A job goes on executing: its task keeps its hook, or its context is over.
LEMMA StaysHooked ==
    ASSUME NEW w \in Workers, wpc[w] = "run", Hooked(w), wobj'[w] = wobj[w],
           tasks'[WId(w)] = tasks[WId(w)] \/ tasks'[WId(w)] = Nil,
           ctx[w] # "live" => ctx'[w] # "live",
           NEW o, o = tasks[WId(w)],
           o # Nil => \/ ctx'[w] # "live"
                      \/ /\ status'[o] = status[o] \/ status'[o] # "Cancelled"
                         /\ cancelFn'[o] = cancelFn[o] \/ cancelFn[o] # w
    PROVE  Hooked(w)'
<1>1. WId(w)' = WId(w)
  BY DEF WId
<1>2. CASE tasks'[WId(w)] = Nil
  BY <1>1, <1>2 DEF Hooked
<1>3. CASE tasks'[WId(w)] = o /\ o # Nil
  BY <1>1, <1>3 DEF Hooked
<1> QED
  BY <1>2, <1>3

\* No step of another goroutine, and no call, unhooks an executing job.
LEMMA HookedStep ==
    ASSUME CarrierInv, \A v \in Workers : Hooked(v) /\ Aftermath(v), [Next]_vars,
           NEW w \in Workers, wpc[w] = "run", wpc'[w] = "run"
    PROVE  Hooked(w)'
<1>0. /\ TypeOK /\ OneCarrier /\ wobj[w] \in Objs /\ WId(w) \in Ids
      /\ <<"worker", w>> \in Carriers(WId(w))
  BY ObjsFacts DEF CarrierInv, TypeOK, WId, Carriers, Active
<1>1. PICK o : o = tasks[WId(w)]
  OBVIOUS
<1>2. o # Nil => o \in Objs /\ Id(o) = WId(w)
  BY <1>0, <1>1 DEF TypeOK
<1>3. outcome[WId(w)] = "accepted"
  BY <1>0 DEF CarrierInv, Fresh, Busy
<1>4. ASSUME NEW i \in Ids, Submit(i) \/ ScheduleOnceTask(i) PROVE Hooked(w)'
  <2>1. i # WId(w)
    BY <1>3, <1>4 DEF Submit, ScheduleOnceTask
  <2>2. UNCHANGED <<wobj, ctx, cancelFn>>
    BY <1>4 DEF Submit, ScheduleOnceTask, worker, objects
  <2>3. <<i, 0>> \in Objs /\ Id(<<i, 0>>) = i
    BY ObjsFacts DEF Id
  <2>4. tasks'[WId(w)] = tasks[WId(w)] /\ (o # Nil => status'[o] = status[o])
    BY <1>0, <1>2, <1>4, <2>1, <2>3 DEF Submit, SubmitTask, ScheduleOnceTask, objects, TypeOK
  <2> QED
    BY <1>1, <2>2, <2>4, StaysHooked
<1>5. ASSUME NEW i \in Ids, Resubmit(i) PROVE Hooked(w)'
  <2>1. UNCHANGED <<wobj, ctx, cancelFn, tasks>> /\ tasks[i] # Nil
    BY <1>5 DEF Resubmit, worker, table
  <2>2. o # Nil => status'[o] = status[o] \/ status'[o] # "Cancelled"
    BY <1>0, <1>2, <1>5 DEF Resubmit, TypeOK
  <2> QED
    BY <1>1, <2>1, <2>2, StaysHooked
<1>6. ASSUME NEW i \in Ids, CancelBegin(i) PROVE Hooked(w)'
  <2>1. UNCHANGED <<wobj, cancelFn, tasks>>
    BY <1>6 DEF CancelBegin, table
  <2>2. ctx' = ctx \/ CallCancel(tasks[i])
    BY <1>6 DEF CancelBegin
  <2>3. ctx[w] # "live" => ctx'[w] # "live"
    BY <2>2 DEF CallCancel
  <2>4. o # Nil => status'[o] = status[o] \/ (o = tasks[i] /\ CallCancel(o))
    BY <1>0, <1>2, <1>6 DEF CancelBegin, TypeOK
  <2>5. o # Nil /\ CallCancel(o) => ctx'[w] # "live"
    BY <1>1 DEF CallCancel, Hooked
  <2> QED
    BY <1>1, <2>1, <2>3, <2>4, <2>5, StaysHooked
<1>7. ASSUME NEW i \in Ids, CancelStep(i) PROVE Hooked(w)'
  <2>1. UNCHANGED <<wobj, cancelFn, ctx, status>>
    BY <1>7 DEF CancelStep, CancelUnlink, CancelFinalize, worker, objects
  <2>2. tasks'[WId(w)] = tasks[WId(w)] \/ tasks'[WId(w)] = Nil
    BY <1>0, <1>7 DEF CancelStep, CancelUnlink, CancelFinalize, table, TypeOK
  <2> QED
    BY <1>1, <2>1, <2>2, StaysHooked
<1>8. ASSUME NEW p \in Objs, WheelStep(p) \/ Pop(p) PROVE Hooked(w)'
  <2>1. UNCHANGED <<wobj, cancelFn, ctx>>
    BY <1>8 DEF WheelStep, ArmOnce, WheelFire, WheelCallback, Pop, worker, objects
  <2>2. CASE WheelCallback(p)
    <3>1. <<"wheel", p>> \in Carriers(Id(p))
      BY <2>2 DEF WheelCallback, Carriers
    <3>2. Id(p) # WId(w)
      BY <1>0, <3>1 DEF OneCarrier
    <3>3. tasks'[WId(w)] = tasks[WId(w)] /\ (o # Nil => status'[o] = status[o])
      BY <1>0, <1>2, <2>2, <3>2, ObjsFacts DEF WheelCallback, SubmitTask, TypeOK
    <3> QED
      BY <1>1, <2>1, <3>3, StaysHooked
  <2>3. CASE ~WheelCallback(p)
    <3>1. UNCHANGED <<tasks, status>>
      BY <1>8, <2>3 DEF WheelStep, ArmOnce, WheelFire, Pop, table, objects
    <3> QED
      BY <1>1, <2>1, <3>1, StaysHooked
  <2> QED
    BY <2>2, <2>3
<1>9. ASSUME NEW v \in Workers, Dispatch(v) \/ JobStep(v) \/ Deadline(v) PROVE Hooked(w)'
  <2>1. UNCHANGED <<tasks, status, cancelFn>> /\ wobj'[w] = wobj[w]
    BY <1>0, <1>9 DEF Dispatch, JobStep, JobReturns, Deadline, table, objects, TypeOK
  <2>2. ctx[w] # "live" => ctx'[w] # "live"
    BY <1>0, <1>9 DEF Dispatch, JobStep, JobReturns, Deadline, TypeOK
  <2> QED
    BY <1>1, <2>1, <2>2, StaysHooked
<1>10. ASSUME NEW v \in Workers, WorkerStep(v) PROVE Hooked(w)'
  <2>1. v # w
    BY <1>0, <1>10 DEF WorkerStep, MarkRunning, CheckTracked, Hook, TakeDone, TakeCtxDone,
       Succeed, FinishCancelled, Decide, Publish, PublishAs, ArmRetry, RecordFailure, Evict,
       GoTo, TypeOK
  <2>2. WId(v) = WId(w) => wpc[v] \notin {"run", "hook", "cancelled"}
    BY <1>0, <2>1, WorkerAlone DEF Aftermath, Active
  <2>3. /\ wobj'[w] = wobj[w] /\ ctx'[w] = ctx[w]
        /\ tasks'[WId(w)] = tasks[WId(w)] \/ tasks'[WId(w)] = Nil
    BY <1>0, <1>10, <2>1, WorkerEffects
  <2>4. o # Nil => /\ status'[o] = status[o] \/ status'[o] # "Cancelled"
                   /\ cancelFn'[o] = cancelFn[o] \/ cancelFn[o] # w
    BY <1>0, <1>2, <1>10, <2>1, <2>2, WorkerEffects
  <2> QED
    BY <1>1, <2>3, <2>4, StaysHooked
<1>11. ASSUME UNCHANGED vars PROVE Hooked(w)'
  BY <1>1, <1>11, StaysHooked DEF vars, worker, table, objects
<1> QED
  BY <1>4, <1>5, <1>6, <1>7, <1>8, <1>9, <1>10, <1>11 DEF Next, ClientStep

\* Hook is the only step into the job, and TakeCtxDone the only one into the
\* aftermath; nothing but Dispatch gives a worker another object.
LEMMA WorkerArrives ==
    ASSUME TypeOK, [Next]_vars, NEW w \in Workers
    PROVE  /\ wpc'[w] = "run" => wpc[w] = "run" \/ Hook(w)
           /\ wpc'[w] = "cancelled" => TakeCtxDone(w) \/ (wpc[w] = "cancelled" /\ wobj'[w] = wobj[w])
<1>1. ASSUME NEW i \in Ids, ClientStep(i) \/ CancelStep(i) PROVE UNCHANGED <<wpc, wobj>>
  BY <1>1 DEF ClientStep, Submit, ScheduleOnceTask, Resubmit, CancelBegin, CancelStep,
     CancelUnlink, CancelFinalize, worker
<1>2. ASSUME NEW o \in Objs, WheelStep(o) \/ Pop(o) PROVE UNCHANGED <<wpc, wobj>>
  BY <1>2 DEF WheelStep, ArmOnce, WheelFire, WheelCallback, Pop, worker
<1>3. ASSUME NEW v \in Workers, Dispatch(v) \/ JobStep(v) \/ Deadline(v)
      PROVE  wpc'[w] = "got" \/ (wpc'[w] = wpc[w] /\ wobj'[w] = wobj[w])
  BY <1>3 DEF Dispatch, JobStep, JobReturns, Deadline, TypeOK
<1>4. ASSUME NEW v \in Workers, WorkerStep(v), v # w
      PROVE  wpc'[w] = wpc[w] /\ wobj'[w] = wobj[w]
  BY <1>4, WorkerEffects
<1>5. ASSUME WorkerStep(w), ~Hook(w), ~TakeCtxDone(w)
      PROVE  wpc'[w] \notin {"run", "cancelled"}
  BY <1>5 DEF WorkerStep, MarkRunning, CheckTracked, TakeDone, Succeed, FinishCancelled,
     Decide, Publish, PublishAs, ArmRetry, RecordFailure, Evict, EndRun, GoTo, TypeOK
<1>6. Hook(w) => wpc'[w] # "cancelled"
  BY DEF Hook, EndRun, GoTo, TypeOK
<1>7. TakeCtxDone(w) => wpc[w] = "run"
  BY DEF TakeCtxDone
<1> QED
  BY <1>1, <1>2, <1>3, <1>4, <1>5, <1>6, <1>7 DEF Next, vars, worker

\* The aftermath of a cancelled run lasts until the worker has finished it.
LEMMA AftermathStep ==
    ASSUME CarrierInv, Timeouts = {} \/ MaxResubmits = 0, \A v \in Workers : Aftermath(v),
           [Next]_vars, NEW w \in Workers
    PROVE  Aftermath(w)'
<1> SUFFICES ASSUME wpc'[w] = "cancelled" PROVE Aftermath(w)'
  BY DEF Aftermath
<1>0. TypeOK /\ OneCarrier
  BY DEF CarrierInv
<1>1. CASE TakeCtxDone(w)
  <2>1. /\ wpc[w] = "run" /\ wobj' = wobj /\ tasks' = tasks
        /\ status' = [status EXCEPT ![wobj[w]] = "Cancelled"]
    BY <1>0, <1>1 DEF TakeCtxDone, GoTo, TypeOK
  <2>2. wobj[w] \in Objs /\ WId(w) \in Ids /\ WId(w)' = WId(w)
    BY <1>0, <2>1, ObjsFacts DEF TypeOK, WId
  <2>3. Carriers(WId(w)) # {} /\ HandsOver(w)
    BY <2>1, <2>2 DEF Carriers, Active, HandsOver
  <2>4. Keeps(WId(w))
    BY <1>0, <1>1, <2>2, NothingNew DEF TakeCtxDone, GoTo, Active, TypeOK
  <2>5. Carriers(WId(w))' = {}
    BY <1>0, <2>2, <2>3, <2>4, HandedOver
  <2>6. Timeouts = {} /\ tasks[WId(w)] # Nil => status[tasks[WId(w)]] \notin Defeated
    BY <2>2, <2>3 DEF CarrierInv, Quiet
  <2>7. tasks[WId(w)] # Nil => \/ status'[tasks[WId(w)]] = status[tasks[WId(w)]]
                               \/ status'[tasks[WId(w)]] = "Cancelled"
    BY <1>0, <2>1, <2>2 DEF TypeOK
  <2> QED
    BY <2>1, <2>2, <2>5, <2>6, <2>7 DEF Aftermath, Defeated, Carriers
<1>2. CASE wpc[w] = "cancelled" /\ wobj'[w] = wobj[w]
  <2>1. PICK j \in Ids : j = WId(w)
    BY <1>0, <1>2, ObjsFacts DEF TypeOK, WId
  <2>2. /\ WId(w)' = j /\ Carriers(j) = {}
        /\ Timeouts = {} /\ tasks[j] # Nil => status[tasks[j]] \notin Defeated
    BY <1>2, <2>1 DEF Aftermath, WId
  <2>3. outcome[j] = "accepted"
    BY <1>0, <1>2, <2>1 DEF CarrierInv, Fresh, Busy
  <2>4. ~Submit(j) /\ ~ScheduleOnceTask(j)
    BY <2>3 DEF Submit, ScheduleOnceTask
  <2>5. ~Resubmit(j)
    <3>1. Resubmit(j) => Timeouts = {}
      BY <1>0, BoundsAssumption DEF Resubmit, TypeOK
    <3> QED
      BY <2>2, <3>1 DEF Resubmit, Resubmittable, Defeated
  <2>6. Calm(j)
    BY <2>4, <2>5, OwnStepCalm, ClientCalm DEF Next, ClientStep
  <2>7. Carriers(j)' = {}
    BY <2>2, <2>6 DEF Calm, Keeps, Moves
  <2>8. Timeouts = {} /\ tasks'[j] # Nil => status'[tasks'[j]] \notin Defeated
    BY <2>2, <2>6 DEF Calm
  <2> QED
    BY <2>2, <2>7, <2>8 DEF Aftermath
<1> QED
  BY <1>0, <1>1, <1>2, WorkerArrives

\* Cancel always reaches an executing job: runTask never sits in its select
\* with a live context while its task shows as Cancelled, because the object
\* that Cancel finds tracked holds the context's cancel from the moment the job
\* starts, and no other worker unhooks it or cancels in its place.  Under the
\* condition of NeverForked.
THEOREM CancelArrives ==
    ASSUME Timeouts = {} \/ MaxResubmits = 0
    PROVE  Spec => []CancelReachesJob
<1> DEFINE Inv == CarrierInv /\ \A w \in Workers : Hooked(w) /\ Aftermath(w)
<1>1. Init => Inv
  <2>1. Init => \A w \in Workers : Hooked(w) /\ Aftermath(w)
    BY DEF Init, Hooked, Aftermath
  <2> QED
    BY <2>1, CarrierInvInit
<1>2. Inv /\ [Next]_vars => Inv'
  <2> SUFFICES ASSUME Inv, [Next]_vars PROVE Inv'
    OBVIOUS
  <2>1. CarrierInv'
    BY CarrierInvStep
  <2>2. ASSUME NEW w \in Workers PROVE Hooked(w)'
    <3>1. CASE wpc[w] = "run" /\ wpc'[w] = "run"
      BY <3>1, HookedStep
    <3>2. CASE Hook(w) /\ wpc'[w] = "run"
      <4>1. ~EndRun(w) /\ WId(w) \in Ids
        BY <3>2, ObjsFacts DEF EndRun, Hook, CarrierInv, TypeOK, WId
      <4>2. /\ tasks' = tasks /\ wobj' = wobj
            /\ cancelFn' = SetTracked(cancelFn, WId(w), w)
            /\ status' = SetTracked(status, WId(w), "Running")
        BY <3>2, <4>1 DEF Hook, table
      <4>3. tasks[WId(w)] # Nil => tasks[WId(w)] \in Objs
        BY <4>1 DEF CarrierInv, TypeOK
      <4> QED
        BY <4>2, <4>3 DEF Hooked, SetTracked, WId
    <3>3. CASE wpc'[w] # "run"
      BY <3>3 DEF Hooked
    <3> QED
      BY <3>1, <3>2, <3>3, WorkerArrives DEF CarrierInv
  <2>3. \A w \in Workers : Aftermath(w)'
    BY AftermathStep
  <2> QED
    BY <2>1, <2>2, <2>3
<1>3. Inv => CancelReachesJob
  BY DEF CancelReachesJob, Hooked
<1> QED
  BY <1>1, <1>2, <1>3, PTL DEF Spec

-----------------------------------------------------------------------------
(* Objects: without Resubmit each one is used once *)

\* An object that a worker has is nowhere else, no two workers have the same
\* one, and nobody has a retryTask that handleFailure has not made yet.
OneHolder ==
    /\ \A w \in Workers : wpc[w] # "idle" => ~Waits(wobj[w])
    /\ \A v, w \in Workers : wpc[v] # "idle" /\ wpc[w] # "idle" /\ wobj[v] = wobj[w] => v = w
    /\ \A o \in Objs : o[2] > gen[Id(o)] =>
          ~Waits(o) /\ \A w \in Workers : wpc[w] # "idle" => wobj[w] # o

\* Workers only go on with what they have, or put it down.
SameHands == \A w \in Workers : wpc'[w] # "idle" => wpc[w] # "idle" /\ wobj'[w] = wobj[w]

\* What a step of a worker does outside runTask.
LEMMA WorkerMoves ==
    ASSUME TypeOK, NEW v \in Workers, WorkerStep(v)
    PROVE  /\ wpc[v] # "idle" /\ wobj[v] \in Objs /\ WId(v) \in Ids
           /\ UNCHANGED <<queue, dq, outcome, resubmits, cpc, cobj>>
           /\ UNCHANGED <<wheel, gen>> \/ ArmRetry(v)
           /\ SameHands
<1>1. wpc[v] # "idle"
  BY DEF WorkerStep, MarkRunning, CheckTracked, Hook, TakeDone, TakeCtxDone, Succeed,
         FinishCancelled, Decide, Publish, PublishAs, ArmRetry, RecordFailure, Evict
<1>2. wobj[v] \in Objs /\ WId(v) \in Ids
  BY <1>1, ObjsFacts DEF TypeOK, WId
<1>3. /\ UNCHANGED <<queue, dq, outcome, resubmits, cpc, cobj>>
      /\ UNCHANGED <<wheel, gen>> \/ ArmRetry(v)
  BY DEF WorkerStep, MarkRunning, CheckTracked, Hook, TakeDone, TakeCtxDone, Succeed,
         FinishCancelled, Decide, Publish, PublishAs, ArmRetry, RecordFailure, Evict,
         cancel, client
<1>4. EndRun(v) \/ (wobj' = wobj /\ \E pc : GoTo(v, pc))
  BY DEF WorkerStep, MarkRunning, CheckTracked, Hook, TakeDone, TakeCtxDone, Succeed,
         FinishCancelled, Decide, Publish, PublishAs, ArmRetry, RecordFailure, Evict
<1>5. SameHands
  BY <1>1, <1>4 DEF SameHands, EndRun, GoTo, TypeOK
<1> QED
  BY <1>1, <1>2, <1>3, <1>5

\* A step after which no object is in a place where it was not before.
LEMMA HoldersStill ==
    ASSUME TypeOK, OneHolder, gen' = gen, SameHands, \A o \in Objs : Waits(o)' => Waits(o)
    PROVE  OneHolder'
<1>1. \A w \in Workers : wpc'[w] # "idle" => wobj[w] \in Objs /\ wobj'[w] = wobj[w]
  BY DEF SameHands, TypeOK
<1>2. \A w \in Workers : wpc'[w] # "idle" => ~Waits(wobj[w])'
  BY <1>1 DEF OneHolder, SameHands, Waits
<1> QED
  BY <1>1, <1>2 DEF OneHolder, SameHands

\* A step that puts one object, which nobody has, into heap or wheel.
LEMMA HoldersNew ==
    ASSUME TypeOK, TypeOK', OneHolder, SameHands, NEW n \in Objs,
           \A o \in Objs : Waits(o)' => Waits(o) \/ o = n,
           \A w \in Workers : wpc[w] # "idle" => wobj[w] # n,
           \A i \in Ids : gen'[i] >= gen[i], n[2] <= gen'[Id(n)]
    PROVE  OneHolder'
<1>1. ASSUME NEW w \in Workers, wpc'[w] # "idle" PROVE ~Waits(wobj[w])' /\ wobj[w] \in Objs
  BY <1>1 DEF OneHolder, SameHands, TypeOK
<1>2. \A v, w \in Workers : wpc'[v] # "idle" /\ wpc'[w] # "idle" /\ wobj'[v] = wobj'[w] => v = w
  BY DEF OneHolder, SameHands
<1>3. ASSUME NEW o \in Objs, o[2] > gen'[Id(o)]
      PROVE  ~Waits(o)' /\ \A w \in Workers : wpc'[w] # "idle" => wobj'[w] # o
  <2>1. Id(o) \in Ids /\ gen[Id(o)] \in Int /\ gen'[Id(o)] \in Int /\ o[2] \in Int
    BY ObjsFacts, BoundsAssumption DEF TypeOK, Objs
  <2>2. o[2] > gen[Id(o)]
    BY <1>3, <2>1
  <2>3. o # n
    BY <1>3, <2>1
  <2> QED
    BY <2>2, <2>3 DEF OneHolder, SameHands
<1>4. \A w \in Workers : wpc'[w] # "idle" => ~(Waits(wobj[w])') /\ wobj'[w] = wobj[w]
  BY <1>1 DEF SameHands
<1> QED
  BY <1>2, <1>3, <1>4 DEF OneHolder, Waits

\* OneHolder is inductive when nobody calls Resubmit.
LEMMA HolderStep ==
    ASSUME CarrierInv, TypeOK', OneHolder, MaxResubmits = 0, [Next]_vars
    PROVE  OneHolder'
<1>0. TypeOK /\ OneCarrier
  BY DEF CarrierInv
<1>1. ASSUME NEW i \in Ids, Submit(i) \/ ScheduleOnceTask(i) PROVE OneHolder'
  <2>1. outcome[i] # "accepted" /\ UNCHANGED <<wpc, wobj, gen, dq>>
    BY <1>1 DEF Submit, ScheduleOnceTask, worker
  <2>2. <<i, 0>> \in Objs /\ Id(<<i, 0>>) = i
    BY ObjsFacts DEF Id
  <2>3. \A w \in Workers : wpc[w] # "idle" => wobj[w] # <<i, 0>>
    BY <2>1, <2>2 DEF CarrierInv, Fresh, Busy, WId
  <2>4. \A o \in Objs : Waits(o)' => Waits(o) \/ o = <<i, 0>>
    BY <1>0, <1>1, <2>2 DEF Submit, SubmitTask, ScheduleOnceTask, Waits, TypeOK
  <2>5. SameHands
    BY <2>1 DEF SameHands
  <2>6. PICK n \in Objs : n = <<i, 0>>
    BY <2>2
  <2>7. n[2] <= gen'[Id(n)] /\ \A j \in Ids : gen'[j] >= gen[j]
    BY <1>0, <2>1, <2>2, <2>6, BoundsAssumption DEF TypeOK
  <2> QED
    BY <1>0, <2>3, <2>4, <2>5, <2>6, <2>7, HoldersNew
<1>2. ASSUME NEW i \in Ids, Resubmit(i) PROVE FALSE
  BY <1>0, <1>2 DEF Resubmit, TypeOK
<1>3. ASSUME NEW i \in Ids, CancelBegin(i) \/ CancelStep(i) PROVE OneHolder'
  <2>1. UNCHANGED <<wpc, wobj, gen, dq, queue>>
    BY <1>3 DEF CancelBegin, CancelStep, CancelUnlink, CancelFinalize, worker
  <2>2. \A o \in Objs : Waits(o)' => Waits(o)
    BY <1>3 DEF CancelBegin, CancelStep, CancelUnlink, CancelFinalize, Waits
  <2> QED
    BY <1>0, <2>1, <2>2, HoldersStill DEF SameHands
<1>4. ASSUME NEW o \in Objs, WheelStep(o) \/ Pop(o) PROVE OneHolder'
  <2>1. UNCHANGED <<wpc, wobj, gen>>
    BY <1>4 DEF WheelStep, ArmOnce, WheelFire, WheelCallback, Pop, worker
  <2>2. \A p \in Objs : Waits(p)' => Waits(p)
    <3>1. CASE Pop(o)
      BY <1>0, <3>1 DEF Pop, Waits, TypeOK
    <3>2. CASE ArmOnce(o) \/ WheelFire(o)
      <4>1. UNCHANGED <<queue, dq>> /\ wheel[o] # "idle"
        BY <3>2 DEF ArmOnce, WheelFire
      <4>2. \A p \in Objs : wheel'[p] # "idle" => wheel[p] # "idle" \/ p = o
        BY <1>0, <3>2 DEF ArmOnce, WheelSchedule, WheelFire, TypeOK
      <4> QED
        BY <4>1, <4>2 DEF Waits
    <3>3. CASE WheelCallback(o)
      <4>1. \A p \in Objs : queue'[p] = queue[p] \/ p = o
        BY <1>0, <3>3 DEF WheelCallback, SubmitTask, TypeOK
      <4>2. Waits(o) /\ dq' = dq /\ \A p \in Objs : wheel'[p] # "idle" => wheel[p] # "idle"
        BY <1>0, <3>3 DEF WheelCallback, Waits, TypeOK
      <4> QED
        BY <4>1, <4>2 DEF Waits
    <3> QED
      BY <1>4, <3>1, <3>2, <3>3 DEF WheelStep
  <2> QED
    BY <1>0, <2>1, <2>2, HoldersStill DEF SameHands
<1>5. ASSUME NEW w \in Workers, Dispatch(w) PROVE OneHolder'
  <2>1. PICK d \in Objs : dq = d
    BY <1>0, <1>5 DEF Dispatch, TypeOK
  <2>2. /\ wpc[w] = "idle" /\ dq' = Nil /\ UNCHANGED <<queue, wheel, gen>>
        /\ wobj' = [wobj EXCEPT ![w] = d] /\ wpc' = [wpc EXCEPT ![w] = "got"]
    BY <1>5, <2>1 DEF Dispatch
  <2>3. Id(d) \in Ids /\ <<"dequeued", d>> \in Carriers(Id(d))
    BY <2>1, ObjsFacts DEF Carriers
  <2>4. queue[d] > 0 => <<"queue", d>> \in Carriers(Id(d))
    BY DEF Carriers
  <2>5. wheel[d] # "idle" => <<"wheel", d>> \in Carriers(Id(d))
    BY DEF Carriers
  <2>6. ~(queue[d] > 0) /\ wheel[d] = "idle"
    BY <1>0, <2>3, <2>4, <2>5 DEF OneCarrier
  <2>7. Waits(d) /\ ~Waits(d)' /\ \A o \in Objs : Waits(o)' => Waits(o)
    BY <2>1, <2>2, <2>6, NilAssumption DEF Waits
  <2>8. \A v \in Workers : wpc[v] # "idle" => wobj[v] # d
    BY <2>7 DEF OneHolder
  <2>9. \A v \in Workers : \/ v = w /\ wobj'[v] = d
                           \/ v # w /\ wobj'[v] = wobj[v] /\ wpc'[v] = wpc[v]
    BY <1>0, <2>2 DEF TypeOK
  <2>10. d[2] <= gen[Id(d)]
    <3>1. ~(d[2] > gen[Id(d)])
      BY <2>7 DEF OneHolder
    <3>2. gen[Id(d)] \in Int /\ d[2] \in Int
      BY <1>0, <2>3, BoundsAssumption DEF TypeOK, Objs
    <3> QED
      BY <3>1, <3>2
  <2>11. \A v \in Workers : wpc'[v] # "idle" => ~Waits(wobj[v])' \/ v = w
    BY <1>0, <2>7, <2>9 DEF OneHolder, TypeOK
  <2>12. \A o \in Objs : o[2] > gen[Id(o)] => o # d
    BY <2>7 DEF OneHolder
  <2> QED
    BY <2>2, <2>7, <2>8, <2>9, <2>11, <2>12 DEF OneHolder, Waits
<1>6. ASSUME NEW w \in Workers, JobStep(w) \/ Deadline(w) PROVE OneHolder'
  <2>1. UNCHANGED <<wpc, wobj, gen, dq, queue, wheel>>
    BY <1>6 DEF JobStep, JobReturns, Deadline
  <2> QED
    BY <1>0, <2>1, HoldersStill DEF SameHands, Waits
<1>7. ASSUME NEW w \in Workers, WorkerStep(w) PROVE OneHolder'
  <2>1. /\ wobj[w] \in Objs /\ WId(w) \in Ids /\ SameHands
        /\ UNCHANGED <<queue, dq>> /\ (UNCHANGED <<wheel, gen>> \/ ArmRetry(w))
    BY <1>0, <1>7, WorkerMoves
  <2>2. CASE UNCHANGED <<wheel, gen>>
    BY <1>0, <2>1, <2>2, HoldersStill DEF Waits
  <2>3. CASE ArmRetry(w)
    <3>1. PICK n \in Objs : n = <<WId(w), gen[WId(w)] + 1>>
      BY <1>0, <2>1, <2>3, ObjsFacts DEF ArmRetry, TypeOK
    <3>2. WheelSchedule(n) /\ gen' = [gen EXCEPT ![WId(w)] = @ + 1]
      BY <2>3, <3>1 DEF ArmRetry
    <3>3. Id(n) = WId(w) /\ n[2] = gen[WId(w)] + 1
      BY <3>1 DEF Id
    <3>4. gen[WId(w)] \in Int /\ n[2] > gen[Id(n)] /\ gen \in [Ids -> Int]
      <4>1. gen \in [Ids -> Int]
        BY <1>0 DEF TypeOK
      <4>2. gen[WId(w)] \in Int
        BY <2>1, <4>1
      <4> QED
        BY <3>3, <4>1, <4>2
    <3>5. \A v \in Workers : wpc[v] # "idle" => wobj[v] # n
      BY <3>4 DEF OneHolder
    <3>6. \A o \in Objs : Waits(o)' => Waits(o) \/ o = n
      BY <2>1, <3>2 DEF Waits, WheelSchedule
    <3>7. n[2] <= gen'[Id(n)] /\ \A j \in Ids : gen'[j] >= gen[j]
      BY <2>1, <3>2, <3>3, <3>4
    <3> QED
      BY <1>0, <2>1, <3>5, <3>6, <3>7, HoldersNew
  <2> QED
    BY <2>1, <2>2, <2>3
<1>8. ASSUME UNCHANGED vars PROVE OneHolder'
  BY <1>0, <1>8, HoldersStill DEF vars, worker, SameHands, Waits
<1> QED
  BY <1>1, <1>2, <1>3, <1>4, <1>5, <1>6, <1>7, <1>8 DEF Next, ClientStep

-----------------------------------------------------------------------------
(* Keys exclude *)

\* Keyed tasks have no retry strategy, since a retryTask has no key, and nobody
\* cancels them, since Cancel may release the key of a task that still runs.
KeysAreSimple == \A i \in Ids : KeyOf[i] # Nil => StrategyMax[i] = 0 /\ i \notin Cancellable

\* Stages of a worker in which the task has its key.
WithKey == {"got", "check", "hook", "run"}

Ready(o) == queue[o] > 0 \/ dq = o \/ \E w \in Workers : wobj[w] = o /\ wpc[w] \in WithKey

\* What is retried or cancelled has no key.
KeylessOthers ==
    /\ \A w \in Workers : wpc[w] \in {"retry", "arm"} => KeyOf[WId(w)] = Nil
    /\ \A i \in Ids : KeyOf[i] # Nil => gen[i] = 0
    /\ \A i \in Ids : cobj[i] # Nil => Id(cobj[i]) = i /\ i \in Cancellable

\* An object that is queued or running has its key, and has it alone.
Exclusive ==
    /\ \A o \in Objs : Ready(o) => KeySet(o) \subseteq activeKeys
    /\ \A o, p \in Objs : Ready(o) /\ Ready(p) /\ KeySet(o) \intersect KeySet(p) # {} => o = p

\* A step of a worker leads from one stage with the key to the next, or out of
\* them; the key is given back at the end of the job and then only.
LEMMA JobForward ==
    ASSUME TypeOK, NEW v \in Workers, WorkerStep(v)
    PROVE  /\ \A x \in Workers : wpc'[x] \in WithKey => wpc[x] \in WithKey /\ wobj'[x] = wobj[x]
           /\ \/ activeKeys' = activeKeys
              \/ /\ wpc[v] = "run" /\ wpc'[v] \notin WithKey
                 /\ activeKeys' = activeKeys \ KeySet(wobj[v])
<1>1. \/ activeKeys' = activeKeys
      \/ /\ wpc[v] = "run" /\ activeKeys' = activeKeys \ KeySet(wobj[v])
         /\ TakeDone(v) \/ TakeCtxDone(v)
  BY DEF WorkerStep, MarkRunning, CheckTracked, Hook, TakeDone, TakeCtxDone, Succeed,
         FinishCancelled, Decide, Publish, PublishAs, ArmRetry, RecordFailure, Evict,
         ReleaseKey, table
<1>2. TakeDone(v) \/ TakeCtxDone(v) => wpc'[v] \notin WithKey
  BY DEF TakeDone, TakeCtxDone, GoTo, WithKey, TypeOK
<1>3. wpc'[v] \in WithKey => wpc[v] \in WithKey
  <2>1. CASE wpc[v] \in {"got", "check", "hook", "run"}
    BY <2>1 DEF WithKey
  <2>2. CASE wpc[v] \notin {"got", "check", "hook", "run"}
    BY <2>2 DEF WorkerStep, MarkRunning, CheckTracked, Hook, TakeDone, TakeCtxDone, Succeed,
       FinishCancelled, Decide, Publish, PublishAs, ArmRetry, RecordFailure, Evict,
       EndRun, GoTo, WithKey, TypeOK
  <2> QED
    BY <2>1, <2>2
<1>4. \A x \in Workers \ {v} : wpc'[x] = wpc[x]
  BY WorkerEffects
<1>5. \A x \in Workers : wpc'[x] \in WithKey => wobj'[x] = wobj[x]
  BY WorkerMoves DEF SameHands, WithKey
<1> QED
  BY <1>1, <1>2, <1>3, <1>4, <1>5

\* handleFailure retries keyless tasks only, and Cancel finalizes only those.
LEMMA KeylessStep ==
    ASSUME TypeOK, KeylessOthers, KeysAreSimple, [Next]_vars
    PROVE  KeylessOthers'
<1>1. ASSUME NEW i \in Ids, Submit(i) \/ ScheduleOnceTask(i) \/ Resubmit(i) \/ CancelUnlink(i)
      PROVE  KeylessOthers'
  <2>1. UNCHANGED <<wpc, wobj, gen, cobj>>
    BY <1>1 DEF Submit, ScheduleOnceTask, Resubmit, CancelUnlink, worker, cancel
  <2> QED
    BY <2>1 DEF KeylessOthers, WId
<1>2. ASSUME NEW i \in Ids, CancelBegin(i) \/ CancelFinalize(i) PROVE KeylessOthers'
  <2>1. UNCHANGED <<wpc, wobj, gen>>
    BY <1>2 DEF CancelBegin, CancelFinalize, worker
  <2>2. \/ cobj' = cobj \/ cobj' = [cobj EXCEPT ![i] = Nil]
        \/ i \in Cancellable /\ tasks[i] # Nil /\ cobj' = [cobj EXCEPT ![i] = tasks[i]]
    BY <1>2 DEF CancelBegin, CancelFinalize
  <2>3. \A j \in Ids : cobj'[j] # Nil => Id(cobj'[j]) = j /\ j \in Cancellable
    BY <2>2 DEF KeylessOthers, TypeOK
  <2> QED
    BY <2>1, <2>3 DEF KeylessOthers, WId
<1>3. ASSUME NEW o \in Objs, WheelStep(o) \/ Pop(o) PROVE KeylessOthers'
  <2>1. UNCHANGED <<wpc, wobj, gen, cobj>>
    BY <1>3 DEF WheelStep, ArmOnce, WheelFire, WheelCallback, Pop, worker, cancel
  <2> QED
    BY <2>1 DEF KeylessOthers, WId
<1>4. ASSUME NEW w \in Workers, Dispatch(w) \/ JobStep(w) \/ Deadline(w) PROVE KeylessOthers'
  <2>1. UNCHANGED <<gen, cobj>>
    BY <1>4 DEF Dispatch, JobStep, JobReturns, Deadline, cancel
  <2>2. \A v \in Workers : wpc'[v] = "got" \/ (wpc'[v] = wpc[v] /\ wobj'[v] = wobj[v])
    BY <1>4 DEF Dispatch, JobStep, JobReturns, Deadline, TypeOK
  <2> QED
    BY <2>1, <2>2 DEF KeylessOthers, WId
<1>5. ASSUME NEW w \in Workers, WorkerStep(w) PROVE KeylessOthers'
  <2>1. /\ wpc[w] # "idle" /\ wobj[w] \in Objs /\ WId(w) \in Ids /\ SameHands /\ cobj' = cobj
        /\ UNCHANGED <<wheel, gen>> \/ ArmRetry(w)
    BY <1>5, WorkerMoves
  <2>2. \A v \in Workers \ {w} : wpc'[v] = wpc[v] /\ wobj'[v] = wobj[v]
    BY <1>5, WorkerEffects
  <2>3. wpc'[w] \in {"retry", "arm"} => KeyOf[WId(w)] = Nil /\ wobj'[w] = wobj[w]
    <3>1. CASE Decide(w)
      <4>1. wpc'[w] \in {"retry", "arm"} => attempts[wobj[w]] < StrategyMax[WId(w)]
        BY <3>1 DEF Decide, GoTo, Retries, WId, TypeOK
      <4>2. attempts[wobj[w]] \in Nat
        BY <2>1 DEF TypeOK
      <4> QED
        BY <2>1, <4>1, <4>2 DEF KeysAreSimple, SameHands
    <3>2. CASE ~Decide(w)
      <4>1. wpc'[w] \in {"retry", "arm"} => wpc[w] = "retry"
        BY <1>5, <3>2 DEF WorkerStep, MarkRunning, CheckTracked, Hook, TakeDone, TakeCtxDone,
           Succeed, FinishCancelled, Publish, PublishAs, ArmRetry, RecordFailure, Evict,
           EndRun, GoTo, TypeOK
      <4> QED
        BY <2>1, <4>1 DEF KeylessOthers, SameHands
    <3> QED
      BY <3>1, <3>2
  <2>4. \A i \in Ids : KeyOf[i] # Nil => gen'[i] = 0
    <3>1. CASE gen' = gen
      BY <3>1 DEF KeylessOthers
    <3>2. CASE ArmRetry(w)
      <4>1. KeyOf[WId(w)] = Nil /\ gen' = [gen EXCEPT ![WId(w)] = @ + 1]
        BY <3>2 DEF ArmRetry, KeylessOthers
      <4> QED
        BY <4>1 DEF KeylessOthers, TypeOK
    <3> QED
      BY <2>1, <3>1, <3>2
  <2> QED
    BY <2>1, <2>2, <2>3, <2>4 DEF KeylessOthers, WId
<1>6. ASSUME UNCHANGED vars PROVE KeylessOthers'
  BY <1>6 DEF vars, worker, cancel, KeylessOthers, WId
<1> QED
  BY <1>1, <1>2, <1>3, <1>4, <1>5, <1>6 DEF Next, ClientStep, CancelStep

\* A step that takes no key away and makes nothing ready.
LEMMA ExclusiveStill ==
    ASSUME Exclusive, \A o \in Objs : Ready(o)' => Ready(o), activeKeys \subseteq activeKeys'
    PROVE  Exclusive'
  BY DEF Exclusive

\* The critical section of Submit queues a task only when its key is free.
LEMMA SubmitExclusive ==
    ASSUME TypeOK, Exclusive, NEW n \in Objs, SubmitTask(n), UNCHANGED <<dq, wpc, wobj>>
    PROVE  Exclusive'
<1>1. activeKeys \subseteq activeKeys'
  BY DEF SubmitTask
<1>2. CASE Accepts(n)
  <2>1. KeySet(n) \intersect activeKeys = {}
    BY <1>2 DEF Accepts, KeyBusy
  <2>2. activeKeys' = activeKeys \union KeySet(n) /\ queue' = [queue EXCEPT ![n] = @ + 1]
    BY <1>2 DEF SubmitTask, Accepts
  <2>3. \A o \in Objs : Ready(o)' => Ready(o) \/ o = n
    BY <2>2 DEF Ready, TypeOK
  <2>4. \A o \in Objs : Ready(o) => KeySet(o) \intersect KeySet(n) = {}
    BY <2>1 DEF Exclusive
  <2> QED
    BY <2>2, <2>3, <2>4 DEF Exclusive
<1>3. CASE ~Accepts(n)
  <2>1. queue' = queue
    BY <1>3 DEF SubmitTask, Accepts
  <2>2. \A o \in Objs : Ready(o)' => Ready(o)
    BY <2>1 DEF Ready
  <2> QED
    BY <1>1, <2>2, ExclusiveStill
<1> QED
  BY <1>2, <1>3

\* Exclusive is inductive for simple keys and without Resubmit.
LEMMA ExclusiveStep ==
    ASSUME TypeOK, OneHolder, KeylessOthers, Exclusive, KeysAreSimple, MaxResubmits = 0, [Next]_vars
    PROVE  Exclusive'
<1>1. ASSUME NEW i \in Ids, Submit(i) PROVE Exclusive'
  BY <1>1, ObjsFacts, SubmitExclusive DEF Submit, worker
<1>2. ASSUME NEW i \in Ids, Resubmit(i) PROVE FALSE
  BY <1>2 DEF Resubmit, TypeOK
<1>3. ASSUME NEW i \in Ids, ScheduleOnceTask(i) \/ CancelBegin(i) \/ CancelUnlink(i)
      PROVE  Exclusive'
  <2>1. UNCHANGED <<queue, dq, wpc, wobj, activeKeys>>
    BY <1>3 DEF ScheduleOnceTask, CancelBegin, CancelUnlink, worker, table
  <2> QED
    BY <2>1, ExclusiveStill DEF Ready
<1>4. ASSUME NEW i \in Ids, CancelFinalize(i) PROVE Exclusive'
  <2>1. cobj[i] \in Objs /\ KeyOf[Id(cobj[i])] = Nil
    <3>1. cobj[i] \in Objs
      BY <1>4 DEF CancelFinalize, TypeOK
    <3>2. Id(cobj[i]) = i /\ i \in Cancellable
      BY <3>1, NilAssumption DEF KeylessOthers
    <3> QED
      BY <3>1, <3>2 DEF KeysAreSimple
  <2>2. KeySet(cobj[i]) = {}
    BY <2>1 DEF KeySet, Key
  <2>3. activeKeys' = activeKeys /\ UNCHANGED <<queue, dq, wpc, wobj>>
    BY <1>4, <2>2 DEF CancelFinalize, ReleaseKey, worker
  <2> QED
    BY <2>3, ExclusiveStill DEF Ready
<1>5. ASSUME NEW o \in Objs, ArmOnce(o) \/ WheelFire(o) PROVE Exclusive'
  <2>1. UNCHANGED <<queue, dq, wpc, wobj, activeKeys>>
    BY <1>5 DEF ArmOnce, WheelFire, worker, table
  <2> QED
    BY <2>1, ExclusiveStill DEF Ready
<1>6. ASSUME NEW o \in Objs, WheelCallback(o) PROVE Exclusive'
  BY <1>6, SubmitExclusive DEF WheelCallback, worker
<1>7. ASSUME NEW o \in Objs, Pop(o) PROVE Exclusive'
  <2>1. /\ UNCHANGED <<wpc, wobj, activeKeys>> /\ dq' = o /\ queue[o] > 0
        /\ queue' = [queue EXCEPT ![o] = @ - 1]
    BY <1>7 DEF Pop, worker, table
  <2>2. \A p \in Objs : queue'[p] > 0 => queue[p] > 0
    BY <2>1 DEF TypeOK
  <2>3. \A p \in Objs : Ready(p)' => Ready(p)
    BY <2>1, <2>2 DEF Ready
  <2> QED
    BY <2>1, <2>3, ExclusiveStill
<1>8. ASSUME NEW w \in Workers, Dispatch(w) PROVE Exclusive'
  <2>1. UNCHANGED <<queue, activeKeys>> /\ dq' = Nil /\ dq # Nil
    BY <1>8 DEF Dispatch, table
  <2>2. \A v \in Workers : wobj'[v] = dq \/ (wobj'[v] = wobj[v] /\ wpc'[v] = wpc[v])
    BY <1>8 DEF Dispatch, TypeOK
  <2>3. \A p \in Objs : Ready(p)' => Ready(p)
    BY <2>1, <2>2, NilAssumption DEF Ready
  <2> QED
    BY <2>1, <2>3, ExclusiveStill
<1>9. ASSUME NEW w \in Workers, JobStep(w) \/ Deadline(w) PROVE Exclusive'
  <2>1. UNCHANGED <<queue, dq, wpc, wobj, activeKeys>>
    BY <1>9 DEF JobStep, JobReturns, Deadline, table
  <2> QED
    BY <2>1, ExclusiveStill DEF Ready
<1>10. ASSUME NEW w \in Workers, WorkerStep(w) PROVE Exclusive'
  <2>1. UNCHANGED <<queue, dq>> /\ wobj[w] \in Objs /\ wpc[w] # "idle"
    BY <1>10, WorkerMoves
  <2>2. \A p \in Objs : Ready(p)' => Ready(p)
    BY <1>10, <2>1, JobForward DEF Ready
  <2>3. CASE activeKeys' = activeKeys
    BY <2>2, <2>3, ExclusiveStill
  <2>4. CASE /\ wpc[w] = "run" /\ wpc'[w] \notin WithKey
             /\ activeKeys' = activeKeys \ KeySet(wobj[w])
    <3>1. Ready(wobj[w])
      BY <2>1, <2>4 DEF Ready, WithKey
    <3>2. ~Waits(wobj[w])
      BY <2>1 DEF OneHolder
    <3>3. ASSUME NEW p \in Objs, Ready(p)' PROVE Ready(p) /\ p # wobj[w]
      <4>1. ASSUME NEW v \in Workers, wobj'[v] = p, wpc'[v] \in WithKey PROVE p # wobj[w]
        <5>1. v # w /\ wpc[v] \in WithKey /\ wobj[v] = p
          BY <1>10, <2>4, <4>1, JobForward
        <5> QED
          BY <2>1, <5>1 DEF OneHolder, WithKey
      <4> QED
        BY <2>1, <2>2, <3>2, <3>3, <4>1 DEF Ready, Waits
    <3>4. \A p \in Objs : Ready(p)' => KeySet(p) \intersect KeySet(wobj[w]) = {}
      BY <2>1, <3>1, <3>3 DEF Exclusive
    <3> QED
      BY <2>2, <2>4, <3>4 DEF Exclusive
  <2> QED
    BY <1>10, <2>3, <2>4, JobForward
<1>11. ASSUME UNCHANGED vars PROVE Exclusive'
  BY <1>11, ExclusiveStill DEF vars, table, worker, Ready
<1> QED
  BY <1>1, <1>2, <1>3, <1>4, <1>5, <1>6, <1>7, <1>8, <1>9, <1>10, <1>11
  DEF Next, ClientStep, CancelStep, WheelStep

\* Two tasks with the same key are never executed at the same time, for any
\* number of tasks, keys and workers and with timeouts, provided the keyed
\* tasks are not retried, cancelled or resubmitted: the code gives the key away
\* in each of these cases.
THEOREM KeysExclude ==
    ASSUME KeysAreSimple, MaxResubmits = 0
    PROVE  Spec => []KeyExclusion
<1> DEFINE Inv == CarrierInv /\ OneHolder /\ KeylessOthers /\ Exclusive
<1>1. Init => Inv
  <2> SUFFICES ASSUME Init PROVE Inv
    OBVIOUS
  <2>1. CarrierInv
    BY CarrierInvInit
  <2>2. \A o \in Objs : ~Waits(o) /\ ~Ready(o)
    BY NilAssumption DEF Init, Waits, Ready, WithKey
  <2>3. KeylessOthers
    BY DEF Init, KeylessOthers
  <2>4. OneHolder
    BY <2>2 DEF Init, OneHolder
  <2>5. Exclusive
    BY <2>2 DEF Exclusive
  <2> QED
    BY <2>1, <2>3, <2>4, <2>5
<1>2. Inv /\ [Next]_vars => Inv'
  <2> SUFFICES ASSUME Inv, [Next]_vars PROVE Inv'
    OBVIOUS
  <2>1. CarrierInv' /\ TypeOK /\ TypeOK'
    BY CarrierInvStep DEF CarrierInv
  <2> QED
    BY <2>1, HolderStep, KeylessStep, ExclusiveStep
<1>3. Inv => KeyExclusion
  <2> SUFFICES ASSUME Inv, NEW v \in Workers, NEW w \in Workers,
                      wpc[v] = "run", wpc[w] = "run",
                      KeyOf[WId(v)] = KeyOf[WId(w)], KeyOf[WId(v)] # Nil
               PROVE  v = w
    BY DEF KeyExclusion
  <2>1. TypeOK
    BY DEF CarrierInv
  <2>2. ASSUME NEW x \in Workers, wpc[x] = "run", KeyOf[WId(x)] # Nil
        PROVE  wobj[x] \in Objs /\ Ready(wobj[x]) /\ KeySet(wobj[x]) = {KeyOf[WId(x)]}
    <3>1. wobj[x] \in Objs /\ WId(x) \in Ids
      BY <2>1, <2>2, ObjsFacts DEF TypeOK, WId
    <3>2. gen[WId(x)] = 0
      BY <2>2, <3>1 DEF KeylessOthers
    <3>3. ~(wobj[x][2] > 0)
      BY <2>2, <3>1, <3>2 DEF OneHolder, WId
    <3>4. wobj[x][2] \in 0 .. MaxGen
      BY <3>1 DEF Objs
    <3>5. wobj[x][2] = 0
      BY <3>3, <3>4, BoundsAssumption
    <3> QED
      BY <2>2, <3>1, <3>5 DEF Ready, WithKey, KeySet, Key, WId
  <2>3. wobj[v] = wobj[w]
    BY <2>2 DEF Exclusive
  <2> QED
    BY <2>3 DEF OneHolder
<1> QED
  BY <1>1, <1>2, <1>3, PTL DEF Spec

-----------------------------------------------------------------------------
(* Tasks that nobody cancels *)

\* Only a task that somebody cancels has a Cancel call; t.cancel belongs to a
\* worker that has an object of the same task; an idle worker's context is new.
CancelsOwn ==
    /\ \A i \in Ids : cpc[i] # "idle" => i \in Cancellable
    /\ \A o \in Objs : cancelFn[o] # Nil =>
          wpc[cancelFn[o]] # "idle" /\ WId(cancelFn[o]) = Id(o)
    /\ \A w \in Workers : wpc[w] = "idle" => ctx[w] = "live"

\* So no other task is ever Cancelled.
Undisturbed ==
    /\ \A o \in Objs : Id(o) \notin Cancellable => status[o] # "Cancelled"
    /\ \A w \in Workers : wpc[w] # "idle" /\ WId(w) \notin Cancellable =>
          ctx[w] # "canceled" /\ wpc[w] # "cancelled"

\* What a step of a worker does to contexts, hooks and statuses.
LEMMA HookEffects ==
    ASSUME TypeOK, NEW v \in Workers, WorkerStep(v)
    PROVE  /\ \/ EndRun(v)
              \/ /\ UNCHANGED <<wobj, ctx>> /\ wpc'[v] # "idle"
                 /\ cancelFn' = cancelFn \/ cancelFn' = SetTracked(cancelFn, WId(v), v)
           /\ wpc'[v] = "cancelled" => TakeCtxDone(v)
           /\ wpc'[v] \in Active => wpc[v] \in Active
           /\ \A o \in Objs : \/ status'[o] = status[o]
                              \/ /\ o = tasks[WId(v)] \/ o = wobj[v]
                                 /\ wpc[v] # "arm" /\ wpc[v] \in Active \union {"ok", "cancelled"}
<1>0. wpc[v] # "idle" /\ wobj[v] \in Objs /\ WId(v) \in Ids
  BY WorkerMoves
<1> DEFINE Goal ==
        /\ \/ EndRun(v)
           \/ /\ UNCHANGED <<wobj, ctx>> /\ wpc'[v] # "idle"
              /\ cancelFn' = cancelFn \/ cancelFn' = SetTracked(cancelFn, WId(v), v)
        /\ wpc'[v] = "cancelled" => TakeCtxDone(v)
        /\ wpc'[v] \in Active => wpc[v] \in Active
        /\ \A o \in Objs : \/ status'[o] = status[o]
                           \/ /\ o = tasks[WId(v)] \/ o = wobj[v]
                              /\ wpc[v] # "arm" /\ wpc[v] \in Active \union {"ok", "cancelled"}
<1>1. EndRun(v) => wpc'[v] = "idle"
  BY DEF EndRun, TypeOK
<1>2. \A pc : GoTo(v, pc) => wpc'[v] = pc
  BY DEF GoTo, TypeOK
<1>3. CASE MarkRunning(v)
  BY <1>0, <1>2, <1>3 DEF MarkRunning, SetTracked, Active, TypeOK
<1>4. CASE CheckTracked(v)
  BY <1>1, <1>2, <1>4 DEF CheckTracked, Active
<1>5. CASE Hook(v)
  <2>1. wpc[v] = "hook"
    BY <1>5 DEF Hook
  <2>2. CASE EndRun(v) /\ UNCHANGED status
    BY <1>1, <2>1, <2>2 DEF Active
  <2>3. CASE /\ cancelFn' = SetTracked(cancelFn, WId(v), v) /\ GoTo(v, "run")
             /\ status' = SetTracked(status, WId(v), "Running") /\ UNCHANGED <<wobj, ctx>>
    BY <1>0, <1>2, <2>1, <2>3 DEF SetTracked, Active, TypeOK
  <2> QED
    BY <1>5, <2>2, <2>3 DEF Hook
<1>6. CASE TakeDone(v)
  BY <1>2, <1>6 DEF TakeDone, Active, objects
<1>7. CASE TakeCtxDone(v)
  <2>1. /\ wpc[v] = "run" /\ UNCHANGED <<wobj, ctx, cancelFn>>
        /\ wpc'[v] = "cancelled" \/ wpc'[v] = "fail"
    BY <1>2, <1>7 DEF TakeCtxDone
  <2>2. \A o \in Objs : o # wobj[v] => status'[o] = status[o]
    BY <1>0, <1>7 DEF TakeCtxDone, TypeOK
  <2> QED
    BY <1>7, <2>1, <2>2 DEF Active
<1>8. CASE Succeed(v)
  <2>1. wpc[v] = "ok" /\ UNCHANGED <<wobj, ctx, cancelFn>> /\ wpc'[v] = "tail"
    BY <1>2, <1>8 DEF Succeed
  <2>2. \A o \in Objs : o # wobj[v] /\ o # tasks[WId(v)] => status'[o] = status[o]
    BY <1>0, <1>8 DEF Succeed, SetTracked, TypeOK
  <2> QED
    BY <2>1, <2>2 DEF Active
<1>9. CASE FinishCancelled(v)
  <2>1. wpc[v] = "cancelled" /\ UNCHANGED <<wobj, ctx, cancelFn>> /\ wpc'[v] = "tail"
    BY <1>2, <1>9 DEF FinishCancelled
  <2>2. \A o \in Objs : o # tasks[WId(v)] => status'[o] = status[o]
    BY <1>0, <1>9 DEF FinishCancelled, SetTracked, TypeOK
  <2> QED
    BY <2>1, <2>2 DEF Active
<1>10. CASE Decide(v)
  <2>1. /\ wpc[v] = "fail" /\ UNCHANGED <<wobj, ctx, cancelFn, status>>
        /\ wpc'[v] \in {"dead", "retry", "failed"}
    BY <1>2, <1>10 DEF Decide, objects
  <2> QED
    BY <2>1 DEF Active
<1>11. CASE Publish(v)
  <2>1. /\ wpc[v] \in {"dead", "retry", "failed"} /\ UNCHANGED <<wobj, ctx, cancelFn>>
        /\ wpc'[v] \in {"record", "arm"}
    BY <1>2, <1>11 DEF Publish, PublishAs
  <2>2. \A o \in Objs : o # tasks[WId(v)] => status'[o] = status[o]
    BY <1>0, <1>11 DEF Publish, PublishAs, SetTracked, TypeOK
  <2> QED
    BY <2>1, <2>2 DEF Active
<1>12. CASE ArmRetry(v)
  BY <1>2, <1>12 DEF ArmRetry, Active
<1>13. CASE RecordFailure(v)
  BY <1>2, <1>13 DEF RecordFailure, Active, objects
<1>14. CASE Evict(v)
  BY <1>1, <1>14 DEF Evict, Active
<1> QED
  BY <1>3, <1>4, <1>5, <1>6, <1>7, <1>8, <1>9, <1>10, <1>11, <1>12, <1>13, <1>14
  DEF WorkerStep

\* Steps after which every hook, context and status is as before, but for a
\* task that is queued.
LEMMA UndisturbedStill ==
    ASSUME CancelsOwn, Undisturbed, UNCHANGED <<wpc, wobj, ctx, cancelFn>>,
           \A i \in Ids : cpc'[i] # "idle" => cpc[i] # "idle",
           \A o \in Objs : status'[o] = status[o] \/ status'[o] = "Queued"
    PROVE  CancelsOwn' /\ Undisturbed'
  BY DEF CancelsOwn, Undisturbed, WId

\* Both are inductive.
LEMMA UndisturbedStep ==
    ASSUME TypeOK, CancelsOwn, Undisturbed, [Next]_vars
    PROVE  CancelsOwn' /\ Undisturbed'
<1>1. ASSUME NEW i \in Ids, Submit(i) \/ ScheduleOnceTask(i) \/ Resubmit(i) \/ CancelStep(i)
      PROVE  CancelsOwn' /\ Undisturbed'
  <2>1. UNCHANGED <<wpc, wobj, ctx, cancelFn>>
    BY <1>1 DEF Submit, ScheduleOnceTask, Resubmit, CancelStep, CancelUnlink, CancelFinalize,
       worker, objects
  <2>2. \A j \in Ids : cpc'[j] # "idle" => cpc[j] # "idle"
    BY <1>1 DEF Submit, ScheduleOnceTask, Resubmit, CancelStep, CancelUnlink, CancelFinalize,
       cancel, TypeOK
  <2>3. \A o \in Objs : status'[o] = status[o] \/ status'[o] = "Queued"
    BY <1>1 DEF Submit, SubmitTask, ScheduleOnceTask, Resubmit, CancelStep, CancelUnlink,
       CancelFinalize, objects, TypeOK
  <2> QED
    BY <2>1, <2>2, <2>3, UndisturbedStill
<1>2. ASSUME NEW i \in Ids, CancelBegin(i) PROVE CancelsOwn' /\ Undisturbed'
  <2>1. /\ i \in Cancellable /\ UNCHANGED <<wpc, wobj, cancelFn>>
        /\ cpc' = [cpc EXCEPT ![i] = "unlink"]
    BY <1>2 DEF CancelBegin
  <2>2. \A w \in Workers : ctx'[w] = ctx[w] \/ (tasks[i] # Nil /\ cancelFn[tasks[i]] = w)
    BY <1>2 DEF CancelBegin, CallCancel
  <2>3. \A w \in Workers : tasks[i] # Nil /\ cancelFn[tasks[i]] = w =>
                             wpc[w] # "idle" /\ WId(w) \in Cancellable
    <3>1. tasks[i] # Nil => tasks[i] \in Objs /\ Id(tasks[i]) = i
      BY DEF TypeOK
    <3> QED
      BY <2>1, <3>1, NilAssumption DEF CancelsOwn
  <2>4. \A o \in Objs : status'[o] = status[o] \/ Id(o) \in Cancellable
    BY <1>2, <2>1 DEF CancelBegin, TypeOK
  <2>5. CancelsOwn'
    BY <2>1, <2>2, <2>3 DEF CancelsOwn, WId, TypeOK
  <2> QED
    BY <2>1, <2>2, <2>3, <2>4, <2>5 DEF Undisturbed, WId
<1>3. ASSUME NEW o \in Objs, WheelStep(o) \/ Pop(o) PROVE CancelsOwn' /\ Undisturbed'
  <2>1. UNCHANGED <<wpc, wobj, ctx, cancelFn, cpc>>
    BY <1>3 DEF WheelStep, ArmOnce, WheelFire, WheelCallback, Pop, worker, objects, cancel
  <2>2. \A p \in Objs : status'[p] = status[p] \/ status'[p] = "Queued"
    BY <1>3 DEF WheelStep, ArmOnce, WheelFire, WheelCallback, SubmitTask, Pop, objects, TypeOK
  <2> QED
    BY <2>1, <2>2, UndisturbedStill
<1>4. ASSUME NEW w \in Workers, Dispatch(w) PROVE CancelsOwn' /\ Undisturbed'
  <2>1. /\ wpc[w] = "idle" /\ UNCHANGED <<ctx, cancelFn, cpc, status>>
        /\ \A v \in Workers : v # w => wpc'[v] = wpc[v] /\ wobj'[v] = wobj[v]
        /\ wpc'[w] = "got"
    BY <1>4 DEF Dispatch, objects, cancel, TypeOK
  <2>2. ctx[w] = "live"
    BY <2>1 DEF CancelsOwn
  <2>3. \A o \in Objs : cancelFn[o] # Nil => cancelFn[o] \in Workers /\ cancelFn[o] # w
    BY <2>1 DEF CancelsOwn, TypeOK
  <2> QED
    BY <2>1, <2>2, <2>3 DEF CancelsOwn, Undisturbed, WId
<1>5. ASSUME NEW w \in Workers, JobStep(w) \/ Deadline(w) PROVE CancelsOwn' /\ Undisturbed'
  <2>1. UNCHANGED <<wpc, wobj, cancelFn, cpc, status>>
    BY <1>5 DEF JobStep, JobReturns, Deadline, objects, cancel
  <2>2. \A v \in Workers : ctx'[v] = ctx[v] \/ (wpc[v] = "run" /\ ctx'[v] = "deadline")
    BY <1>5 DEF JobStep, JobReturns, Deadline, TypeOK
  <2> QED
    BY <2>1, <2>2 DEF CancelsOwn, Undisturbed, WId
<1>6. ASSUME NEW w \in Workers, WorkerStep(w) PROVE CancelsOwn' /\ Undisturbed'
  <2>0. wpc[w] # "idle" /\ wobj[w] \in Objs /\ WId(w) \in Ids /\ cpc' = cpc
    BY <1>6, WorkerMoves
  <2>1. \A v \in Workers \ {w} : wpc'[v] = wpc[v] /\ wobj'[v] = wobj[v] /\ ctx'[v] = ctx[v]
    BY <1>6, WorkerEffects
  <2>2. ASSUME NEW o \in Objs, cancelFn'[o] # Nil
        PROVE  wpc'[cancelFn'[o]] # "idle" /\ Id(wobj'[cancelFn'[o]]) = Id(o)
    <3>1. CASE EndRun(w)
      <4>1. cancelFn'[o] = cancelFn[o] /\ cancelFn[o] # w /\ cancelFn[o] \in Workers
        BY <2>2, <3>1 DEF EndRun, TypeOK
      <4>2. PICK c \in Workers : c = cancelFn[o] /\ c # w /\ cancelFn'[o] = c
        BY <4>1
      <4>3. wpc'[c] # "idle" /\ Id(wobj'[c]) = Id(o)
        BY <2>1, <2>2, <4>2 DEF CancelsOwn, WId
      <4> QED
        BY <4>2, <4>3
    <3>2. CASE /\ UNCHANGED <<wobj, ctx>> /\ wpc'[w] # "idle"
               /\ cancelFn' = cancelFn \/ cancelFn' = SetTracked(cancelFn, WId(w), w)
      <4>1. cancelFn'[o] = cancelFn[o] \/ (o = tasks[WId(w)] /\ cancelFn'[o] = w)
        BY <3>2 DEF SetTracked
      <4>2. o = tasks[WId(w)] => Id(o) = WId(w)
        BY <2>0, NilAssumption DEF TypeOK
      <4>3. cancelFn'[o] = cancelFn[o] => cancelFn[o] \in Workers
        BY <2>2 DEF TypeOK
      <4>4. PICK c \in Workers : /\ cancelFn'[o] = c
                                 /\ c = cancelFn[o] \/ (o = tasks[WId(w)] /\ c = w)
        BY <4>1, <4>3
      <4>5. wpc'[c] # "idle" /\ Id(wobj'[c]) = Id(o)
        <5>1. CASE c = cancelFn[o]
          BY <2>1, <2>2, <3>2, <4>4, <5>1 DEF CancelsOwn, WId
        <5>2. CASE o = tasks[WId(w)] /\ c = w
          BY <3>2, <4>2, <5>2 DEF WId
        <5> QED
          BY <4>4, <5>1, <5>2
      <4> QED
        BY <4>4, <4>5
    <3> QED
      BY <1>6, <3>1, <3>2, HookEffects
  <2>3. wpc'[w] = "idle" => ctx'[w] = "live"
    BY <1>6, HookEffects DEF EndRun, TypeOK
  <2>4. ASSUME NEW o \in Objs, Id(o) \notin Cancellable PROVE status'[o] # "Cancelled"
    <3>1. CASE TakeCtxDone(w) /\ WId(w) = Id(o)
      <4>1. ctx[w] # "canceled" /\ ~(tasks[WId(w)] # Nil /\ status[tasks[WId(w)]] = "Cancelled")
        BY <2>0, <2>4, <3>1 DEF Undisturbed, TypeOK
      <4>2. status' = [status EXCEPT ![wobj[w]] = "Failed"]
        BY <3>1, <4>1 DEF TakeCtxDone
      <4> QED
        BY <2>4, <4>2 DEF Undisturbed, TypeOK
    <3>2. CASE ~(TakeCtxDone(w) /\ WId(w) = Id(o))
      <4>1. wpc[w] = "run" => TakeCtxDone(w) \/ status' = status
        BY <1>6 DEF WorkerStep, MarkRunning, CheckTracked, Hook, TakeDone, Succeed,
           FinishCancelled, Decide, Publish, PublishAs, ArmRetry, RecordFailure, Evict, objects
      <4>2. WId(w) = Id(o) => wpc[w] # "cancelled"
        BY <2>0, <2>4 DEF Undisturbed
      <4> QED
        BY <1>6, <2>4, <3>2, <4>1, <4>2, WorkerEffects DEF Undisturbed
    <3> QED
      BY <3>1, <3>2
  <2>5. ASSUME wpc'[w] # "idle", WId(w)' \notin Cancellable
        PROVE  ctx'[w] # "canceled" /\ wpc'[w] # "cancelled"
    <3>1. wobj'[w] = wobj[w] /\ ctx' = ctx
      BY <1>6, <2>5, HookEffects DEF EndRun, TypeOK
    <3>2. ctx[w] # "canceled" /\ WId(w) \notin Cancellable
      BY <2>0, <2>5, <3>1 DEF Undisturbed, WId
    <3>3. ~(tasks[WId(w)] # Nil /\ status[tasks[WId(w)]] = "Cancelled")
      BY <2>0, <3>2 DEF Undisturbed, TypeOK
    <3>4. TakeCtxDone(w) => wpc'[w] = "fail"
      BY <3>2, <3>3 DEF TakeCtxDone, GoTo, TypeOK
    <3> QED
      BY <1>6, <3>1, <3>2, <3>4, HookEffects
  <2>6. \A v \in Workers \ {w} : wpc'[v] = "idle" => ctx'[v] = "live"
    BY <2>1 DEF CancelsOwn
  <2>7. \A v \in Workers \ {w} : wpc'[v] # "idle" /\ WId(v)' \notin Cancellable =>
                                   ctx'[v] # "canceled" /\ wpc'[v] # "cancelled"
    BY <2>1 DEF Undisturbed, WId
  <2>8. CancelsOwn'
    BY <2>0, <2>2, <2>3, <2>6 DEF CancelsOwn, WId
  <2> QED
    BY <2>4, <2>5, <2>7, <2>8 DEF Undisturbed
<1>7. ASSUME UNCHANGED vars PROVE CancelsOwn' /\ Undisturbed'
  BY <1>7, UndisturbedStill DEF vars, worker, objects, cancel
<1> QED
  BY <1>1, <1>2, <1>3, <1>4, <1>5, <1>6, <1>7 DEF Next, ClientStep

\* What is on its way to an execution of i is the object tracked under i.
Tracks(i) ==
    /\ \A o \in Objs : Id(o) = i /\ (queue[o] > 0 \/ dq = o) => tasks[i] = o
    /\ \A w \in Workers : wpc[w] \in Active /\ WId(w) = i => tasks[i] = wobj[w]

\* A worker that is done with its object leaves it as Retrying, so that it is
\* not evicted from under the retry, or nothing of the task is on its way.
Leaves(w) ==
    wpc[w] # "idle" /\ WId(w) \notin Cancellable =>
        /\ wpc[w] = "arm" => status[wobj[w]] = "Retrying"
        /\ wpc[w] = "tail" => status[wobj[w]] = "Retrying" \/ Carriers(WId(w)) = {}
        /\ wpc[w] \in {"ok", "record"} => Carriers(WId(w)) = {}

\* Without carriers there is nothing to be tracked.
LEMMA GoneTracks ==
    ASSUME NEW j, Carriers(j) = {}
    PROVE  /\ \A o \in Objs : Id(o) = j => ~Waits(o)
           /\ \A w \in Workers : wpc[w] \in Active => WId(w) # j
  BY DEF Carriers, Waits

\* A task that has lost its last carrier while a worker is still busy with it
\* does not get another one.
LEMMA StaysGone ==
    ASSUME CarrierInv, MaxResubmits = 0, [Next]_vars, NEW w \in Workers, NEW j \in Ids,
           wpc[w] # "idle", WId(w) = j, Carriers(j) = {}
    PROVE  Carriers(j)' = {}
<1>1. TypeOK /\ outcome[j] = "accepted"
  BY DEF CarrierInv, Fresh, Busy
<1>2. ~Submit(j) /\ ~ScheduleOnceTask(j) /\ ~Resubmit(j)
  BY <1>1 DEF Submit, ScheduleOnceTask, Resubmit, TypeOK
<1>3. Calm(j)
  BY <1>2, OwnStepCalm, ClientCalm DEF Next, ClientStep
<1> QED
  BY <1>3 DEF Calm, Keeps, Moves

\* A step that leaves the table alone and brings nothing new on its way.
LEMMA TracksStill ==
    ASSUME NEW j, Tracks(j), tasks'[j] = tasks[j],
           \A o \in Objs : Id(o) = j /\ (queue'[o] > 0 \/ dq' = o) => queue[o] > 0 \/ dq = o,
           \A w \in Workers : wpc'[w] \in Active /\ Id(wobj'[w]) = j =>
               \/ wpc[w] \in Active /\ wobj'[w] = wobj[w]
               \/ wobj'[w] \in Objs /\ dq = wobj'[w]
    PROVE  Tracks(j)'
  BY DEF Tracks, WId

\* Tracks is preserved: what tracks another object has no carrier beside it, and
\* what untracks the task finds no carrier left.
LEMMA TracksStep ==
    ASSUME CarrierInv, CarrierInv', CancelsOwn, Undisturbed, MaxResubmits = 0, [Next]_vars,
           \A w \in Workers : Leaves(w), NEW j \in Ids, j \notin Cancellable, Tracks(j)
    PROVE  Tracks(j)'
<1>0. TypeOK /\ OneCarrier
  BY DEF CarrierInv
<1>1. ASSUME NEW i \in Ids, Submit(i) \/ ScheduleOnceTask(i) PROVE Tracks(j)'
  <2>1. UNCHANGED <<wpc, wobj, dq>> /\ outcome[i] # "accepted"
    BY <1>1 DEF Submit, ScheduleOnceTask, worker
  <2>2. <<i, 0>> \in Objs /\ Id(<<i, 0>>) = i
    BY ObjsFacts DEF Id
  <2>3. CASE i # j
    <3>1. tasks'[j] = tasks[j] /\ \A o \in Objs : Id(o) = j => queue'[o] = queue[o]
      BY <1>0, <1>1, <2>2, <2>3 DEF Submit, SubmitTask, ScheduleOnceTask, TypeOK
    <3> QED
      BY <2>1, <3>1, TracksStill
  <2>4. CASE i = j
    <3>1. Carriers(j) = {} /\ \A w \in Workers : ~Busy(w, j)
      BY <2>1, <2>4 DEF CarrierInv, Fresh
    <3>2. \A o \in Objs : Id(o) = j => ~Waits(o)
      BY <3>1, GoneTracks
    <3>3. \A o \in Objs : queue'[o] > 0 => queue[o] > 0 \/ (o = <<i, 0>> /\ tasks'[j] = o)
      <4>1. PICK n \in Objs : n = <<i, 0>> /\ Id(n) = j
        BY <2>2, <2>4
      <4>2. CASE Submit(i)
        <5>1. SubmitTask(n)
          BY <4>1, <4>2 DEF Submit
        <5>2. CASE queue' = queue
          BY <5>2
        <5>3. CASE queue' = [queue EXCEPT ![n] = @ + 1] /\ tasks' = [tasks EXCEPT ![Id(n)] = n]
          <6>1. tasks'[j] = n
            BY <1>0, <4>1, <5>3 DEF TypeOK
          <6>2. \A o \in Objs : o # n => queue'[o] = queue[o]
            BY <1>0, <5>3 DEF TypeOK
          <6> QED
            BY <4>1, <6>1, <6>2
        <5> QED
          BY <5>1, <5>2, <5>3 DEF SubmitTask
      <4>3. CASE ScheduleOnceTask(i)
        BY <4>3 DEF ScheduleOnceTask
      <4> QED
        BY <1>1, <4>2, <4>3
    <3>4. \A w \in Workers : wpc'[w] \in Active => WId(w)' # j
      BY <2>1, <3>1 DEF Busy, WId, Active
    <3> QED
      BY <2>1, <3>2, <3>3, <3>4 DEF Tracks, Waits
  <2> QED
    BY <2>3, <2>4
<1>2. ASSUME NEW i \in Ids, Resubmit(i) PROVE FALSE
  BY <1>0, <1>2 DEF Resubmit, TypeOK
<1>3. ASSUME NEW i \in Ids, CancelBegin(i) \/ CancelStep(i) PROVE Tracks(j)'
  <2>1. UNCHANGED <<wpc, wobj, dq, queue>>
    BY <1>3 DEF CancelBegin, CancelStep, CancelUnlink, CancelFinalize, worker
  <2>2. CancelFinalize(i) => i # j
    BY DEF CancelFinalize, CancelsOwn
  <2>3. tasks'[j] = tasks[j]
    BY <1>0, <1>3, <2>2 DEF CancelBegin, CancelStep, CancelUnlink, CancelFinalize, table, TypeOK
  <2> QED
    BY <2>1, <2>3, TracksStill
<1>4. ASSUME NEW o \in Objs, ArmOnce(o) \/ WheelFire(o) PROVE Tracks(j)'
  <2>1. UNCHANGED <<wpc, wobj, dq, queue, tasks>>
    BY <1>4 DEF ArmOnce, WheelFire, worker, table
  <2> QED
    BY <2>1, TracksStill
<1>5. ASSUME NEW o \in Objs, WheelCallback(o) PROVE Tracks(j)'
  <2>1. UNCHANGED <<wpc, wobj, dq>> /\ Id(o) \in Ids
    BY <1>5, ObjsFacts DEF WheelCallback, worker
  <2>2. CASE Id(o) # j
    <3>1. tasks'[j] = tasks[j] /\ \A p \in Objs : Id(p) = j => queue'[p] = queue[p]
      BY <1>0, <1>5, <2>2 DEF WheelCallback, SubmitTask, TypeOK
    <3> QED
      BY <2>1, <3>1, TracksStill
  <2>3. CASE Id(o) = j
    <3>1. <<"wheel", o>> \in Carriers(j)
      BY <1>5, <2>3 DEF WheelCallback, Carriers
    <3>2. \A c \in Carriers(j) : c = <<"wheel", o>>
      BY <1>0, <3>1 DEF OneCarrier
    <3>3. \A p \in Objs : Id(p) = j => ~(queue[p] > 0) /\ dq # p
      <4>1. \A p \in Objs : Id(p) = j /\ queue[p] > 0 => <<"queue", p>> \in Carriers(j)
        BY DEF Carriers
      <4>2. \A p \in Objs : Id(p) = j /\ dq = p => <<"dequeued", p>> \in Carriers(j)
        BY DEF Carriers
      <4> QED
        BY <3>2, <4>1, <4>2
    <3>4. \A w \in Workers : wpc[w] \in Active => WId(w) # j
      BY <3>2 DEF Carriers
    <3>5. \A p \in Objs : queue'[p] > 0 => queue[p] > 0 \/ (p = o /\ tasks'[j] = o)
      BY <1>0, <1>5, <2>3 DEF WheelCallback, SubmitTask, TypeOK
    <3> QED
      BY <2>1, <3>3, <3>4, <3>5 DEF Tracks, WId
  <2> QED
    BY <2>2, <2>3
<1>6. ASSUME NEW o \in Objs, Pop(o) PROVE Tracks(j)'
  <2>1. /\ UNCHANGED <<wpc, wobj, tasks>> /\ dq' = o /\ queue[o] > 0
        /\ queue' = [queue EXCEPT ![o] = @ - 1]
    BY <1>6 DEF Pop, worker, table
  <2>2. \A p \in Objs : queue'[p] > 0 => queue[p] > 0
    BY <1>0, <2>1 DEF TypeOK
  <2> QED
    BY <2>1, <2>2, TracksStill
<1>7. ASSUME NEW w \in Workers, Dispatch(w) PROVE Tracks(j)'
  <2>1. UNCHANGED <<queue, tasks>> /\ dq' = Nil /\ dq \in Objs
    BY <1>0, <1>7 DEF Dispatch, table, TypeOK
  <2>2. \A v \in Workers : wobj'[v] = dq \/ (wobj'[v] = wobj[v] /\ wpc'[v] = wpc[v])
    BY <1>0, <1>7 DEF Dispatch, TypeOK
  <2> QED
    BY <2>1, <2>2, NilAssumption, TracksStill
<1>8. ASSUME NEW w \in Workers, JobStep(w) \/ Deadline(w) PROVE Tracks(j)'
  <2>1. UNCHANGED <<wpc, wobj, dq, queue, tasks>>
    BY <1>8 DEF JobStep, JobReturns, Deadline, table
  <2> QED
    BY <2>1, TracksStill
<1>9. ASSUME NEW w \in Workers, WorkerStep(w) PROVE Tracks(j)'
  <2>1. UNCHANGED <<queue, dq>> /\ SameHands /\ wpc[w] # "idle" /\ WId(w) \in Ids /\ wobj[w] \in Objs
    BY <1>0, <1>9, WorkerMoves
  <2>2. \A v \in Workers : wpc'[v] \in Active => wpc[v] \in Active /\ wobj'[v] = wobj[v]
    <3>1. \A v \in Workers : wpc'[v] \in Active => wobj'[v] = wobj[v]
      BY <2>1 DEF SameHands, Active
    <3>2. \A v \in Workers \ {w} : wpc'[v] = wpc[v]
      BY <1>0, <1>9, WorkerEffects
    <3>3. wpc'[w] \in Active => wpc[w] \in Active
      BY <1>0, <1>9, HookEffects
    <3> QED
      BY <3>1, <3>2, <3>3
  <2>3. CASE tasks'[j] = tasks[j]
    BY <2>1, <2>2, <2>3, TracksStill
  <2>4. CASE tasks'[j] # tasks[j]
    <3>1. /\ WId(w) = j
          /\ \/ tasks[j] # Nil /\ status[tasks[j]] = "Cancelled"
             \/ wpc[w] = "tail" /\ status[wobj[w]] \notin Kept
      BY <1>0, <1>9, <2>1, <2>4 DEF WorkerStep, MarkRunning, CheckTracked, Hook, TakeDone,
         TakeCtxDone, Succeed, FinishCancelled, Decide, Publish, PublishAs, ArmRetry,
         RecordFailure, Evict, table, TypeOK
    <3>2. tasks[j] # Nil => status[tasks[j]] # "Cancelled"
      BY <1>0 DEF Undisturbed, TypeOK
    <3>3. Carriers(j) = {}
      BY <2>1, <3>1, <3>2 DEF Leaves, Kept
    <3>4. Carriers(j)' = {}
      BY <2>1, <3>1, <3>3, StaysGone
    <3>5. /\ \A o \in Objs : Id(o) = j => ~(queue[o] > 0) /\ dq # o
          /\ \A v \in Workers : wpc[v] \in Active => WId(v) # j
      BY <3>3, GoneTracks DEF Waits
    <3> QED
      BY <2>1, <2>2, <3>5 DEF Tracks, WId
  <2> QED
    BY <2>3, <2>4
<1>10. ASSUME UNCHANGED vars PROVE Tracks(j)'
  BY <1>10, TracksStill DEF vars, table, worker
<1> QED
  BY <1>1, <1>2, <1>3, <1>4, <1>5, <1>6, <1>7, <1>8, <1>9, <1>10
  DEF Next, ClientStep, WheelStep

\* The step of a worker into one of its last stages.
LEMMA LeavesOwn ==
    ASSUME CarrierInv, Undisturbed, MaxResubmits = 0, [Next]_vars, NEW w \in Workers, WorkerStep(w),
           Leaves(w), WId(w) \notin Cancellable => Tracks(WId(w))
    PROVE  Leaves(w)'
<1>0. TypeOK /\ OneCarrier
  BY DEF CarrierInv
<1> SUFFICES ASSUME wpc'[w] # "idle", WId(w)' \notin Cancellable PROVE Leaves(w)'
  BY DEF Leaves
<1>1. /\ wpc[w] # "idle" /\ wobj'[w] = wobj[w] /\ wobj[w] \in Objs /\ WId(w) \in Ids
      /\ UNCHANGED <<queue, dq>>
  BY <1>0, WorkerMoves DEF SameHands
<1>2. PICK j \in Ids : j = WId(w) /\ j \notin Cancellable /\ WId(w)' = j
  BY <1>1 DEF WId
<1>3. wpc[w] # "cancelled" /\ Tracks(j)
  BY <1>1, <1>2 DEF Undisturbed
<1>4. CASE wpc'[w] = "ok" \/ wpc'[w] = "record"
  <2>1. TakeDone(w) \/ Publish(w)
    BY <1>0, <1>4 DEF WorkerStep, MarkRunning, CheckTracked, Hook, TakeCtxDone, Succeed,
       FinishCancelled, Decide, ArmRetry, RecordFailure, Evict, EndRun, GoTo, TypeOK
  <2>2. /\ wpc[w] \in Active /\ wpc'[w] \notin Active /\ UNCHANGED wheel
        /\ \A v \in Workers \ {w} : wpc'[v] = wpc[v] /\ wobj'[v] = wobj[v]
    <3>1. wpc[w] \in Active /\ UNCHANGED wheel
      BY <2>1 DEF TakeDone, Publish, PublishAs, Active
    <3> QED
      BY <1>0, <1>4, <3>1, WorkerEffects DEF Active
  <2>3. Keeps(j)
    BY <1>0, <1>1, <2>2, NothingNew
  <2>4. Carriers(j)' = {}
    BY <1>0, <1>2, <2>2, <2>3, HandedOver DEF HandsOver
  <2> QED
    BY <1>2, <1>4, <2>4 DEF Leaves
<1>5. CASE wpc'[w] = "arm"
  <2>1. wpc[w] = "retry" /\ status' = SetTracked(status, WId(w), "Retrying")
    BY <1>0, <1>5 DEF WorkerStep, MarkRunning, CheckTracked, Hook, TakeDone, TakeCtxDone,
       Succeed, FinishCancelled, Decide, Publish, PublishAs, ArmRetry, RecordFailure, Evict,
       EndRun, GoTo, TypeOK
  <2>2. tasks[WId(w)] = wobj[w]
    BY <1>2, <1>3, <2>1 DEF Tracks, Active
  <2>3. status'[wobj'[w]] = "Retrying"
    BY <1>1, <2>1, <2>2 DEF SetTracked
  <2> QED
    BY <1>5, <2>3 DEF Leaves
<1>6. CASE wpc'[w] = "tail"
  <2>1. Succeed(w) \/ RecordFailure(w) \/ ArmRetry(w)
    BY <1>0, <1>3, <1>6 DEF WorkerStep, MarkRunning, CheckTracked, Hook, TakeDone, TakeCtxDone,
       FinishCancelled, Decide, Publish, PublishAs, Evict, EndRun, GoTo, TypeOK
  <2>2. CASE ArmRetry(w)
    <3>1. wpc[w] = "arm" /\ status' = status
      BY <2>2 DEF ArmRetry
    <3> QED
      BY <1>1, <1>2, <1>6, <3>1 DEF Leaves, WId
  <2>3. CASE Succeed(w) \/ RecordFailure(w)
    <3>1. wpc[w] = "ok" \/ wpc[w] = "record"
      BY <2>3 DEF Succeed, RecordFailure
    <3>2. Carriers(j)' = {}
      BY <1>1, <1>2, <3>1, StaysGone DEF Leaves
    <3> QED
      BY <1>2, <1>6, <3>2 DEF Leaves
  <2> QED
    BY <2>1, <2>2, <2>3
<1> QED
  BY <1>4, <1>5, <1>6 DEF Leaves

\* What the others do meanwhile: nobody touches the status of the object.
LEMMA LeavesOthers ==
    ASSUME CarrierInv, OneHolder, CancelsOwn, Undisturbed, MaxResubmits = 0, [Next]_vars,
           \A i \in Ids \ Cancellable : Tracks(i), \A v \in Workers : Leaves(v),
           NEW w \in Workers, wpc'[w] = wpc[w], wobj'[w] = wobj[w], ~WorkerStep(w)
    PROVE  Leaves(w)'
<1>0. TypeOK /\ OneCarrier
  BY DEF CarrierInv
<1> SUFFICES ASSUME wpc[w] # "idle", WId(w) \notin Cancellable PROVE Leaves(w)'
  BY DEF Leaves, WId
<1>1. wobj[w] \in Objs /\ WId(w) \in Ids
  BY <1>0, ObjsFacts DEF TypeOK, WId
<1>2. PICK j \in Ids : j = WId(w) /\ j \notin Cancellable /\ WId(w)' = j
  BY <1>1 DEF WId
<1>3. CASE Carriers(j) = {}
  <2>1. Carriers(j)' = {}
    BY <1>2, <1>3, StaysGone
  <2>2. wpc[w] # "arm"
    BY <1>2, <1>3, GoneTracks DEF Active
  <2> QED
    BY <1>2, <2>1, <2>2 DEF Leaves
<1>4. CASE Carriers(j) # {}
  <2>1. wpc[w] \notin {"ok", "record"}
    BY <1>2, <1>4 DEF Leaves
  <2>2. PICK o \in Objs : o = wobj[w] /\ Id(o) = j
    BY <1>1, <1>2 DEF WId
  <2>3. status'[o] = status[o]
    <3>1. ASSUME NEW i \in Ids, Submit(i) PROVE status'[o] = status[o]
      <4>1. outcome[i] # "accepted" /\ SubmitTask(<<i, 0>>)
        BY <3>1 DEF Submit
      <4>2. o # <<i, 0>>
        BY <2>2, <4>1, <1>2 DEF CarrierInv, Fresh, Busy, Id
      <4> QED
        BY <1>0, <4>1, <4>2 DEF SubmitTask, TypeOK
    <3>2. ASSUME NEW i \in Ids, ScheduleOnceTask(i) \/ CancelStep(i) PROVE status'[o] = status[o]
      BY <3>2 DEF ScheduleOnceTask, CancelStep, CancelUnlink, CancelFinalize, objects
    <3>3. ASSUME NEW i \in Ids, Resubmit(i) PROVE FALSE
      BY <1>0, <3>3 DEF Resubmit, TypeOK
    <3>4. ASSUME NEW i \in Ids, CancelBegin(i) PROVE status'[o] = status[o]
      <4>1. i # j /\ (tasks[i] # Nil => Id(tasks[i]) = i)
        BY <1>0, <1>2, <3>4 DEF CancelBegin, TypeOK
      <4> QED
        BY <1>0, <2>2, <3>4, <4>1 DEF CancelBegin, TypeOK
    <3>5. ASSUME NEW p \in Objs, ArmOnce(p) \/ WheelFire(p) \/ Pop(p) PROVE status'[o] = status[o]
      BY <3>5 DEF ArmOnce, WheelFire, Pop, objects
    <3>6. ASSUME NEW p \in Objs, WheelCallback(p) PROVE status'[o] = status[o]
      <4>1. Waits(p) /\ SubmitTask(p)
        BY <3>6 DEF WheelCallback, Waits
      <4>2. p # o
        BY <2>2, <4>1 DEF OneHolder
      <4> QED
        BY <1>0, <4>1, <4>2 DEF SubmitTask, TypeOK
    <3>7. ASSUME NEW v \in Workers, Dispatch(v) \/ JobStep(v) \/ Deadline(v)
          PROVE  status'[o] = status[o]
      BY <3>7 DEF Dispatch, JobStep, JobReturns, Deadline, objects
    <3>8. ASSUME NEW v \in Workers, WorkerStep(v) PROVE status'[o] = status[o]
      <4>1. v # w /\ wpc[v] # "idle" /\ WId(v) \in Ids
        BY <1>0, <3>8, WorkerMoves
      <4>2. wobj[v] # o
        BY <2>2, <4>1 DEF OneHolder
      <4>3. CASE WId(v) = j
        <5>1. wpc[v] \notin {"ok", "cancelled"}
          BY <1>2, <1>4, <4>1, <4>3 DEF Leaves, Undisturbed
        <5>2. wpc[v] \in Active => tasks[WId(v)] # o
          BY <1>2, <4>2, <4>3 DEF Tracks
        <5> QED
          BY <1>0, <3>8, <4>2, <5>1, <5>2, HookEffects
      <4>4. CASE WId(v) # j
        BY <1>0, <2>2, <3>8, <4>4, WorkerEffects
      <4> QED
        BY <4>3, <4>4
    <3>9. ASSUME UNCHANGED vars PROVE status'[o] = status[o]
      BY <3>9 DEF vars, objects
    <3> QED
      BY <3>1, <3>2, <3>3, <3>4, <3>5, <3>6, <3>7, <3>8, <3>9 DEF Next, ClientStep, WheelStep
  <2> QED
    BY <1>2, <1>4, <2>1, <2>2, <2>3 DEF Leaves
<1> QED
  BY <1>3, <1>4

\* The invariant of the tasks nobody cancels.
TrackInv ==
    /\ CarrierInv /\ OneHolder /\ CancelsOwn /\ Undisturbed
    /\ \A i \in Ids \ Cancellable : Tracks(i)
    /\ \A w \in Workers : Leaves(w)

\* It holds in the beginning ...
LEMMA TrackInit == Init => TrackInv
<1> SUFFICES ASSUME Init PROVE TrackInv
  OBVIOUS
<1>1. CarrierInv
  BY CarrierInvInit
<1>2. \A o \in Objs : ~Waits(o) /\ ~(queue[o] > 0) /\ dq # o
  BY NilAssumption DEF Init, Waits
<1>3. OneHolder
  BY <1>2 DEF Init, OneHolder
<1>4. CancelsOwn /\ Undisturbed
  BY DEF Init, CancelsOwn, Undisturbed
<1>5. \A i \in Ids : Tracks(i)
  BY <1>2 DEF Init, Tracks, Active
<1>6. \A w \in Workers : Leaves(w)
  BY DEF Init, Leaves
<1> QED
  BY <1>1, <1>3, <1>4, <1>5, <1>6 DEF TrackInv

\* ... and every step preserves it, when nobody calls Resubmit.
LEMMA TrackStep ==
    ASSUME TrackInv, MaxResubmits = 0, [Next]_vars
    PROVE  TrackInv'
<1> USE DEF TrackInv
<1>1. TypeOK /\ CarrierInv' /\ TypeOK'
  BY CarrierInvStep DEF CarrierInv
<1>2. OneHolder' /\ CancelsOwn' /\ Undisturbed'
  BY <1>1, HolderStep, UndisturbedStep
<1>3. \A i \in Ids \ Cancellable : Tracks(i)'
  BY <1>1, TracksStep
<1>4. ASSUME NEW w \in Workers PROVE Leaves(w)'
  <2>1. CASE WorkerStep(w)
    <3>1. WId(w) \notin Cancellable => Tracks(WId(w))
      BY <1>1, <2>1, WorkerMoves
    <3> QED
      BY <2>1, <3>1, LeavesOwn
  <2>2. CASE ~WorkerStep(w)
    <3>1. wpc'[w] \in {"idle", "got"} \/ (wpc'[w] = wpc[w] /\ wobj'[w] = wobj[w])
      <4>1. ASSUME NEW i \in Ids, ClientStep(i) \/ CancelStep(i) PROVE UNCHANGED <<wpc, wobj>>
        BY <4>1 DEF ClientStep, Submit, ScheduleOnceTask, Resubmit, CancelBegin, CancelStep,
           CancelUnlink, CancelFinalize, worker
      <4>2. ASSUME NEW o \in Objs, WheelStep(o) \/ Pop(o) PROVE UNCHANGED <<wpc, wobj>>
        BY <4>2 DEF WheelStep, ArmOnce, WheelFire, WheelCallback, Pop, worker
      <4>3. ASSUME NEW v \in Workers, Dispatch(v) \/ JobStep(v) \/ Deadline(v)
            PROVE  wpc'[w] = "got" \/ (wpc'[w] = wpc[w] /\ wobj'[w] = wobj[w])
        BY <1>1, <4>3 DEF Dispatch, JobStep, JobReturns, Deadline, TypeOK
      <4>4. ASSUME NEW v \in Workers, WorkerStep(v) PROVE wpc'[w] = wpc[w] /\ wobj'[w] = wobj[w]
        BY <1>1, <2>2, <4>4, WorkerEffects
      <4> QED
        BY <4>1, <4>2, <4>3, <4>4 DEF Next, vars, worker
    <3>2. CASE wpc'[w] \in {"idle", "got"}
      BY <3>2 DEF Leaves
    <3>3. CASE wpc'[w] = wpc[w] /\ wobj'[w] = wobj[w]
      BY <2>2, <3>3, LeavesOthers
    <3> QED
      BY <3>1, <3>2, <3>3
  <2> QED
    BY <2>1, <2>2
<1> QED
  BY <1>1, <1>2, <1>3, <1>4

\* What is in the heap, and nobody cancels, is the task tracked under its id,
\* for any number of tasks, workers and retries and with timeouts: neither a
\* retry that comes back from the wheel nor the eviction of the attempt before
\* it ever separates the two, provided nobody calls Resubmit.
THEOREM QueuedStaysTracked ==
    ASSUME MaxResubmits = 0
    PROVE  Spec => []QueuedIsTracked
<1>1. Init => TrackInv
  BY TrackInit
<1>2. TrackInv /\ [Next]_vars => TrackInv'
  BY TrackStep
<1>3. TrackInv => QueuedIsTracked
  BY ObjsFacts DEF TrackInv, Tracks, QueuedIsTracked
<1> QED
  BY <1>1, <1>2, <1>3, PTL DEF Spec

-----------------------------------------------------------------------------
(* Keys do not leak *)

\* Keyed tasks are of a registered type, since Submit keeps the key of one that
\* is not, and nobody cancels them, since a worker may drop what Cancel has
\* marked before Cancel gives the key back.
KeysAreSafe == \A i \in Ids : KeyOf[i] # Nil => i \notin Cancellable \union Unregistered

\* The next step of a worker that has its key: it goes on, since the task is
\* tracked and not Cancelled, or it gives the key back.
LEMMA KeyGoesOn ==
    ASSUME TypeOK, Undisturbed, NEW w \in Workers, WorkerStep(w), wpc[w] \in WithKey,
           WId(w) \notin Cancellable, Tracks(WId(w))
    PROVE  \/ wpc'[w] \in WithKey /\ wobj'[w] = wobj[w]
           \/ activeKeys' = activeKeys \ KeySet(wobj[w])
<1>1. wobj[w] \in Objs /\ tasks[WId(w)] = wobj[w] /\ tasks[WId(w)] # Nil
  BY WorkerMoves, NilAssumption DEF Tracks, WithKey, Active
<1>2. status[tasks[WId(w)]] # "Cancelled"
  BY <1>1 DEF Undisturbed, WId
<1>3. \A pc : GoTo(w, pc) => wpc'[w] = pc
  BY DEF GoTo, TypeOK
<1>4. CASE TakeDone(w) \/ TakeCtxDone(w)
  BY <1>4 DEF TakeDone, TakeCtxDone, ReleaseKey
<1>5. CASE MarkRunning(w)
  BY <1>3, <1>5 DEF MarkRunning, WithKey
<1>6. CASE CheckTracked(w)
  BY <1>1, <1>2, <1>3, <1>6 DEF CheckTracked, WithKey
<1>7. CASE Hook(w)
  BY <1>1, <1>2, <1>3, <1>7 DEF Hook, CancelledBeforeHook, WithKey
<1> QED
  BY <1>4, <1>5, <1>6, <1>7 DEF WorkerStep, WithKey, Succeed, FinishCancelled, Decide, Publish,
     PublishAs, ArmRetry, RecordFailure, Evict

\* An object with a key stays queued or running until it has given it back.
LEMMA KeyIsHeld ==
    ASSUME TrackInv, MaxResubmits = 0, [Next]_vars,
           NEW o \in Objs, Id(o) \notin Cancellable, Ready(o)
    PROVE  Ready(o)' \/ activeKeys' = activeKeys \ KeySet(o)
<1>0. TypeOK /\ Undisturbed /\ Id(o) \in Ids /\ Tracks(Id(o))
  BY ObjsFacts DEF TrackInv, CarrierInv
<1>1. ASSUME NEW i \in Ids, ClientStep(i) \/ CancelStep(i) PROVE Ready(o)'
  <2>1. ~Resubmit(i)
    BY <1>0 DEF Resubmit, TypeOK
  <2>2. UNCHANGED <<dq, wpc, wobj>>
    BY <1>1, <2>1 DEF ClientStep, Submit, ScheduleOnceTask, CancelBegin, CancelStep,
       CancelUnlink, CancelFinalize, worker
  <2>3. queue[o] > 0 => queue'[o] > 0
    <3>1. CASE Submit(i)
      <4>1. PICK n \in Objs : SubmitTask(n)
        BY <3>1, ObjsFacts DEF Submit
      <4> QED
        BY <1>0, <4>1 DEF SubmitTask, TypeOK
    <3>2. CASE ~Submit(i)
      BY <1>1, <2>1, <3>2 DEF ClientStep, ScheduleOnceTask, CancelBegin, CancelStep,
         CancelUnlink, CancelFinalize
    <3> QED
      BY <3>1, <3>2
  <2> QED
    BY <2>2, <2>3 DEF Ready
<1>2. ASSUME NEW p \in Objs, WheelStep(p) PROVE Ready(o)'
  <2>1. UNCHANGED <<dq, wpc, wobj>>
    BY <1>2 DEF WheelStep, ArmOnce, WheelFire, WheelCallback, worker
  <2>2. queue[o] > 0 => queue'[o] > 0
    BY <1>0, <1>2 DEF WheelStep, ArmOnce, WheelFire, WheelCallback, SubmitTask, TypeOK
  <2> QED
    BY <2>1, <2>2 DEF Ready
<1>3. ASSUME NEW p \in Objs, Pop(p) PROVE Ready(o)'
  <2>1. UNCHANGED <<wpc, wobj>> /\ dq = Nil /\ dq' = p /\ (o = p \/ queue'[o] = queue[o])
    BY <1>0, <1>3 DEF Pop, worker, TypeOK
  <2> QED
    BY <2>1, NilAssumption DEF Ready
<1>4. ASSUME NEW w \in Workers, Dispatch(w) PROVE Ready(o)'
  <2>1. /\ queue' = queue /\ wpc[w] = "idle" /\ wpc'[w] = "got" /\ wobj'[w] = dq
        /\ \A v \in Workers : v # w => wpc'[v] = wpc[v] /\ wobj'[v] = wobj[v]
    BY <1>0, <1>4 DEF Dispatch, TypeOK
  <2> QED
    BY <2>1 DEF Ready, WithKey
<1>5. ASSUME NEW w \in Workers, JobStep(w) \/ Deadline(w) PROVE Ready(o)'
  <2>1. UNCHANGED <<queue, dq, wpc, wobj>>
    BY <1>5 DEF JobStep, JobReturns, Deadline
  <2> QED
    BY <2>1 DEF Ready
<1>6. ASSUME NEW w \in Workers, WorkerStep(w)
      PROVE  Ready(o)' \/ activeKeys' = activeKeys \ KeySet(o)
  <2>1. UNCHANGED <<queue, dq>> /\ \A v \in Workers \ {w} : wpc'[v] = wpc[v] /\ wobj'[v] = wobj[v]
    BY <1>0, <1>6, WorkerMoves, WorkerEffects
  <2>2. CASE wobj[w] = o /\ wpc[w] \in WithKey
    BY <1>0, <1>6, <2>2, KeyGoesOn DEF Ready, WId
  <2>3. CASE ~(wobj[w] = o /\ wpc[w] \in WithKey)
    BY <2>1, <2>3 DEF Ready
  <2> QED
    BY <2>2, <2>3
<1>7. ASSUME UNCHANGED vars PROVE Ready(o)'
  BY <1>7 DEF vars, worker, Ready
<1> QED
  BY <1>1, <1>2, <1>3, <1>4, <1>5, <1>6, <1>7 DEF Next

\* A key is taken only by what is queued in the same step.
LEMMA KeyIsTaken ==
    ASSUME TypeOK, KeysAreSafe, MaxResubmits = 0, [Next]_vars, NEW k \in activeKeys'
    PROVE  k \in activeKeys \/ \E o \in Objs : Key(o) = k /\ Ready(o)'
<1>1. ASSUME NEW n \in Objs, SubmitTask(n)
      PROVE  k \in activeKeys \/ \E o \in Objs : Key(o) = k /\ Ready(o)'
  <2>1. CASE activeKeys' = activeKeys
    BY <2>1
  <2>2. CASE Id(n) \in Unregistered
    <3>1. KeySet(n) = {}
      BY <2>2, ObjsFacts DEF KeysAreSafe, KeySet, Key
    <3> QED
      BY <1>1, <3>1 DEF SubmitTask
  <2>3. CASE activeKeys' = activeKeys \union KeySet(n) /\ queue' = [queue EXCEPT ![n] = @ + 1]
    <3>1. queue'[n] > 0
      BY <2>3 DEF TypeOK
    <3> QED
      BY <2>3, <3>1 DEF KeySet, Ready
  <2> QED
    BY <1>1, <2>1, <2>2, <2>3 DEF SubmitTask
<1>2. ASSUME NEW i \in Ids, Submit(i) PROVE \E n \in Objs : SubmitTask(n)
  BY <1>2, ObjsFacts DEF Submit
<1>3. ASSUME NEW o \in Objs, WheelCallback(o) PROVE \E n \in Objs : SubmitTask(n)
  BY <1>3 DEF WheelCallback
<1>4. ASSUME NEW i \in Ids, Resubmit(i) PROVE FALSE
  BY <1>4 DEF Resubmit, TypeOK
<1>5. ASSUME NEW i \in Ids, ScheduleOnceTask(i) \/ CancelBegin(i) \/ CancelStep(i)
      PROVE  k \in activeKeys
  BY <1>5 DEF ScheduleOnceTask, CancelBegin, CancelStep, CancelUnlink, CancelFinalize,
     ReleaseKey, table
<1>6. ASSUME NEW o \in Objs, ArmOnce(o) \/ WheelFire(o) \/ Pop(o) PROVE k \in activeKeys
  BY <1>6 DEF ArmOnce, WheelFire, Pop, table
<1>7. ASSUME NEW w \in Workers, Dispatch(w) \/ JobStep(w) \/ Deadline(w) PROVE k \in activeKeys
  BY <1>7 DEF Dispatch, JobStep, JobReturns, Deadline, table
<1>8. ASSUME NEW w \in Workers, WorkerStep(w) PROVE k \in activeKeys
  BY <1>8, JobForward
<1>9. ASSUME UNCHANGED vars PROVE k \in activeKeys
  BY <1>9 DEF vars, table
<1> QED
  BY <1>1, <1>2, <1>3, <1>4, <1>5, <1>6, <1>7, <1>8, <1>9
  DEF Next, ClientStep, WheelStep

\* A key that is taken belongs to a task that is queued or running, for any
\* number of tasks, keys and workers, with retries and timeouts, provided the
\* keyed tasks are registered and nobody cancels or resubmits them: no path
\* through runTask then forgets to give the key back.
THEOREM KeysComeBack ==
    ASSUME KeysAreSafe, MaxResubmits = 0
    PROVE  Spec => []NoKeyLeak
<1> DEFINE Inv == TrackInv /\ NoKeyLeak
<1>1. Init => Inv
  BY TrackInit DEF Init, NoKeyLeak
<1>2. Inv /\ [Next]_vars => Inv'
  <2> SUFFICES ASSUME Inv, [Next]_vars PROVE Inv'
    OBVIOUS
  <2>1. TrackInv' /\ TypeOK /\ TypeOK'
    BY TrackStep DEF TrackInv, CarrierInv
  <2>2. ASSUME NEW k \in activeKeys' PROVE \E o \in Objs : Key(o) = k /\ Ready(o)'
    <3>1. CASE k \in activeKeys
      <4>1. PICK o \in Objs : Key(o) = k /\ Ready(o)
        BY <3>1 DEF NoKeyLeak, Ready, WithKey
      <4>2. k # Nil
        BY <2>1, <3>1, NilAssumption DEF TypeOK
      <4>3. Id(o) \notin Cancellable /\ k \in KeySet(o)
        BY <4>1, <4>2, ObjsFacts DEF KeysAreSafe, KeySet, Key
      <4>4. Ready(o)' \/ activeKeys' = activeKeys \ KeySet(o)
        BY <4>1, <4>3, KeyIsHeld
      <4> QED
        BY <2>2, <4>1, <4>3, <4>4
    <3>2. CASE k \notin activeKeys
      BY <2>1, <3>2, KeyIsTaken
    <3> QED
      BY <3>1, <3>2
  <2>3. NoKeyLeak'
    BY <2>2 DEF NoKeyLeak, Ready, WithKey
  <2> QED
    BY <2>1, <2>3
<1>3. Inv => NoKeyLeak
  OBVIOUS
<1> QED
  BY <1>1, <1>2, <1>3, PTL DEF Spec

=============================================================================
