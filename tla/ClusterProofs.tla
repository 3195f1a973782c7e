---------------------------- MODULE ClusterProofs ----------------------------
(***************************************************************************)
(* Instances that share one Redis, for every number of instances, tasks,   *)
(* retries and faults: type correctness, no accepted task is lost, and     *)
(* nobody takes over a task whose holder renews the lease.                 *)
(***************************************************************************)
EXTENDS Cluster, TLAPS

-----------------------------------------------------------------------------
(* Type correctness *)

Phases == {"down", "loading", "up", "stopping"}
Copy == Copies \union {Nil}

\* Heaps: functions from copies to their multiplicity.
Heaps == UNION {[S -> Int] : S \in SUBSET Copies}

\* What the memory of an instance may hold.
Memory ==
    [phase : Phases, jobs : BOOLEAN, snap : SUBSET Tasks, heap : Heaps,
     hand : Copy, run : Copy, dead : BOOLEAN, hb : BOOLEAN,
     tasks : [Tasks -> Status], wheel : [Tasks -> Attempts \union {Nil}],
     call : Copy, cancel : (Tasks \X BOOLEAN) \union {Nil}, inbox : SUBSET Tasks]

\* What Redis and the clients' bookkeeping may hold.
RedisTyped ==
    /\ body \in [Tasks -> Attempts \union {Nil}]
    /\ queue \subseteq Tasks \X Attempts
    /\ lease \in [Tasks -> Instances \union {Nil}]
    /\ processing \subseteq Tasks /\ marks \subseteq Tasks
    /\ submitted \subseteq Tasks /\ settled \subseteq Tasks

Typed == RedisTyped /\ inst \in [Instances -> Memory]

\* A bag of copies stays one.
LEMMA HeapTyped ==
    ASSUME NEW h \in Heaps, NEW c \in Copies
    PROVE  BagAdd(h, c) \in Heaps /\ BagRemove(h, c) \in Heaps
<1>1. PICK S \in SUBSET Copies : h \in [S -> Int]
    BY DEF Heaps
<1>2. BagAdd(h, c) \in [S -> Int] \/ BagAdd(h, c) \in [S \union {c} -> Int]
    BY <1>1 DEF BagAdd
<1>3. BagRemove(h, c) \in [S -> Int] \/ BagRemove(h, c) \in [S \ {c} -> Int]
    BY <1>1 DEF BagRemove
<1>4. S \union {c} \in SUBSET Copies /\ S \ {c} \in SUBSET Copies
    OBVIOUS
<1>5. QED
    BY <1>1, <1>2, <1>3, <1>4 DEF Heaps

\* A process that is not running has an empty memory.
LEMMA OffTyped ==
    ASSUME NEW i
    PROVE  Off(i) \in Memory
<1>1. EmptyBag \in Heaps
  <2>1. EmptyBag \in [{} -> Int]
      BY DEF EmptyBag, SetToBag
  <2>2. QED
      BY <2>1 DEF Heaps
<1>2. QED
    BY <1>1 DEF Off, Memory, Phases, Copy, Status

\* The copies in the heap, and what the fields of a memory hold.
LEMMA MemoryFields ==
    ASSUME NEW m \in Memory
    PROVE  /\ m.snap \subseteq Tasks /\ m.heap \in Heaps /\ m.hand \in Copy
           /\ m.run \in Copy /\ m.call \in Copy /\ m.inbox \subseteq Tasks
           /\ m.tasks \in [Tasks -> Status]
           /\ m.wheel \in [Tasks -> Attempts \union {Nil}]
           /\ m.cancel \in (Tasks \X BOOLEAN) \union {Nil}
           /\ BagToSet(m.heap) \subseteq Copies
<1>1. m.heap \in Heaps
    BY DEF Memory
<1>2. BagToSet(m.heap) \subseteq Copies
    BY <1>1 DEF Heaps, BagToSet
<1>3. QED
    BY <1>2 DEF Memory

\* runTask returns with a status: the memory it leaves behind.
Left(i, s) ==
    [inst[i] EXCEPT !.run = Nil, !.dead = FALSE, !.hb = FALSE,
                    !.tasks = [@ EXCEPT ![inst[i].run.task] = s]]

\* Leave replaces the memory of one instance by Left.
LEMMA LeaveIs ==
    ASSUME inst \in [Instances -> Memory], NEW i \in Instances, NEW s
    PROVE  Leave(i, s) = [inst EXCEPT ![i] = Left(i, s)]
<1>1. inst[i] \in Memory
    OBVIOUS
<1>2. QED
    BY <1>1 DEF Left, Leave, Memory

\* ... which is a typed memory.
LEMMA LeaveTyped ==
    ASSUME inst \in [Instances -> Memory], NEW i \in Instances, NEW s \in Status
    PROVE  Left(i, s) \in Memory /\ Leave(i, s) = [inst EXCEPT ![i] = Left(i, s)]
<1>1. inst[i] \in Memory
    OBVIOUS
<1>2. [inst[i].tasks EXCEPT ![inst[i].run.task] = s] \in [Tasks -> Status]
    BY <1>1, MemoryFields
<1>3. Left(i, s) \in Memory
    BY <1>1, <1>2 DEF Left, Memory, Copy
<1>4. Leave(i, s) = [inst EXCEPT ![i] = Left(i, s)]
    BY LeaveIs
<1>5. QED
    BY <1>3, <1>4

\* What Status shows is a status, or nothing.
LEMMA ShowTyped ==
    ASSUME NEW i, NEW t, NEW s \in Status
    PROVE  Show(i, t, s) \in Status
BY DEF Show, Status

\* Every action leaves typed memories behind.
LEMMA MemoryStep ==
    ASSUME Typed, Next
    PROVE  inst' \in [Instances -> Memory]
<1> DEFINE Goal == inst' \in [Instances -> Memory]
<1>0. inst \in [Instances -> Memory] /\ RedisTyped
    BY DEF Typed
<1>a. ASSUME NEW i \in Instances
      PROVE  inst[i] \in Memory
    BY <1>0
<1>b. ASSUME NEW i \in Instances, NEW r \in Memory, inst' = [inst EXCEPT ![i] = r]
      PROVE  Goal
    BY <1>0, <1>b
<1>1. ASSUME UNCHANGED inst PROVE Goal
    BY <1>0, <1>1
<1>2. ASSUME NEW i \in Instances, Pop(i) PROVE Goal
  <2>1. PICK c \in BagToSet(inst[i].heap) :
            inst' = [inst EXCEPT ![i].heap = BagRemove(@, c), ![i].hand = c]
      BY <1>2 DEF Pop
  <2> DEFINE h == BagRemove(inst[i].heap, c)
  <2>2. c \in Copies /\ h \in Heaps
      BY <1>a, HeapTyped, MemoryFields
  <2>3. inst' = [inst EXCEPT ![i] = [inst[i] EXCEPT !.heap = h, !.hand = c]]
      BY <2>1
  <2> HIDE DEF h
  <2>4. [inst[i] EXCEPT !.heap = h, !.hand = c] \in Memory
      BY <1>a, <2>2 DEF Memory, Copy
  <2>5. QED
      BY <1>b, <1>0, <2>3, <2>4
<1>3. ASSUME NEW i \in Instances, Dequeue(i) PROVE Goal
  <2>1. PICK e \in queue : UNCHANGED inst \/
            inst' = [inst EXCEPT ![i].hand = Stored(e[1]), ![i].tasks[e[1]] = "Queued"]
      BY <1>3 DEF Dequeue
  <2> DEFINE r == [inst[i] EXCEPT !.hand = Stored(e[1]),
                                  !.tasks = [@ EXCEPT ![e[1]] = "Queued"]]
  <2>2. e[1] \in Tasks
      BY <1>0 DEF RedisTyped
  <2>3. Stored(e[1]) \in Copies
      BY <2>2, ConstantsAssumption DEF Stored, Copies, Attempts
  <2>4. [inst[i].tasks EXCEPT ![e[1]] = "Queued"] \in [Tasks -> Status]
      BY <1>a, MemoryFields DEF Status
  <2>5. r \in Memory
      BY <1>a, <2>3, <2>4 DEF Memory, Copy
  <2>6. UNCHANGED inst \/ inst' = [inst EXCEPT ![i] = r]
    <3>1. PICK t, c : t = e[1] /\ c = Stored(e[1])
        OBVIOUS
    <3>2. \/ UNCHANGED inst
          \/ inst' = [inst EXCEPT ![i].hand = c, ![i].tasks[t] = "Queued"]
        BY <2>1, <3>1
    <3>3. [inst EXCEPT ![i].hand = c, ![i].tasks[t] = "Queued"]
            = [inst EXCEPT ![i] = [inst[i] EXCEPT !.hand = c,
                                                  !.tasks = [@ EXCEPT ![t] = "Queued"]]]
        BY <1>0, <1>a DEF Memory
    <3>4. QED
        BY <3>1, <3>2, <3>3
  <2> HIDE DEF r
  <2>7. QED
      BY <1>b, <1>0, <1>1, <2>5, <2>6
<1>4. ASSUME NEW i \in Instances, Start(i) PROVE Goal
  <2> DEFINE c == inst[i].hand
             down == [inst[i] EXCEPT !.hand = Nil]
             r == [inst[i] EXCEPT !.hand = Nil, !.run = c, !.hb = TRUE,
                                  !.tasks = [@ EXCEPT ![c.task] = "Running"]]
  <2>1. down \in Memory
      BY <1>a DEF Memory, Copy
  <2>2. [inst[i].tasks EXCEPT ![c.task] = "Running"] \in [Tasks -> Status]
      BY <1>a, MemoryFields DEF Status
  <2>3. r \in Memory
      BY <1>a, <2>2 DEF Memory, Copy
  <2>4. inst' = [inst EXCEPT ![i] = down] \/ inst' = [inst EXCEPT ![i] = r]
      BY <1>4, <1>0 DEF Start, PutDown, Memory
  <2> HIDE DEF down, r
  <2>5. QED
      BY <1>b, <1>0, <2>1, <2>3, <2>4
<1>5. ASSUME NEW i \in Instances, Finish(i) PROVE Goal
    BY <1>b, <1>0, <1>5, LeaveTyped DEF Finish, Status
<1>6. ASSUME NEW i \in Instances, Retry(i) PROVE Goal
  <2> DEFINE c == inst[i].run
             s == Show(i, c.task, "Retrying")
             r == [Left(i, s) EXCEPT !.wheel = [@ EXCEPT ![c.task] = c.att + 1]]
  <2>1. c \in Copies /\ c.att + 1 \in Attempts
      BY <1>a, <1>6, MemoryFields, ConstantsAssumption DEF Retry, JobFails, Busy, Copy, Copies, Attempts
  <2>2. s \in Status
      BY ShowTyped DEF Status
  <2>3. Left(i, s) \in Memory /\ Leave(i, s) = [inst EXCEPT ![i] = Left(i, s)]
      BY <1>0, <2>2, LeaveTyped
  <2>4. inst' = [Leave(i, s) EXCEPT ![i].wheel[c.task] = c.att + 1]
      BY <1>6 DEF Retry
  <2> HIDE DEF s
  <2>5. [Left(i, s).wheel EXCEPT ![c.task] = c.att + 1] \in [Tasks -> Attempts \union {Nil}]
      BY <2>1, <2>3, MemoryFields
  <2> HIDE DEF c
  <2>6. r \in Memory
      BY <2>3, <2>5 DEF Memory
  <2>7. inst' = [inst EXCEPT ![i] = r]
      BY <2>3, <2>4
  <2> HIDE DEF r
  <2>8. QED
      BY <1>b, <1>0, <2>6, <2>7
<1>7. ASSUME NEW i \in Instances, DeadSave(i) PROVE Goal
  <2> DEFINE s == Show(i, inst[i].run.task, "Dead")
             r == [inst[i] EXCEPT !.dead = TRUE, !.tasks = [@ EXCEPT ![inst[i].run.task] = s]]
  <2>1. s \in Status
      BY ShowTyped DEF Status
  <2>2. inst' = [inst EXCEPT ![i].dead = TRUE, ![i].tasks[inst[i].run.task] = s]
      BY <1>7 DEF DeadSave
  <2> HIDE DEF s
  <2>3. [inst[i].tasks EXCEPT ![inst[i].run.task] = s] \in [Tasks -> Status]
      BY <1>a, <2>1, MemoryFields
  <2>4. r \in Memory
      BY <1>a, <2>3 DEF Memory
  <2>5. inst' = [inst EXCEPT ![i] = r]
      BY <2>2
  <2> HIDE DEF r
  <2>6. QED
      BY <1>b, <1>0, <2>4, <2>5
<1>8. ASSUME NEW i \in Instances, DeadComplete(i) PROVE Goal
  <2>1. inst[i].tasks[inst[i].run.task] \in Status
      BY <1>a, <1>8, MemoryFields DEF DeadComplete, Busy, Copy, Copies
  <2>2. QED
      BY <1>b, <1>0, <1>8, <2>1, LeaveTyped DEF DeadComplete
<1>9. ASSUME NEW i \in Instances, FailFinal(i) PROVE Goal
  <2>1. Show(i, inst[i].run.task, "Failed") \in Status
      BY ShowTyped DEF Status
  <2>2. QED
      BY <1>b, <1>0, <1>9, <2>1, LeaveTyped DEF FailFinal
<1>10. ASSUME NEW i \in Instances, Drain(i) PROVE Goal
    BY <1>1, <1>10 DEF Drain
<1>11. ASSUME NEW i \in Instances, Load(i) PROVE Goal
  <2>1. inst' = [inst EXCEPT ![i] = [inst[i] EXCEPT !.snap = LoadAll]]
      BY <1>11 DEF Load
  <2>2. [inst[i] EXCEPT !.snap = LoadAll] \in Memory
      BY <1>a DEF Memory, LoadAll
  <2>3. QED
      BY <1>b, <1>0, <2>1, <2>2
<1>12. ASSUME NEW i \in Instances, ClaimNext(i) PROVE Goal
  <2>1. PICK t \in inst[i].snap :
          \/ inst' = [inst EXCEPT ![i].snap = @ \ {t}, ![i].tasks[t] = "Queued",
                                  ![i].heap = BagAdd(@, Stored(t))]
          \/ inst' = [inst EXCEPT ![i].snap = @ \ {t}]
      BY <1>12 DEF ClaimNext
  <2> DEFINE h == BagAdd(inst[i].heap, Stored(t))
             skip == [inst[i] EXCEPT !.snap = @ \ {t}]
             r == [inst[i] EXCEPT !.snap = @ \ {t}, !.tasks = [@ EXCEPT ![t] = "Queued"],
                                  !.heap = h]
  <2>2. t \in Tasks
      BY <1>a, MemoryFields
  <2>3. Stored(t) \in Copies
      BY <2>2, ConstantsAssumption DEF Stored, Copies, Attempts
  <2>4. h \in Heaps
      BY <1>a, <2>3, HeapTyped, MemoryFields
  <2>5. [inst[i].tasks EXCEPT ![t] = "Queued"] \in [Tasks -> Status]
      BY <1>a, MemoryFields DEF Status
  <2>6. inst' = [inst EXCEPT ![i] = skip] \/ inst' = [inst EXCEPT ![i] = r]
      BY <2>1
  <2> HIDE DEF h
  <2>7. skip \in Memory
      BY <1>a DEF Memory
  <2>8. r \in Memory
      BY <1>a, <2>4, <2>5 DEF Memory
  <2> HIDE DEF skip, r
  <2>9. QED
      BY <1>b, <1>0, <2>6, <2>7, <2>8
<1>13. ASSUME NEW i \in Instances, Boot(i) PROVE Goal
  <2>1. inst' = [inst EXCEPT ![i] = [inst[i] EXCEPT !.phase = "loading", !.snap = LoadAll]]
      BY <1>13 DEF Boot
  <2>2. [inst[i] EXCEPT !.phase = "loading", !.snap = LoadAll] \in Memory
      BY <1>a DEF Memory, Phases, LoadAll
  <2>3. QED
      BY <1>b, <1>0, <2>1, <2>2
<1>14. ASSUME NEW i \in Instances, NewReturns(i) PROVE Goal
  <2>1. [inst[i] EXCEPT !.phase = "up"] \in Memory
      BY <1>a DEF Memory, Phases
  <2>2. QED
      BY <1>b, <1>0, <1>14, <2>1 DEF NewReturns
<1>15. ASSUME NEW i \in Instances, RegisterJob(i) PROVE Goal
  <2>1. [inst[i] EXCEPT !.jobs = TRUE] \in Memory
      BY <1>a DEF Memory
  <2>2. QED
      BY <1>b, <1>0, <1>15, <2>1 DEF RegisterJob
<1>16. ASSUME NEW i \in Instances, SubmitEnqueue(i) PROVE Goal
  <2> DEFINE c == inst[i].call
             h == BagAdd(inst[i].heap, c)
             gone == [inst[i] EXCEPT !.call = Nil]
             r == [inst[i] EXCEPT !.call = Nil, !.tasks = [@ EXCEPT ![c.task] = "Queued"],
                                  !.heap = h]
  <2>1. c \in Copies
      BY <1>a, <1>16, MemoryFields DEF SubmitEnqueue, Copy
  <2>2. h \in Heaps
      BY <1>a, <2>1, HeapTyped, MemoryFields
  <2>3. [inst[i].tasks EXCEPT ![c.task] = "Queued"] \in [Tasks -> Status]
      BY <1>a, MemoryFields DEF Status
  <2>4. inst' = [inst EXCEPT ![i] = gone] \/ inst' = [inst EXCEPT ![i] = r]
      BY <1>16 DEF SubmitEnqueue
  <2>5. gone \in Memory
      BY <1>a DEF Memory, Copy
  <2> HIDE DEF h
  <2>6. r \in Memory
      BY <1>a, <2>2, <2>3 DEF Memory, Copy
  <2> HIDE DEF gone, r
  <2>7. QED
      BY <1>b, <1>0, <2>4, <2>5, <2>6
<1>17. ASSUME NEW i \in Instances, CancelFinish(i) PROVE Goal
  <2> DEFINE t == inst[i].cancel[1]
             done == [inst[i] EXCEPT !.tasks = [@ EXCEPT ![t] = Nil], !.cancel = Nil]
             left == [inst[i] EXCEPT !.cancel = Nil]
             sent(here) == [j \in Instances |->
                IF Up(j) THEN [here[j] EXCEPT !.inbox = @ \union {t}] ELSE here[j]]
  <2>1. t \in Tasks
      BY <1>a, <1>17, MemoryFields DEF CancelFinish
  <2>2. [inst[i].tasks EXCEPT ![t] = Nil] \in [Tasks -> Status]
      BY <1>a, MemoryFields DEF Status
  <2>3. done \in Memory /\ left \in Memory
      BY <1>a, <2>2 DEF Memory
  <2>4. PICK m : m = IF inst[i].cancel[2] THEN done ELSE left
      OBVIOUS
  <2> DEFINE here == [inst EXCEPT ![i] = m]
  <2>5. here \in [Instances -> Memory]
      BY <1>0, <2>3, <2>4
  <2>h. here = IF inst[i].cancel[2]
                 THEN [inst EXCEPT ![i].tasks[t] = Nil, ![i].cancel = Nil]
                 ELSE [inst EXCEPT ![i].cancel = Nil]
      BY <2>4
  <2> HIDE DEF here
  <2>6. inst' = sent(here) \/ inst' = here
      BY <1>17, <2>h, Zenon DEF CancelFinish
  <2>7. ASSUME NEW j \in Instances PROVE [here[j] EXCEPT !.inbox = @ \union {t}] \in Memory
    <3>1. here[j] \in Memory
        BY <2>5
    <3>2. here[j].inbox \union {t} \in SUBSET Tasks
        BY <2>1, <3>1, MemoryFields
    <3>3. QED
        BY <3>1, <3>2 DEF Memory
  <2>8. QED
      BY <2>5, <2>6, <2>7
<1>18. ASSUME NEW i \in Instances, NEW t \in Tasks, RetryFires(i, t) PROVE Goal
  <2> DEFINE c == [task |-> t, att |-> inst[i].wheel[t], own |-> TRUE]
             fired == [inst[i] EXCEPT !.wheel = [@ EXCEPT ![t] = Nil], !.call = c]
             lost == [inst[i] EXCEPT !.wheel = [@ EXCEPT ![t] = Nil]]
  <2>1. c \in Copies
      BY <1>a, <1>18, MemoryFields DEF RetryFires, Copies
  <2>2. [inst[i].wheel EXCEPT ![t] = Nil] \in [Tasks -> Attempts \union {Nil}]
      BY <1>a, MemoryFields
  <2>3. inst' = [inst EXCEPT ![i] = fired] \/ inst' = [inst EXCEPT ![i] = lost]
      BY <1>18 DEF RetryFires
  <2> HIDE DEF c
  <2>4. fired \in Memory /\ lost \in Memory
      BY <1>a, <2>1, <2>2 DEF Memory, Copy
  <2> HIDE DEF fired, lost
  <2>5. QED
      BY <1>b, <1>0, <2>3, <2>4
<1>19. ASSUME NEW i \in Instances, NEW t \in Tasks, OnCancel(i, t) PROVE Goal
  <2> DEFINE s == Show(i, t, "Cancelled")
             r == [inst[i] EXCEPT !.inbox = @ \ {t}, !.tasks = [@ EXCEPT ![t] = s]]
  <2>1. s \in Status
      BY ShowTyped DEF Status
  <2>2. inst' = [inst EXCEPT ![i] = r]
      BY <1>19 DEF OnCancel
  <2> HIDE DEF s
  <2>3. [inst[i].tasks EXCEPT ![t] = s] \in [Tasks -> Status]
      BY <1>a, <2>1, MemoryFields
  <2>4. r \in Memory
      BY <1>a, <2>3 DEF Memory
  <2> HIDE DEF r
  <2>5. QED
      BY <1>b, <1>0, <2>2, <2>4
<1>20. ASSUME NEW i \in Instances, HeartbeatStops(i) PROVE Goal
  <2>1. [inst[i] EXCEPT !.hb = FALSE] \in Memory
      BY <1>a DEF Memory
  <2>2. QED
      BY <1>b, <1>0, <1>20, <2>1 DEF HeartbeatStops
<1>21. ASSUME NEW i \in Instances, RecoverOrphaned(i) PROVE Goal
    BY <1>1, <1>21 DEF RecoverOrphaned
<1>22. ASSUME NEW i \in Instances, Crash(i) \/ Exit(i) PROVE Goal
    BY <1>b, <1>0, <1>22, OffTyped DEF Crash, Exit
<1>23. ASSUME NEW i \in Instances, ShutDown(i) PROVE Goal
  <2> DEFINE r == [Off(i) EXCEPT !.phase = "stopping", !.run = inst[i].run,
                                 !.dead = inst[i].dead, !.tasks = inst[i].tasks]
  <2>1. r \in Memory
      BY <1>a, OffTyped DEF Memory, Phases
  <2>2. inst' = [inst EXCEPT ![i] = r]
      BY <1>23 DEF ShutDown
  <2> HIDE DEF r
  <2>3. QED
      BY <1>b, <1>0, <2>1, <2>2
<1>24. ASSUME NEW i \in Instances, NEW t \in Tasks, Submit(i, t) PROVE Goal
  <2> DEFINE c == [task |-> t, att |-> 0, own |-> TRUE]
  <2>1. c \in Copies
      BY ConstantsAssumption DEF Copies, Attempts
  <2>2. UNCHANGED inst \/ inst' = [inst EXCEPT ![i] = [inst[i] EXCEPT !.call = c]]
      BY <1>24 DEF Submit, SubmitSave
  <2> HIDE DEF c
  <2>3. [inst[i] EXCEPT !.call = c] \in Memory
      BY <1>a, <2>1 DEF Memory, Copy
  <2>4. QED
      BY <1>b, <1>0, <1>1, <2>2, <2>3
<1>25. ASSUME NEW i \in Instances, NEW t \in Tasks, Cancel(i, t) PROVE Goal
  <2> DEFINE s == Show(i, t, "Cancelled")
             w == inst[i].tasks[t] \in {"Queued", "Retrying"}
             p == <<t, w>>
             left == [inst[i] EXCEPT !.wheel = [@ EXCEPT ![t] = Nil]]
             gone == [inst[i] EXCEPT !.wheel = [@ EXCEPT ![t] = Nil],
                                     !.tasks = [@ EXCEPT ![t] = s], !.cancel = p]
             wh == [inst[i].wheel EXCEPT ![t] = Nil]
             ta == [inst[i].tasks EXCEPT ![t] = s]
  <2>1. s \in Status
      BY ShowTyped DEF Status
  <2>w. w \in BOOLEAN
      OBVIOUS
  <2>2. inst' = [inst EXCEPT ![i] = left] \/ inst' = [inst EXCEPT ![i] = gone]
      BY <1>25 DEF Cancel
  <2> HIDE DEF s, w
  <2>p. p \in (Tasks \X BOOLEAN) \union {Nil}
      BY <2>w
  <2> HIDE DEF p
  <2>3. [inst[i].wheel EXCEPT ![t] = Nil] \in [Tasks -> Attempts \union {Nil}]
      BY <1>a, MemoryFields
  <2>4. [inst[i].tasks EXCEPT ![t] = s] \in [Tasks -> Status]
      BY <1>a, <2>1, MemoryFields
  <2>5. left \in Memory
      BY <1>a, <2>3 DEF Memory
  <2>6. gone \in Memory
    <3>1. wh \in [Tasks -> Attempts \union {Nil}] /\ ta \in [Tasks -> Status]
        BY <2>3, <2>4
    <3> HIDE DEF wh, ta
    <3>2. [inst[i] EXCEPT !.wheel = wh, !.tasks = ta, !.cancel = p] \in Memory
        BY <1>a, <2>p, <3>1 DEF Memory
    <3>3. QED
        BY <3>2 DEF wh, ta
  <2> HIDE DEF left, gone
  <2>7. QED
      BY <1>b, <1>0, <2>2, <2>5, <2>6
<1>26. ASSUME NEW t \in Tasks, LeaseExpires(t) PROVE Goal
    BY <1>1, <1>26 DEF LeaseExpires
<1> HIDE DEF Goal
<1>27. QED
    BY <1>2, <1>3, <1>4, <1>5, <1>6, <1>7, <1>8, <1>9, <1>10, <1>11, <1>12, <1>13,
       <1>14, <1>15, <1>16, <1>17, <1>18, <1>19, <1>20, <1>21, <1>22, <1>23, <1>24,
       <1>25, <1>26
       DEF Next, dequeueLoop, worker, cleanupLoop, main, calls, Goal

\* Every action leaves a typed Redis behind.
LEMMA RedisStep ==
    ASSUME Typed, Next
    PROVE  RedisTyped'
<1> DEFINE Goal == RedisTyped'
<1>0. RedisTyped
    BY DEF Typed
<1>a. ASSUME NEW i \in Instances
      PROVE  inst[i] \in Memory
    BY DEF Typed
<1>r. ASSUME NEW i \in Instances, inst[i].run # Nil
      PROVE  inst[i].run \in Copies /\ inst[i].run.task \in Tasks /\ inst[i].run.att \in Attempts
    BY <1>a, <1>r, MemoryFields DEF Copy, Copies
<1>c. ASSUME NEW t \in Tasks, CompleteTask(t), settled' \subseteq Tasks, UNCHANGED submitted
      PROVE  Goal
    BY <1>0, <1>c DEF CompleteTask, Delete, RedisTyped
<1>1. ASSUME UNCHANGED redis, settled' \subseteq Tasks, UNCHANGED submitted PROVE Goal
    BY <1>0, <1>1 DEF redis, RedisTyped
<1>2. ASSUME NEW i \in Instances,
             Pop(i) \/ Start(i) \/ Load(i) \/ Boot(i) \/ NewReturns(i) \/ RegisterJob(i)
             \/ HeartbeatStops(i) \/ Crash(i) \/ ShutDown(i) \/ Exit(i) \/ Retry(i)
      PROVE Goal
  <2>1. UNCHANGED <<redis, clients>>
      BY <1>2 DEF Pop, Start, Load, Boot, NewReturns, RegisterJob, HeartbeatStops, Crash,
                  ShutDown, Exit, Retry
  <2>2. QED
      BY <1>0, <1>1, <2>1 DEF clients, RedisTyped
<1>3. ASSUME NEW i \in Instances, Dequeue(i) \/ Drain(i) PROVE Goal
  <2>1. CASE Dequeue(i)
    <3>1. PICK e \in queue :
            /\ queue' = queue \ {e}
            /\ \/ Delete(e[1])
               \/ /\ lease' = [lease EXCEPT ![e[1]] = i]
                  /\ processing' = processing \union {e[1]}
                  /\ UNCHANGED body
            /\ UNCHANGED <<marks, clients>>
        BY <2>1 DEF Dequeue
    <3>2. e[1] \in Tasks
        BY <1>0 DEF RedisTyped
    <3>3. QED
        BY <1>0, <3>1, <3>2 DEF Delete, RedisTyped, clients
  <2>2. CASE Drain(i)
      BY <1>0, <2>2 DEF Drain, RedisTyped, clients
  <2>3. QED
      BY <1>3, <2>1, <2>2
<1>4. ASSUME NEW i \in Instances, Finish(i) \/ DeadComplete(i) PROVE Goal
    BY <1>0, <1>4, <1>c, <1>r DEF Finish, DeadComplete, Busy, RedisTyped
<1>5. ASSUME NEW i \in Instances, DeadSave(i) PROVE Goal
    BY <1>0, <1>5, <1>r DEF DeadSave, JobFails, Busy, Save, RedisTyped, clients
<1>6. ASSUME NEW i \in Instances, FailFinal(i) PROVE Goal
    BY <1>0, <1>1, <1>6, <1>r DEF FailFinal, JobFails, Busy, RedisTyped
<1>7. ASSUME NEW i \in Instances, ClaimNext(i) PROVE Goal
  <2>1. PICK t \in inst[i].snap : UNCHANGED lease \/ lease' = [lease EXCEPT ![t] = i]
      BY <1>7 DEF ClaimNext
  <2>2. QED
      BY <1>0, <1>7, <2>1 DEF ClaimNext, RedisTyped, clients
<1>8. ASSUME NEW i \in Instances, SubmitEnqueue(i) PROVE Goal
  <2>1. inst[i].call \in Copies
      BY <1>a, <1>8, MemoryFields DEF SubmitEnqueue, Copy
  <2>2. queue' \subseteq queue \union {<<inst[i].call.task, inst[i].call.att>>}
      BY <1>8 DEF SubmitEnqueue
  <2>3. queue' \subseteq Tasks \X Attempts
      BY <1>0, <2>1, <2>2 DEF Copies, RedisTyped
  <2>4. QED
      BY <1>0, <1>8, <2>3 DEF SubmitEnqueue, RedisTyped
<1>9. ASSUME NEW i \in Instances, CancelFinish(i) PROVE Goal
  <2>1. inst[i].cancel[1] \in Tasks
      BY <1>a, <1>9, MemoryFields DEF CancelFinish
  <2>2. CompleteTask(inst[i].cancel[1]) \/ UNCHANGED redis
      BY <1>9, Zenon DEF CancelFinish
  <2>3. UNCHANGED clients
      BY <1>9, Zenon DEF CancelFinish
  <2>4. QED
      BY <1>0, <1>c, <1>1, <2>1, <2>2, <2>3 DEF clients, RedisTyped
<1>10. ASSUME NEW i \in Instances, NEW t \in Tasks, RetryFires(i, t) PROVE Goal
  <2>1. inst[i].wheel[t] \in Attempts
      BY <1>a, <1>10, MemoryFields DEF RetryFires
  <2>2. UNCHANGED body \/ body' = [body EXCEPT ![t] = inst[i].wheel[t]]
      BY <1>10 DEF RetryFires, Save
  <2>3. QED
      BY <1>0, <1>10, <2>1, <2>2 DEF RetryFires, RedisTyped, clients
<1>11. ASSUME NEW i \in Instances, NEW t \in Tasks, OnCancel(i, t) PROVE Goal
    BY <1>0, <1>11 DEF OnCancel, redis, clients, RedisTyped
<1>12. ASSUME NEW i \in Instances, RecoverOrphaned(i) PROVE Goal
    BY <1>0, <1>12 DEF RecoverOrphaned, Orphans, Dropped, clients, RedisTyped
<1>13. ASSUME NEW i \in Instances, NEW t \in Tasks, Submit(i, t) PROVE Goal
  <2>1. UNCHANGED body \/ body' = [body EXCEPT ![t] = 0]
      BY <1>13 DEF Submit, SubmitSave, Save
  <2>2. 0 \in Attempts
      BY ConstantsAssumption DEF Attempts
  <2>3. QED
      BY <1>0, <1>13, <2>1, <2>2 DEF Submit, RedisTyped
<1>14. ASSUME NEW i \in Instances, NEW t \in Tasks, Cancel(i, t) PROVE Goal
    BY <1>0, <1>14 DEF Cancel, RedisTyped
<1>15. ASSUME NEW t \in Tasks, LeaseExpires(t) PROVE Goal
    BY <1>0, <1>15 DEF LeaseExpires, clients, RedisTyped
<1> HIDE DEF Goal
<1>16. QED
    BY <1>2, <1>3, <1>4, <1>5, <1>6, <1>7, <1>8, <1>9, <1>10, <1>11, <1>12, <1>13,
       <1>14, <1>15
       DEF Next, dequeueLoop, worker, cleanupLoop, main, calls, Goal

\* The instances come up with empty memories over an empty Redis.
LEMMA InitTyped == Init => Typed
<1> SUFFICES ASSUME Init PROVE Typed
    OBVIOUS
<1>1. ASSUME NEW i \in Instances PROVE [Off(i) EXCEPT !.phase = "up"] \in Memory
  <2>1. Off(i) \in Memory
      BY OffTyped
  <2>2. QED
      BY <2>1 DEF Memory, Phases
<1>2. inst \in [Instances -> Memory]
    BY <1>1 DEF Init
<1>3. RedisTyped
    BY DEF Init, RedisTyped
<1>4. QED
    BY <1>2, <1>3 DEF Typed

\* Redis and the memories are typed in every reachable state.
LEMMA AlwaysTyped == Spec => []Typed
<1>1. Typed /\ [Next]_vars => Typed'
  <2>1. CASE Next
      BY <2>1, MemoryStep, RedisStep DEF Typed
  <2>2. CASE UNCHANGED vars
      BY <2>2 DEF Typed, RedisTyped, vars, redis, clients
  <2>3. QED
      BY <2>1, <2>2
<1>2. QED
    BY <1>1, InitTyped, PTL DEF Spec

-----------------------------------------------------------------------------
(* A task is submitted before any copy of the client's object moves about. *)

\* The client's own copies in a memory are of tasks of S.
OwnOf(m, S) ==
    /\ \A c \in BagToSet(m.heap) : c.own => c.task \in S
    /\ m.hand # Nil => (m.hand.own => m.hand.task \in S)
    /\ m.run # Nil => (m.run.own => m.run.task \in S)
    /\ m.call # Nil => m.call.task \in S
    /\ \A t \in Tasks : m.wheel[t] # Nil => t \in S

SubmittedFirst ==
    /\ accepted \subseteq submitted
    /\ \A i \in Instances : OwnOf(inst[i], submitted)

\* A memory n that has lost some of what m held, and gained no copy.
Fades(n, m) ==
    /\ BagToSet(n.heap) \subseteq BagToSet(m.heap)
    /\ n.hand \in {m.hand, Nil} /\ n.run \in {m.run, Nil} /\ n.call \in {m.call, Nil}
    /\ \A t \in Tasks : n.wheel[t] \in {m.wheel[t], Nil}

\* Heaps gain what is pushed and lose what is popped.
LEMMA HeapMembers ==
    ASSUME NEW h \in Heaps, NEW c \in Copies
    PROVE  /\ BagToSet(BagAdd(h, c)) \subseteq BagToSet(h) \union {c}
           /\ BagToSet(BagRemove(h, c)) \subseteq BagToSet(h)
<1>1. PICK S \in SUBSET Copies : h \in [S -> Int]
    BY DEF Heaps
<1>2. BagToSet(BagAdd(h, c)) \subseteq BagToSet(h) \union {c}
    BY <1>1 DEF BagAdd, BagToSet
<1>3. BagToSet(BagRemove(h, c)) \subseteq BagToSet(h)
    BY <1>1 DEF BagRemove, BagToSet
<1>4. QED
    BY <1>2, <1>3

\* A memory that only lost copies, while more tasks were submitted.
LEMMA FadesOwn ==
    ASSUME NEW n, NEW m, NEW S, NEW T, S \subseteq T, OwnOf(m, S), Fades(n, m)
    PROVE  OwnOf(n, T)
BY DEF OwnOf, Fades

\* A memory that did not change.
LEMMA FadesSelf ==
    ASSUME NEW m
    PROVE  Fades(m, m)
BY DEF Fades

\* The actions that move no copy, and those that drop copies.
LEMMA FadingActions ==
    ASSUME Typed,
           \/ \E i \in Instances :
                \/ Finish(i) \/ DeadSave(i) \/ DeadComplete(i) \/ FailFinal(i) \/ Drain(i)
                \/ Load(i) \/ Boot(i) \/ NewReturns(i) \/ RegisterJob(i)
                \/ CancelFinish(i) \/ HeartbeatStops(i) \/ RecoverOrphaned(i)
                \/ Crash(i) \/ ShutDown(i) \/ Exit(i)
                \/ \E t \in Tasks : OnCancel(i, t) \/ Cancel(i, t)
           \/ \E t \in Tasks : LeaseExpires(t)
    PROVE  \A j \in Instances : Fades(inst'[j], inst[j])
<1> DEFINE Goal == \A j \in Instances : Fades(inst'[j], inst[j])
<1>0. inst \in [Instances -> Memory]
    BY DEF Typed
<1>1. ASSUME NEW i \in Instances, NEW r, Fades(r, inst[i]), inst' = [inst EXCEPT ![i] = r]
      PROVE  Goal
    BY <1>0, <1>1, FadesSelf
<1>2. ASSUME UNCHANGED inst PROVE Goal
    BY <1>2, FadesSelf
<1>3. ASSUME NEW i \in Instances
      PROVE  Fades(Off(i), inst[i])
    BY DEF Off, Fades, EmptyBag, SetToBag, BagToSet
<1>4. ASSUME NEW i \in Instances, NEW s,
             inst' = Leave(i, s)
      PROVE Goal
  <2>1. inst' = [inst EXCEPT ![i] = Left(i, s)]
      BY <1>0, <1>4, LeaveIs
  <2>2. Fades(Left(i, s), inst[i])
      BY <1>0 DEF Left, Fades, Memory
  <2>3. QED
      BY <1>1, <2>1, <2>2
<1>5. ASSUME NEW i \in Instances, Finish(i) \/ DeadComplete(i) \/ FailFinal(i) PROVE Goal
    BY <1>4, <1>5 DEF Finish, DeadComplete, FailFinal
<1>6. ASSUME NEW i \in Instances, DeadSave(i) PROVE Goal
  <2> DEFINE s == Show(i, inst[i].run.task, "Dead")
             r == [inst[i] EXCEPT !.dead = TRUE, !.tasks = [@ EXCEPT ![inst[i].run.task] = s]]
  <2>1. inst' = [inst EXCEPT ![i] = r]
      BY <1>6 DEF DeadSave
  <2>2. Fades(r, inst[i])
      BY <1>0 DEF Fades, Memory
  <2> HIDE DEF r
  <2>3. QED
      BY <1>1, <2>1, <2>2
<1>7. ASSUME NEW i \in Instances, Drain(i) \/ RecoverOrphaned(i) PROVE Goal
    BY <1>2, <1>7 DEF Drain, RecoverOrphaned
<1>8. ASSUME NEW i \in Instances, NEW r,
             \/ r = [inst[i] EXCEPT !.snap = LoadAll]
             \/ r = [inst[i] EXCEPT !.phase = "loading", !.snap = LoadAll]
             \/ r = [inst[i] EXCEPT !.phase = "up"]
             \/ r = [inst[i] EXCEPT !.jobs = TRUE]
             \/ r = [inst[i] EXCEPT !.hb = FALSE]
      PROVE  Fades(r, inst[i])
    BY <1>0, <1>8 DEF Fades, Memory
<1>9. ASSUME NEW i \in Instances,
             Load(i) \/ Boot(i) \/ NewReturns(i) \/ RegisterJob(i) \/ HeartbeatStops(i)
      PROVE Goal
  <2>1. \/ inst' = [inst EXCEPT ![i] = [inst[i] EXCEPT !.snap = LoadAll]]
        \/ inst' = [inst EXCEPT ![i] = [inst[i] EXCEPT !.phase = "loading", !.snap = LoadAll]]
        \/ inst' = [inst EXCEPT ![i] = [inst[i] EXCEPT !.phase = "up"]]
        \/ inst' = [inst EXCEPT ![i] = [inst[i] EXCEPT !.jobs = TRUE]]
        \/ inst' = [inst EXCEPT ![i] = [inst[i] EXCEPT !.hb = FALSE]]
      BY <1>9 DEF Load, Boot, NewReturns, RegisterJob, HeartbeatStops
  <2> HIDE DEF Goal
  <2>2. QED
      BY <1>1, <1>8, <2>1
<1>10. ASSUME NEW i \in Instances, CancelFinish(i) PROVE Goal
  <2> DEFINE t == inst[i].cancel[1]
             sent(here) == [j \in Instances |->
                IF Up(j) THEN [here[j] EXCEPT !.inbox = @ \union {t}] ELSE here[j]]
             here == IF inst[i].cancel[2]
                       THEN [inst EXCEPT ![i].tasks[t] = Nil, ![i].cancel = Nil]
                       ELSE [inst EXCEPT ![i].cancel = Nil]
  <2>1. /\ \/ here = [inst EXCEPT ![i].tasks[t] = Nil, ![i].cancel = Nil]
           \/ here = [inst EXCEPT ![i].cancel = Nil]
        /\ inst' = sent(here) \/ inst' = here
      BY <1>10, Zenon DEF CancelFinish
  <2> HIDE DEF here
  <2>2. ASSUME NEW j \in Instances
        PROVE  /\ here[j].heap = inst[j].heap /\ here[j].hand = inst[j].hand
               /\ here[j].run = inst[j].run /\ here[j].call = inst[j].call
               /\ here[j].wheel = inst[j].wheel
               /\ DOMAIN here[j] = DOMAIN inst[j]
      BY <1>0, <2>1 DEF Memory
  <2>3. ASSUME NEW j \in Instances
        PROVE  /\ inst'[j].heap = inst[j].heap /\ inst'[j].hand = inst[j].hand
               /\ inst'[j].run = inst[j].run /\ inst'[j].call = inst[j].call
               /\ inst'[j].wheel = inst[j].wheel
    <3>1. inst[j] \in Memory
        BY <1>0
    <3>2. \/ inst'[j] = here[j]
          \/ inst'[j] = [here[j] EXCEPT !.inbox = @ \union {t}]
        BY <2>1
    <3>3. QED
        BY <2>2, <3>1, <3>2 DEF Memory
  <2>4. QED
      BY <2>3 DEF Fades
<1>11. ASSUME NEW i \in Instances, Crash(i) \/ Exit(i) PROVE Goal
    BY <1>1, <1>3, <1>11 DEF Crash, Exit
<1>12. ASSUME NEW i \in Instances, ShutDown(i) PROVE Goal
  <2> DEFINE r == [Off(i) EXCEPT !.phase = "stopping", !.run = inst[i].run,
                                 !.dead = inst[i].dead, !.tasks = inst[i].tasks]
  <2>1. Fades(r, inst[i])
      BY DEF Fades, Off, EmptyBag, SetToBag, BagToSet
  <2>2. inst' = [inst EXCEPT ![i] = r]
      BY <1>12 DEF ShutDown
  <2> HIDE DEF r
  <2>3. QED
      BY <1>1, <2>1, <2>2
<1>13. ASSUME NEW i \in Instances, NEW t \in Tasks, OnCancel(i, t) PROVE Goal
  <2> DEFINE r == [inst[i] EXCEPT !.inbox = @ \ {t},
                                  !.tasks = [@ EXCEPT ![t] = Show(i, t, "Cancelled")]]
  <2>1. Fades(r, inst[i])
      BY <1>0 DEF Fades, Memory
  <2>2. inst' = [inst EXCEPT ![i] = r]
      BY <1>13 DEF OnCancel
  <2> HIDE DEF r
  <2>3. QED
      BY <1>1, <2>1, <2>2
<1>14. ASSUME NEW i \in Instances, NEW t \in Tasks, Cancel(i, t) PROVE Goal
  <2> DEFINE s == Show(i, t, "Cancelled")
             w == inst[i].tasks[t] \in {"Queued", "Retrying"}
             p == <<t, w>>
             left == [inst[i] EXCEPT !.wheel = [@ EXCEPT ![t] = Nil]]
             gone == [inst[i] EXCEPT !.wheel = [@ EXCEPT ![t] = Nil],
                                     !.tasks = [@ EXCEPT ![t] = s], !.cancel = p]
  <2>1. inst' = [inst EXCEPT ![i] = left] \/ inst' = [inst EXCEPT ![i] = gone]
    <3>1. CASE inst' = [inst EXCEPT ![i].wheel[t] = Nil]
        BY <3>1
    <3>2. CASE inst' = [[inst EXCEPT ![i].wheel[t] = Nil]
                          EXCEPT ![i].tasks[t] = s, ![i].cancel = p]
        BY <1>0, <3>2 DEF Memory
    <3>3. QED
        BY <1>14, <3>1, <3>2 DEF Cancel
  <2> HIDE DEF p, s
  <2>2. inst[i] \in Memory
      BY <1>0
  <2>3. Fades(left, inst[i]) /\ Fades(gone, inst[i])
      BY <2>2 DEF Fades, Memory
  <2> HIDE DEF left, gone
  <2>4. QED
      BY <1>1, <2>1, <2>3
<1>15. ASSUME NEW t \in Tasks, LeaseExpires(t) PROVE Goal
    BY <1>2, <1>15 DEF LeaseExpires
<1> HIDE DEF Goal
<1>16. QED
    BY <1>5, <1>6, <1>7, <1>9, <1>10, <1>11, <1>12, <1>13, <1>14, <1>15 DEF Goal

\* Own copies move from Submit to the heap, to the hand, to the worker, to the
\* wheel and back to Submit: every action keeps them to submitted tasks.
LEMMA SubmittedStep ==
    ASSUME Typed, SubmittedFirst, Next
    PROVE  SubmittedFirst'
<1>0. inst \in [Instances -> Memory]
    BY DEF Typed
<1>a. ASSUME NEW i \in Instances
      PROVE  inst[i] \in Memory /\ OwnOf(inst[i], submitted)
    BY <1>0 DEF SubmittedFirst
<1>1. ASSUME \A j \in Instances : Fades(inst'[j], inst[j]),
             UNCHANGED <<submitted, accepted>>
      PROVE  SubmittedFirst'
    BY <1>1, FadesOwn DEF SubmittedFirst
<1>2. ASSUME NEW i \in Instances, NEW r, OwnOf(r, submitted),
             inst' = [inst EXCEPT ![i] = r], UNCHANGED <<submitted, accepted>>
      PROVE  SubmittedFirst'
    BY <1>0, <1>2 DEF SubmittedFirst
<1>3. ASSUME UNCHANGED <<inst, submitted, accepted>>
      PROVE  SubmittedFirst'
    BY <1>3 DEF SubmittedFirst
<1>4. ASSUME NEW i \in Instances, Pop(i) PROVE SubmittedFirst'
  <2>1. PICK c \in BagToSet(inst[i].heap) :
            inst' = [inst EXCEPT ![i].heap = BagRemove(@, c), ![i].hand = c]
      BY <1>4 DEF Pop
  <2> DEFINE h == BagRemove(inst[i].heap, c)
             r == [inst[i] EXCEPT !.heap = h, !.hand = c]
  <2>2. BagToSet(h) \subseteq BagToSet(inst[i].heap)
      BY <1>a, HeapMembers, MemoryFields
  <2>3. inst' = [inst EXCEPT ![i] = r]
      BY <2>1
  <2> HIDE DEF h
  <2>4. OwnOf(r, submitted)
      BY <1>a, <2>2 DEF Memory, OwnOf
  <2> HIDE DEF r
  <2>5. QED
      BY <1>2, <1>4, <2>3, <2>4 DEF Pop, clients
<1>5. ASSUME NEW i \in Instances, Dequeue(i) PROVE SubmittedFirst'
  <2>1. PICK e \in queue : UNCHANGED inst \/
            inst' = [inst EXCEPT ![i].hand = Stored(e[1]), ![i].tasks[e[1]] = "Queued"]
      BY <1>5 DEF Dequeue
  <2>2. PICK t, c : t = e[1] /\ c = Stored(e[1])
      OBVIOUS
  <2>c. ~c.own
      BY <2>2 DEF Stored
  <2> DEFINE r == [inst[i] EXCEPT !.hand = c, !.tasks = [@ EXCEPT ![t] = "Queued"]]
  <2>3. OwnOf(r, submitted)
      BY <1>a, <2>c DEF Memory, OwnOf
  <2>4. [inst EXCEPT ![i].hand = c, ![i].tasks[t] = "Queued"] = [inst EXCEPT ![i] = r]
      BY <1>0, <1>a DEF Memory
  <2>5. UNCHANGED inst \/ inst' = [inst EXCEPT ![i] = r]
      BY <2>1, <2>2, <2>4
  <2> HIDE DEF r
  <2>6. UNCHANGED <<submitted, accepted>>
      BY <1>5 DEF Dequeue, clients
  <2>7. QED
      BY <1>2, <1>3, <2>3, <2>5, <2>6
<1>6. ASSUME NEW i \in Instances, Start(i) PROVE SubmittedFirst'
  <2> DEFINE c == inst[i].hand
             down == [inst[i] EXCEPT !.hand = Nil]
             r == [inst[i] EXCEPT !.hand = Nil, !.run = c, !.hb = TRUE,
                                  !.tasks = [@ EXCEPT ![c.task] = "Running"]]
  <2>1. OwnOf(down, submitted) /\ OwnOf(r, submitted)
      BY <1>a DEF Memory, OwnOf
  <2>2. inst' = [inst EXCEPT ![i] = down] \/ inst' = [inst EXCEPT ![i] = r]
      BY <1>6, <1>0 DEF Start, PutDown, Memory
  <2> HIDE DEF down, r
  <2>3. QED
      BY <1>2, <1>6, <2>1, <2>2 DEF Start, clients
<1>7. ASSUME NEW i \in Instances, Retry(i) PROVE SubmittedFirst'
  <2> DEFINE c == inst[i].run
             s == Show(i, c.task, "Retrying")
             r == [Left(i, s) EXCEPT !.wheel = [@ EXCEPT ![c.task] = c.att + 1]]
  <2>1. c # Nil /\ c.own
      BY <1>7 DEF Retry, JobFails, Busy
  <2>2. inst' = [Leave(i, s) EXCEPT ![i].wheel[c.task] = c.att + 1]
      BY <1>7 DEF Retry
  <2> HIDE DEF s
  <2>3. Leave(i, s) = [inst EXCEPT ![i] = Left(i, s)]
      BY <1>0, LeaveIs
  <2>4. c.task \in submitted
      BY <1>a, <2>1 DEF OwnOf
  <2>5. OwnOf(r, submitted)
      BY <1>a, <2>4 DEF Left, Memory, OwnOf
  <2>6. inst' = [inst EXCEPT ![i] = r]
      BY <1>0, <2>2, <2>3
  <2> HIDE DEF r
  <2>7. QED
      BY <1>2, <1>7, <2>5, <2>6 DEF Retry, clients
<1>8. ASSUME NEW i \in Instances, ClaimNext(i) PROVE SubmittedFirst'
  <2>1. PICK t \in inst[i].snap :
          \/ inst' = [inst EXCEPT ![i].snap = @ \ {t}, ![i].tasks[t] = "Queued",
                                  ![i].heap = BagAdd(@, Stored(t))]
          \/ inst' = [inst EXCEPT ![i].snap = @ \ {t}]
      BY <1>8 DEF ClaimNext
  <2> DEFINE h == BagAdd(inst[i].heap, Stored(t))
             skip == [inst[i] EXCEPT !.snap = @ \ {t}]
             r == [inst[i] EXCEPT !.snap = @ \ {t}, !.tasks = [@ EXCEPT ![t] = "Queued"],
                                  !.heap = h]
  <2>2. t \in Tasks
      BY <1>a, MemoryFields
  <2>3. Stored(t) \in Copies /\ ~Stored(t).own
      BY <2>2, ConstantsAssumption DEF Stored, Copies, Attempts
  <2>4. BagToSet(h) \subseteq BagToSet(inst[i].heap) \union {Stored(t)}
      BY <1>a, <2>3, HeapMembers, MemoryFields
  <2>5. inst' = [inst EXCEPT ![i] = skip] \/ inst' = [inst EXCEPT ![i] = r]
      BY <2>1
  <2> HIDE DEF h
  <2>6. OwnOf(skip, submitted)
      BY <1>a DEF Memory, OwnOf
  <2>7. OwnOf(r, submitted)
      BY <1>a, <2>3, <2>4 DEF Memory, OwnOf
  <2> HIDE DEF skip, r
  <2>8. QED
      BY <1>2, <1>8, <2>5, <2>6, <2>7 DEF ClaimNext, clients
<1>9. ASSUME NEW i \in Instances, SubmitEnqueue(i) PROVE SubmittedFirst'
  <2> DEFINE c == inst[i].call
             h == BagAdd(inst[i].heap, c)
             gone == [inst[i] EXCEPT !.call = Nil]
             r == [inst[i] EXCEPT !.call = Nil, !.tasks = [@ EXCEPT ![c.task] = "Queued"],
                                  !.heap = h]
  <2>1. c \in Copies /\ c.task \in submitted
      BY <1>a, <1>9, MemoryFields DEF SubmitEnqueue, Copy, OwnOf
  <2>2. BagToSet(h) \subseteq BagToSet(inst[i].heap) \union {c}
      BY <1>a, <2>1, HeapMembers, MemoryFields
  <2>3. inst' = [inst EXCEPT ![i] = gone] \/ inst' = [inst EXCEPT ![i] = r]
      BY <1>9 DEF SubmitEnqueue
  <2>4. OwnOf(gone, submitted)
      BY <1>a DEF Memory, OwnOf
  <2> HIDE DEF h
  <2>5. OwnOf(r, submitted)
      BY <1>a, <2>1, <2>2 DEF Memory, OwnOf
  <2> HIDE DEF gone, r
  <2>6. accepted' \subseteq submitted /\ submitted' = submitted
      BY <1>9, <2>1 DEF SubmitEnqueue, SubmittedFirst
  <2>7. QED
      BY <1>0, <2>3, <2>4, <2>5, <2>6 DEF SubmittedFirst
<1>10. ASSUME NEW i \in Instances, NEW t \in Tasks, RetryFires(i, t) PROVE SubmittedFirst'
  <2> DEFINE c == [task |-> t, att |-> inst[i].wheel[t], own |-> TRUE]
             fired == [inst[i] EXCEPT !.wheel = [@ EXCEPT ![t] = Nil], !.call = c]
             lost == [inst[i] EXCEPT !.wheel = [@ EXCEPT ![t] = Nil]]
  <2>1. c.task \in submitted
      BY <1>a, <1>10 DEF RetryFires, OwnOf
  <2>2. inst' = [inst EXCEPT ![i] = fired] \/ inst' = [inst EXCEPT ![i] = lost]
      BY <1>10 DEF RetryFires
  <2> HIDE DEF c
  <2>3. OwnOf(fired, submitted) /\ OwnOf(lost, submitted)
      BY <1>a, <2>1 DEF Memory, OwnOf
  <2> HIDE DEF fired, lost
  <2>4. QED
      BY <1>2, <1>10, <2>2, <2>3 DEF RetryFires, clients
<1>11. ASSUME NEW i \in Instances, NEW t \in Tasks, Submit(i, t) PROVE SubmittedFirst'
  <2> DEFINE c == [task |-> t, att |-> 0, own |-> TRUE]
             r == [inst[i] EXCEPT !.call = c]
  <2>1. UNCHANGED inst \/ inst' = [inst EXCEPT ![i] = r]
      BY <1>11 DEF Submit, SubmitSave
  <2>2. c.task = t
      OBVIOUS
  <2>3. submitted' = submitted \union {t} /\ UNCHANGED accepted
      BY <1>11 DEF Submit
  <2>4. \A j \in Instances : OwnOf(inst[j], submitted')
      BY <1>a, <2>3, FadesOwn, FadesSelf
  <2> HIDE DEF c
  <2>5. OwnOf(r, submitted')
      BY <1>a, <2>2, <2>3, <2>4 DEF Memory, OwnOf
  <2> HIDE DEF r
  <2>6. QED
      BY <1>0, <2>1, <2>3, <2>4, <2>5 DEF SubmittedFirst
<1>12. ASSUME \/ \E i \in Instances :
                \/ Finish(i) \/ DeadSave(i) \/ DeadComplete(i) \/ FailFinal(i) \/ Drain(i)
                \/ Load(i) \/ Boot(i) \/ NewReturns(i) \/ RegisterJob(i)
                \/ CancelFinish(i) \/ HeartbeatStops(i) \/ RecoverOrphaned(i)
                \/ Crash(i) \/ ShutDown(i) \/ Exit(i)
                \/ \E t \in Tasks : OnCancel(i, t) \/ Cancel(i, t)
              \/ \E t \in Tasks : LeaseExpires(t)
       PROVE SubmittedFirst'
  <2>1. \A j \in Instances : Fades(inst'[j], inst[j])
      BY <1>12, FadingActions
  <2>2. UNCHANGED <<submitted, accepted>>
    <3>1. ASSUME NEW i \in Instances,
                 \/ DeadSave(i) \/ Drain(i) \/ Load(i) \/ Boot(i) \/ NewReturns(i)
                 \/ RegisterJob(i) \/ HeartbeatStops(i) \/ RecoverOrphaned(i)
                 \/ Crash(i) \/ ShutDown(i) \/ Exit(i) \/ \E t \in Tasks : OnCancel(i, t)
          PROVE  UNCHANGED clients
        BY <3>1 DEF DeadSave, Drain, Load, Boot, NewReturns, RegisterJob, HeartbeatStops,
                    RecoverOrphaned, Crash, ShutDown, Exit, OnCancel
    <3>2. ASSUME NEW i \in Instances, Finish(i) \/ DeadComplete(i) \/ FailFinal(i)
          PROVE  UNCHANGED <<submitted, accepted>>
        BY <3>2 DEF Finish, DeadComplete, FailFinal
    <3>3. ASSUME NEW i \in Instances, CancelFinish(i) PROVE UNCHANGED clients
        BY <3>3, Zenon DEF CancelFinish
    <3>4. ASSUME NEW i \in Instances, NEW t \in Tasks, Cancel(i, t)
          PROVE  UNCHANGED <<submitted, accepted>>
        BY <3>4, Zenon DEF Cancel
    <3>5. ASSUME NEW t \in Tasks, LeaseExpires(t) PROVE UNCHANGED clients
        BY <3>5 DEF LeaseExpires
    <3>6. QED
        BY <1>12, <3>1, <3>2, <3>3, <3>4, <3>5 DEF clients
  <2>3. QED
      BY <1>1, <2>1, <2>2
<1>13. QED
    BY <1>4, <1>5, <1>6, <1>7, <1>8, <1>9, <1>10, <1>11, <1>12
       DEF Next, dequeueLoop, worker, cleanupLoop, main, calls

\* What moves about in any instance has been submitted.
LEMMA AlwaysSubmittedFirst == Spec => []SubmittedFirst
<1>1. Init => SubmittedFirst
  <2> SUFFICES ASSUME Init PROVE SubmittedFirst
      OBVIOUS
  <2>1. ASSUME NEW i \in Instances PROVE OwnOf(inst[i], submitted)
      BY DEF Init, Off, OwnOf, EmptyBag, SetToBag, BagToSet
  <2>2. QED
      BY <2>1 DEF Init, SubmittedFirst
<1>2. Typed /\ SubmittedFirst /\ [Next]_vars => SubmittedFirst'
  <2>1. ASSUME SubmittedFirst, UNCHANGED vars PROVE SubmittedFirst'
      BY <2>1 DEF SubmittedFirst, vars, clients
  <2>2. QED
      BY <2>1, SubmittedStep
<1>3. QED
    BY <1>1, <1>2, AlwaysTyped, PTL DEF Spec

\* Type correctness: the keys in Redis and the memory of every instance hold
\* what the code puts there, and Submit never returns for a task nobody passed
\* to it, for any number of instances, tasks, retries, crashes and failing
\* storage calls.
THEOREM TypeCorrect == Spec => []TypeOK
<1>1. Typed /\ SubmittedFirst => TypeOK
  <2> SUFFICES ASSUME Typed, SubmittedFirst PROVE TypeOK
      OBVIOUS
  <2>1. ASSUME NEW i \in Instances
        PROVE  inst[i] \in Memory /\ inst[i].phase \in Phases
      BY DEF Typed, Memory
  <2>2. ASSUME NEW i \in Instances
        PROVE  /\ inst[i].snap \subseteq Tasks
               /\ BagToSet(inst[i].heap) \subseteq Copies
               /\ inst[i].hand \in Copies \union {Nil}
               /\ inst[i].run \in Copies \union {Nil}
               /\ inst[i].call \in Copies \union {Nil}
               /\ inst[i].tasks \in [Tasks -> Status]
               /\ inst[i].wheel \in [Tasks -> Attempts \union {Nil}]
      BY <2>1, MemoryFields DEF Copy
  <2>3. QED
      BY <2>1, <2>2 DEF Typed, RedisTyped, SubmittedFirst, TypeOK, Phases
<1>2. QED
    BY <1>1, AlwaysTyped, AlwaysSubmittedFirst, PTL

-----------------------------------------------------------------------------
(* Durability *)

\* The record of a task without an outcome is in Redis from the moment Submit
\* has saved it, not only from the moment Submit returns.  Whoever deletes a
\* record has settled the task first: a worker at its end, Cancel, or
\* dequeueLoop, which acts on the mark a Cancel left.
Durable ==
    /\ NoLostTask
    /\ marks \subseteq settled
    /\ \A i \in Instances :
          /\ inst[i].call # Nil =>
                inst[i].call.task \in settled \/ body[inst[i].call.task] # Nil
          /\ inst[i].cancel # Nil => inst[i].cancel[1] \in settled

\* What the other steps of a proof need to know of a step: a record goes only
\* with an outcome, and a call or a cancellation in flight is an old one.
LEMMA DurableFrame ==
    ASSUME Durable, settled \subseteq settled', accepted' = accepted,
           marks' \subseteq settled',
           \A t \in Tasks : body[t] # Nil /\ t \notin settled' => body'[t] # Nil,
           accepted \subseteq Tasks,
           \A i \in Instances : inst[i].call # Nil => inst[i].call.task \in Tasks,
           \A i \in Instances : /\ inst'[i].call \in {inst[i].call, Nil}
                                /\ inst'[i].cancel \in {inst[i].cancel, Nil}
    PROVE  Durable'
BY DEF Durable, NoLostTask

\* The storage half: which actions delete a record, and of which task.
LEMMA RecordStays ==
    ASSUME Typed, Durable, Next
    PROVE  /\ settled \subseteq settled' /\ marks' \subseteq settled'
           /\ \A t \in Tasks : body[t] # Nil /\ t \notin settled' => body'[t] # Nil
<1> DEFINE Goal == /\ settled \subseteq settled' /\ marks' \subseteq settled'
                   /\ \A t \in Tasks : body[t] # Nil /\ t \notin settled' => body'[t] # Nil
<1>0. /\ inst \in [Instances -> Memory]
      /\ body \in [Tasks -> Attempts \union {Nil}]
      /\ queue \subseteq Tasks \X Attempts
      /\ marks \subseteq settled
    BY DEF Typed, RedisTyped, Durable
<1>a. ASSUME NEW i \in Instances
      PROVE  inst[i] \in Memory
    BY <1>0
<1>n. ASSUME NEW a \in Attempts PROVE a # Nil
    BY NilAssumption DEF Attempts
<1>1. ASSUME UNCHANGED <<body, marks>>, settled \subseteq settled' PROVE Goal
    BY <1>0, <1>1
<1>2. ASSUME NEW t \in Tasks, CompleteTask(t), settled \subseteq settled', t \in settled'
      PROVE  Goal
    BY <1>0, <1>2 DEF CompleteTask, Delete
<1>3. ASSUME NEW t \in Tasks, NEW a \in Attempts, body' = [body EXCEPT ![t] = a],
             UNCHANGED <<marks, settled>>
      PROVE  Goal
    BY <1>0, <1>3, <1>n
<1>4. ASSUME NEW i \in Instances,
             \/ Pop(i) \/ Start(i) \/ Load(i) \/ Boot(i) \/ NewReturns(i) \/ RegisterJob(i)
             \/ HeartbeatStops(i) \/ Crash(i) \/ ShutDown(i) \/ Exit(i) \/ Retry(i)
             \/ Drain(i) \/ ClaimNext(i) \/ SubmitEnqueue(i) \/ RecoverOrphaned(i)
             \/ FailFinal(i) \/ \E t \in Tasks : OnCancel(i, t)
      PROVE  Goal
  <2>1. UNCHANGED <<body, marks>> /\ settled \subseteq settled'
      BY <1>4 DEF Pop, Start, Load, Boot, NewReturns, RegisterJob, HeartbeatStops, Crash,
                  ShutDown, Exit, Retry, Drain, ClaimNext, SubmitEnqueue, RecoverOrphaned,
                  FailFinal, OnCancel, redis, clients
  <2>2. QED
      BY <1>1, <2>1
<1>5. ASSUME NEW i \in Instances, Dequeue(i) PROVE Goal
  <2>1. PICK e \in queue :
            /\ (e[1] \in marks /\ Delete(e[1])) \/ UNCHANGED body
            /\ UNCHANGED <<marks, clients>>
      BY <1>5 DEF Dequeue
  <2>2. QED
      BY <1>0, <2>1 DEF Delete, clients
<1>6. ASSUME NEW i \in Instances, Finish(i) \/ DeadComplete(i) PROVE Goal
  <2>1. inst[i].run.task \in Tasks
      BY <1>6, <1>a, MemoryFields DEF Finish, DeadComplete, Busy, Copy, Copies
  <2>2. QED
      BY <1>2, <1>6, <2>1 DEF Finish, DeadComplete
<1>7. ASSUME NEW i \in Instances, DeadSave(i) PROVE Goal
  <2>1. inst[i].run.task \in Tasks /\ inst[i].run.att \in Attempts
      BY <1>7, <1>a, MemoryFields DEF DeadSave, JobFails, Busy, Copy, Copies
  <2>2. QED
      BY <1>3, <1>7, <2>1 DEF DeadSave, Save, clients
<1>8. ASSUME NEW i \in Instances, CancelFinish(i) PROVE Goal
  <2>1. inst[i].cancel[1] \in Tasks /\ inst[i].cancel[1] \in settled
      BY <1>8, <1>a, MemoryFields DEF CancelFinish, Durable
  <2>2. CompleteTask(inst[i].cancel[1]) \/ UNCHANGED redis
      BY <1>8, Zenon DEF CancelFinish
  <2>3. UNCHANGED clients
      BY <1>8, Zenon DEF CancelFinish
  <2>4. QED
      BY <1>1, <1>2, <2>1, <2>2, <2>3 DEF redis, clients
<1>9. ASSUME NEW i \in Instances, NEW t \in Tasks, RetryFires(i, t) PROVE Goal
  <2>1. inst[i].wheel[t] \in Attempts
      BY <1>a, <1>9, MemoryFields DEF RetryFires
  <2>2. UNCHANGED body \/ body' = [body EXCEPT ![t] = inst[i].wheel[t]]
      BY <1>9 DEF RetryFires, Save
  <2>3. QED
      BY <1>1, <1>3, <1>9, <2>1, <2>2 DEF RetryFires, clients
<1>10. ASSUME NEW i \in Instances, NEW t \in Tasks, Submit(i, t) PROVE Goal
  <2>1. UNCHANGED body \/ body' = [body EXCEPT ![t] = 0]
      BY <1>10 DEF Submit, SubmitSave, Save
  <2>2. 0 \in Attempts
      BY ConstantsAssumption DEF Attempts
  <2>3. QED
      BY <1>1, <1>3, <1>10, <2>1, <2>2 DEF Submit
<1>11. ASSUME NEW i \in Instances, NEW t \in Tasks, Cancel(i, t) PROVE Goal
    BY <1>0, <1>11 DEF Cancel
<1>12. ASSUME NEW t \in Tasks, LeaseExpires(t) PROVE Goal
    BY <1>1, <1>12 DEF LeaseExpires, clients
<1> HIDE DEF Goal
<1>13. QED
    BY <1>4, <1>5, <1>6, <1>7, <1>8, <1>9, <1>10, <1>11, <1>12
       DEF Next, dequeueLoop, worker, cleanupLoop, main, calls, Goal

\* Every action keeps the records of tasks without an outcome.
LEMMA DurableStep ==
    ASSUME Typed, SubmittedFirst, Durable, Next
    PROVE  Durable'
<1>0. inst \in [Instances -> Memory] /\ accepted \subseteq Tasks
    BY DEF Typed, RedisTyped, SubmittedFirst
<1>a. ASSUME NEW i \in Instances
      PROVE  /\ inst[i] \in Memory
             /\ inst[i].call # Nil => inst[i].call.task \in Tasks
    BY <1>0, MemoryFields DEF Copy, Copies
<1>1. /\ settled \subseteq settled' /\ marks' \subseteq settled'
      /\ \A t \in Tasks : body[t] # Nil /\ t \notin settled' => body'[t] # Nil
    BY RecordStays
<1>2. ASSUME UNCHANGED accepted,
             \A i \in Instances : /\ inst'[i].call \in {inst[i].call, Nil}
                                  /\ inst'[i].cancel \in {inst[i].cancel, Nil}
      PROVE  Durable'
    BY <1>0, <1>a, <1>1, <1>2, DurableFrame
<1>3. ASSUME UNCHANGED <<inst, accepted>> PROVE Durable'
    BY <1>2, <1>3
<1>4. ASSUME NEW i \in Instances, NEW r, inst' = [inst EXCEPT ![i] = r],
             UNCHANGED accepted,
             r.call \in {inst[i].call, Nil}, r.cancel \in {inst[i].cancel, Nil}
      PROVE  Durable'
    BY <1>0, <1>2, <1>4
\* A Submit in flight: its record has just been saved.
<1>5. ASSUME NEW i \in Instances, NEW c \in Copies, NEW w,
             inst' = [inst EXCEPT ![i] = [inst[i] EXCEPT !.wheel = w, !.call = c]],
             Save(c), UNCHANGED accepted
      PROVE  Durable'
  <2>1. body'[c.task] # Nil
      BY <1>5, NilAssumption DEF Save, Typed, RedisTyped, Copies, Attempts
  <2>2. ASSUME NEW j \in Instances
        PROVE  /\ j # i => inst'[j] = inst[j]
               /\ inst'[i].call = c /\ inst'[i].cancel = inst[i].cancel
      BY <1>0, <1>5 DEF Memory
  <2>3. ASSUME NEW j \in Instances, inst'[j].call # Nil
        PROVE  inst'[j].call.task \in settled' \/ body'[inst'[j].call.task] # Nil
    <3>1. CASE j = i
        BY <2>1, <2>2, <3>1
    <3>2. CASE j # i
        BY <1>1, <1>a, <2>2, <2>3, <3>2 DEF Durable
    <3>3. QED
        BY <3>1, <3>2
  <2>4. ASSUME NEW j \in Instances, inst'[j].cancel # Nil
        PROVE  inst'[j].cancel[1] \in settled'
      BY <1>1, <2>2, <2>4 DEF Durable
  <2>5. NoLostTask'
      BY <1>0, <1>1, <1>5 DEF Durable, NoLostTask
  <2>6. QED
      BY <1>1, <2>3, <2>4, <2>5 DEF Durable
<1>6. ASSUME NEW i \in Instances, Pop(i) PROVE Durable'
  <2>1. PICK c \in BagToSet(inst[i].heap) :
            inst' = [inst EXCEPT ![i].heap = BagRemove(@, c), ![i].hand = c]
      BY <1>6 DEF Pop
  <2>2. PICK r : r = [inst[i] EXCEPT !.heap = BagRemove(@, c), !.hand = c]
      OBVIOUS
  <2>3. inst' = [inst EXCEPT ![i] = r]
      BY <2>1, <2>2
  <2>4. r.call = inst[i].call /\ r.cancel = inst[i].cancel
      BY <1>a, <2>2 DEF Memory
  <2>5. QED
      BY <1>4, <1>6, <2>3, <2>4 DEF Pop, clients
<1>7. ASSUME NEW i \in Instances, Dequeue(i) PROVE Durable'
  <2>1. PICK e \in queue : UNCHANGED inst \/
            inst' = [inst EXCEPT ![i].hand = Stored(e[1]), ![i].tasks[e[1]] = "Queued"]
      BY <1>7 DEF Dequeue
  <2>2. PICK t, c : t = e[1] /\ c = Stored(e[1])
      OBVIOUS
  <2> DEFINE r == [inst[i] EXCEPT !.hand = c, !.tasks = [@ EXCEPT ![t] = "Queued"]]
  <2>3. r.call = inst[i].call /\ r.cancel = inst[i].cancel
      BY <1>a DEF Memory
  <2>4. [inst EXCEPT ![i].hand = c, ![i].tasks[t] = "Queued"] = [inst EXCEPT ![i] = r]
      BY <1>0, <1>a DEF Memory
  <2>5. UNCHANGED inst \/ inst' = [inst EXCEPT ![i] = r]
      BY <2>1, <2>2, <2>4
  <2> HIDE DEF r
  <2>6. UNCHANGED accepted
      BY <1>7 DEF Dequeue, clients
  <2>7. QED
      BY <1>3, <1>4, <2>3, <2>5, <2>6
<1>8. ASSUME NEW i \in Instances, Start(i) PROVE Durable'
  <2> DEFINE c == inst[i].hand
             down == [inst[i] EXCEPT !.hand = Nil]
             r == [inst[i] EXCEPT !.hand = Nil, !.run = c, !.hb = TRUE,
                                  !.tasks = [@ EXCEPT ![c.task] = "Running"]]
  <2>1. /\ r.call = inst[i].call /\ r.cancel = inst[i].cancel
        /\ down.call = inst[i].call /\ down.cancel = inst[i].cancel
      BY <1>a DEF Memory
  <2>2. inst' = [inst EXCEPT ![i] = down] \/ inst' = [inst EXCEPT ![i] = r]
      BY <1>8, <1>0 DEF Start, PutDown, Memory
  <2> HIDE DEF down, r
  <2>3. QED
      BY <1>4, <1>8, <2>1, <2>2 DEF Start, clients
<1>9. ASSUME NEW i \in Instances, NEW s, inst' = Leave(i, s), UNCHANGED accepted
      PROVE  Durable'
  <2>1. inst' = [inst EXCEPT ![i] = Left(i, s)]
      BY <1>0, <1>9, LeaveIs
  <2>2. Left(i, s).call = inst[i].call /\ Left(i, s).cancel = inst[i].cancel
      BY <1>a DEF Left, Memory
  <2>3. QED
      BY <1>4, <1>9, <2>1, <2>2
<1>10. ASSUME NEW i \in Instances, Finish(i) \/ DeadComplete(i) \/ FailFinal(i) PROVE Durable'
    BY <1>9, <1>10 DEF Finish, DeadComplete, FailFinal
<1>11. ASSUME NEW i \in Instances, Retry(i) PROVE Durable'
  <2> DEFINE c == inst[i].run
             s == Show(i, c.task, "Retrying")
             r == [Left(i, s) EXCEPT !.wheel = [@ EXCEPT ![c.task] = c.att + 1]]
  <2>1. inst' = [Leave(i, s) EXCEPT ![i].wheel[c.task] = c.att + 1]
      BY <1>11 DEF Retry
  <2> HIDE DEF s
  <2>2. Leave(i, s) = [inst EXCEPT ![i] = Left(i, s)]
      BY <1>0, LeaveIs
  <2>3. r.call = inst[i].call /\ r.cancel = inst[i].cancel
      BY <1>a DEF Left, Memory
  <2>4. inst' = [inst EXCEPT ![i] = r]
      BY <1>0, <2>1, <2>2
  <2> HIDE DEF r
  <2>5. QED
      BY <1>4, <1>11, <2>3, <2>4 DEF Retry, clients
<1>12. ASSUME NEW i \in Instances, DeadSave(i) PROVE Durable'
  <2> DEFINE s == Show(i, inst[i].run.task, "Dead")
             r == [inst[i] EXCEPT !.dead = TRUE, !.tasks = [@ EXCEPT ![inst[i].run.task] = s]]
  <2>1. inst' = [inst EXCEPT ![i] = r]
      BY <1>12 DEF DeadSave
  <2>2. r.call = inst[i].call /\ r.cancel = inst[i].cancel
      BY <1>a DEF Memory
  <2> HIDE DEF r
  <2>3. QED
      BY <1>4, <1>12, <2>1, <2>2 DEF DeadSave, clients
<1>13. ASSUME NEW i \in Instances, Drain(i) \/ RecoverOrphaned(i) PROVE Durable'
    BY <1>3, <1>13 DEF Drain, RecoverOrphaned, clients
<1>14. ASSUME NEW i \in Instances, NEW r,
              \/ r = [inst[i] EXCEPT !.snap = LoadAll]
              \/ r = [inst[i] EXCEPT !.phase = "loading", !.snap = LoadAll]
              \/ r = [inst[i] EXCEPT !.phase = "up"]
              \/ r = [inst[i] EXCEPT !.jobs = TRUE]
              \/ r = [inst[i] EXCEPT !.hb = FALSE]
       PROVE  r.call = inst[i].call /\ r.cancel = inst[i].cancel
    BY <1>a, <1>14 DEF Memory
<1>15. ASSUME NEW i \in Instances,
              Load(i) \/ Boot(i) \/ NewReturns(i) \/ RegisterJob(i) \/ HeartbeatStops(i)
       PROVE  Durable'
  <2>1. \/ inst' = [inst EXCEPT ![i] = [inst[i] EXCEPT !.snap = LoadAll]]
        \/ inst' = [inst EXCEPT ![i] = [inst[i] EXCEPT !.phase = "loading", !.snap = LoadAll]]
        \/ inst' = [inst EXCEPT ![i] = [inst[i] EXCEPT !.phase = "up"]]
        \/ inst' = [inst EXCEPT ![i] = [inst[i] EXCEPT !.jobs = TRUE]]
        \/ inst' = [inst EXCEPT ![i] = [inst[i] EXCEPT !.hb = FALSE]]
      BY <1>15 DEF Load, Boot, NewReturns, RegisterJob, HeartbeatStops
  <2>2. UNCHANGED accepted
      BY <1>15 DEF Load, Boot, NewReturns, RegisterJob, HeartbeatStops, clients
  <2>3. PICK r : /\ inst' = [inst EXCEPT ![i] = r]
                 /\ r.call = inst[i].call /\ r.cancel = inst[i].cancel
      BY <1>14, <2>1
  <2>4. QED
      BY <1>4, <2>2, <2>3
<1>16. ASSUME NEW i \in Instances, ClaimNext(i) PROVE Durable'
  <2>1. PICK t \in inst[i].snap :
          \/ inst' = [inst EXCEPT ![i].snap = @ \ {t}, ![i].tasks[t] = "Queued",
                                  ![i].heap = BagAdd(@, Stored(t))]
          \/ inst' = [inst EXCEPT ![i].snap = @ \ {t}]
      BY <1>16 DEF ClaimNext
  <2> DEFINE h == BagAdd(inst[i].heap, Stored(t))
             skip == [inst[i] EXCEPT !.snap = @ \ {t}]
             r == [inst[i] EXCEPT !.snap = @ \ {t}, !.tasks = [@ EXCEPT ![t] = "Queued"],
                                  !.heap = h]
  <2>2. inst' = [inst EXCEPT ![i] = skip] \/ inst' = [inst EXCEPT ![i] = r]
      BY <2>1
  <2> HIDE DEF h
  <2>3. /\ skip.call = inst[i].call /\ skip.cancel = inst[i].cancel
        /\ r.call = inst[i].call /\ r.cancel = inst[i].cancel
      BY <1>a DEF Memory
  <2> HIDE DEF skip, r
  <2>4. QED
      BY <1>4, <1>16, <2>2, <2>3 DEF ClaimNext, clients
<1>17. ASSUME NEW i \in Instances, SubmitEnqueue(i) PROVE Durable'
  <2> DEFINE c == inst[i].call
             h == BagAdd(inst[i].heap, c)
             gone == [inst[i] EXCEPT !.call = Nil]
             r == [inst[i] EXCEPT !.call = Nil, !.tasks = [@ EXCEPT ![c.task] = "Queued"],
                                  !.heap = h]
  <2>1. inst' = [inst EXCEPT ![i] = gone] \/ inst' = [inst EXCEPT ![i] = r]
      BY <1>17 DEF SubmitEnqueue
  <2> HIDE DEF h
  <2>2. /\ gone.call = Nil /\ gone.cancel = inst[i].cancel
        /\ r.call = Nil /\ r.cancel = inst[i].cancel
      BY <1>a DEF Memory
  <2> HIDE DEF gone, r
  <2>3. \A j \in Instances : /\ inst'[j].call \in {inst[j].call, Nil}
                             /\ inst'[j].cancel = inst[j].cancel
      BY <1>0, <2>1, <2>2
  <2>4. /\ accepted' \subseteq accepted \union {c.task}
        /\ c.task \in settled \/ body[c.task] # Nil
        /\ UNCHANGED <<body, settled, marks>>
      BY <1>17 DEF SubmitEnqueue, Durable
  <2>5. NoLostTask'
      BY <2>4 DEF Durable, NoLostTask
  <2>6. QED
      BY <2>3, <2>4, <2>5 DEF Durable
<1>18. ASSUME NEW i \in Instances, CancelFinish(i) PROVE Durable'
  <2> DEFINE t == inst[i].cancel[1]
             sent(here) == [j \in Instances |->
                IF Up(j) THEN [here[j] EXCEPT !.inbox = @ \union {t}] ELSE here[j]]
             here == IF inst[i].cancel[2]
                       THEN [inst EXCEPT ![i].tasks[t] = Nil, ![i].cancel = Nil]
                       ELSE [inst EXCEPT ![i].cancel = Nil]
  <2>1. /\ \/ here = [inst EXCEPT ![i].tasks[t] = Nil, ![i].cancel = Nil]
           \/ here = [inst EXCEPT ![i].cancel = Nil]
        /\ inst' = sent(here) \/ inst' = here
      BY <1>18, Zenon DEF CancelFinish
  <2> HIDE DEF here
  <2>2. ASSUME NEW j \in Instances
        PROVE  /\ here[j].call = inst[j].call /\ here[j].cancel \in {inst[j].cancel, Nil}
               /\ DOMAIN here[j] = DOMAIN inst[j]
      BY <1>0, <2>1 DEF Memory
  <2>3. ASSUME NEW j \in Instances
        PROVE  inst'[j].call = inst[j].call /\ inst'[j].cancel \in {inst[j].cancel, Nil}
    <3>1. \/ inst'[j] = here[j]
          \/ inst'[j] = [here[j] EXCEPT !.inbox = @ \union {t}]
        BY <2>1
    <3>2. QED
        BY <1>a, <2>2, <3>1 DEF Memory
  <2>4. UNCHANGED accepted
      BY <1>18, Zenon DEF CancelFinish, clients
  <2>5. QED
      BY <1>2, <2>3, <2>4
<1>19. ASSUME NEW i \in Instances, NEW t \in Tasks, RetryFires(i, t) PROVE Durable'
  <2> DEFINE c == [task |-> t, att |-> inst[i].wheel[t], own |-> TRUE]
             w == [inst[i].wheel EXCEPT ![t] = Nil]
             lost == [inst[i] EXCEPT !.wheel = w]
  <2>1. c \in Copies
      BY <1>a, <1>19, MemoryFields DEF RetryFires, Copies
  <2>2. \/ Save(c) /\ inst' = [inst EXCEPT ![i] = [inst[i] EXCEPT !.wheel = w, !.call = c]]
        \/ inst' = [inst EXCEPT ![i] = lost]
      BY <1>19 DEF RetryFires
  <2> HIDE DEF c, w
  <2>3. lost.call = inst[i].call /\ lost.cancel = inst[i].cancel
      BY <1>a DEF Memory
  <2> HIDE DEF lost
  <2>4. UNCHANGED accepted
      BY <1>19 DEF RetryFires, clients
  <2>5. QED
      BY <1>4, <1>5, <2>1, <2>2, <2>3, <2>4
<1>20. ASSUME NEW i \in Instances, NEW t \in Tasks, OnCancel(i, t) PROVE Durable'
  <2> DEFINE r == [inst[i] EXCEPT !.inbox = @ \ {t},
                                  !.tasks = [@ EXCEPT ![t] = Show(i, t, "Cancelled")]]
  <2>1. r.call = inst[i].call /\ r.cancel = inst[i].cancel
      BY <1>a DEF Memory
  <2>2. inst' = [inst EXCEPT ![i] = r]
      BY <1>20 DEF OnCancel
  <2> HIDE DEF r
  <2>3. QED
      BY <1>4, <1>20, <2>1, <2>2 DEF OnCancel, clients
<1>21. ASSUME NEW i \in Instances, Crash(i) \/ Exit(i) \/ ShutDown(i) PROVE Durable'
  <2> DEFINE off == Off(i)
             r == [Off(i) EXCEPT !.phase = "stopping", !.run = inst[i].run,
                                 !.dead = inst[i].dead, !.tasks = inst[i].tasks]
  <2>1. off.call = Nil /\ off.cancel = Nil /\ r.call = Nil /\ r.cancel = Nil
      BY DEF Off
  <2>2. inst' = [inst EXCEPT ![i] = off] \/ inst' = [inst EXCEPT ![i] = r]
      BY <1>21 DEF Crash, Exit, ShutDown
  <2> HIDE DEF off, r
  <2>3. QED
      BY <1>4, <1>21, <2>1, <2>2 DEF Crash, Exit, ShutDown, clients
<1>22. ASSUME NEW i \in Instances, NEW t \in Tasks, Submit(i, t) PROVE Durable'
  <2> DEFINE c == [task |-> t, att |-> 0, own |-> TRUE]
  <2>1. c \in Copies
      BY ConstantsAssumption DEF Copies, Attempts
  <2>2. UNCHANGED inst \/ (Save(c) /\ inst' = [inst EXCEPT ![i].call = c])
      BY <1>22 DEF Submit, SubmitSave
  <2> HIDE DEF c
  <2>3. [inst EXCEPT ![i].call = c]
          = [inst EXCEPT ![i] = [inst[i] EXCEPT !.wheel = inst[i].wheel, !.call = c]]
      BY <1>0, <1>a DEF Memory
  <2>4. UNCHANGED accepted
      BY <1>22 DEF Submit
  <2>5. QED
      BY <1>3, <1>5, <2>1, <2>2, <2>3, <2>4
<1>23. ASSUME NEW i \in Instances, NEW t \in Tasks, Cancel(i, t) PROVE Durable'
  <2> DEFINE s == Show(i, t, "Cancelled")
             w == inst[i].tasks[t] \in {"Queued", "Retrying"}
             p == <<t, w>>
             left == [inst[i] EXCEPT !.wheel = [@ EXCEPT ![t] = Nil]]
             gone == [inst[i] EXCEPT !.wheel = [@ EXCEPT ![t] = Nil],
                                     !.tasks = [@ EXCEPT ![t] = s], !.cancel = p]
  <2>1. \/ inst' = [inst EXCEPT ![i] = left]
        \/ inst' = [inst EXCEPT ![i] = gone] /\ t \in settled'
    <3>1. CASE inst' = [inst EXCEPT ![i].wheel[t] = Nil]
        BY <3>1
    <3>2. CASE /\ inst' = [[inst EXCEPT ![i].wheel[t] = Nil]
                             EXCEPT ![i].tasks[t] = s, ![i].cancel = p]
               /\ t \in settled'
        BY <1>0, <3>2 DEF Memory
    <3>3. QED
        BY <1>23, <3>1, <3>2 DEF Cancel
  <2>2. p[1] = t
      OBVIOUS
  <2> HIDE DEF p, s
  <2>3. /\ left.call = inst[i].call /\ left.cancel = inst[i].cancel
        /\ gone.call = inst[i].call /\ gone.cancel = p
      BY <1>a DEF Memory
  <2>4. UNCHANGED accepted
      BY <1>23 DEF Cancel
  <2> HIDE DEF left, gone
  <2>5. CASE inst' = [inst EXCEPT ![i] = left]
      BY <1>4, <2>3, <2>4, <2>5
  <2>6. CASE inst' = [inst EXCEPT ![i] = gone] /\ t \in settled'
    <3>1. ASSUME NEW j \in Instances
          PROVE  /\ inst'[j].call = inst[j].call
                 /\ inst'[j].cancel = inst[j].cancel \/ inst'[j].cancel = p
        BY <1>0, <2>3, <2>6
    <3>2. NoLostTask'
        BY <1>0, <1>1, <2>4 DEF Durable, NoLostTask
    <3>3. QED
        BY <1>a, <1>1, <2>2, <2>6, <3>1, <3>2 DEF Durable
  <2>7. QED
      BY <2>1, <2>5, <2>6
<1>24. ASSUME NEW t \in Tasks, LeaseExpires(t) PROVE Durable'
    BY <1>3, <1>24 DEF LeaseExpires, clients
<1>25. QED
    BY <1>6, <1>7, <1>8, <1>10, <1>11, <1>12, <1>13, <1>15, <1>16, <1>17, <1>18, <1>19,
       <1>20, <1>21, <1>22, <1>23, <1>24
       DEF Next, dequeueLoop, worker, cleanupLoop, main, calls

\* No lost task: whatever crashes, whichever storage call fails and however the
\* instances interleave, a task whose Submit returned and that has no outcome
\* yet has its record in Redis.
THEOREM TaskNeverLost == Spec => []NoLostTask
<1>1. Init => Durable
    BY DEF Init, Off, Durable, NoLostTask
<1>2. Typed /\ SubmittedFirst /\ Durable /\ [Next]_vars => Durable'
  <2>1. ASSUME Durable, UNCHANGED vars PROVE Durable'
      BY <2>1 DEF Durable, NoLostTask, vars, redis, clients
  <2>2. QED
      BY <2>1, DurableStep
<1>3. Durable => NoLostTask
    BY DEF Durable
<1>4. QED
    BY <1>1, <1>2, <1>3, AlwaysTyped, AlwaysSubmittedFirst, PTL DEF Spec

-----------------------------------------------------------------------------
(* Leases *)

\* What a step may do to the lease of a healthy execution, and who may put its
\* task into the queue.
KeepsLease(i, t) ==
    \/ lease'[t] = i
    \/ inst'[i].run # inst[i].run
    \/ body'[t] = Nil
    \/ \E a \in Attempts : <<t, a>> \in queue \ queue'

OnlySubmits(t) ==
    (\E a \in Attempts : <<t, a>> \in queue' \ queue) =>
        \E j \in Instances : inst[j].call # Nil /\ inst[j].call.task = t

\* Every action respects the lease of a healthy execution.
LEMMA LeaseStep ==
    ASSUME Typed, Next, NEW i \in Instances, NEW t \in Tasks, Healthy(i, t)
    PROVE  KeepsLease(i, t) /\ OnlySubmits(t)
<1> DEFINE Goal == KeepsLease(i, t) /\ OnlySubmits(t)
<1>0. /\ inst \in [Instances -> Memory]
      /\ body \in [Tasks -> Attempts \union {Nil}]
      /\ queue \subseteq Tasks \X Attempts
      /\ lease \in [Tasks -> Instances \union {Nil}]
      /\ lease[t] = i /\ i # Nil /\ inst[i].run # Nil /\ inst[i].run.task = t /\ inst[i].hb
    BY NilAssumption DEF Typed, RedisTyped, Healthy, Executes
<1>a. ASSUME NEW j \in Instances
      PROVE  inst[j] \in Memory
    BY <1>0
<1>1. ASSUME UNCHANGED <<lease, queue>> PROVE Goal
    BY <1>0, <1>1 DEF KeepsLease, OnlySubmits
<1>2. ASSUME NEW u \in Tasks, CompleteTask(u) PROVE Goal
  <2>1. CASE u = t
      BY <1>0, <1>2, <2>1 DEF CompleteTask, Delete, KeepsLease, OnlySubmits
  <2>2. CASE u # t
      BY <1>0, <1>2, <2>2 DEF CompleteTask, Delete, KeepsLease, OnlySubmits
  <2>3. QED
      BY <2>1, <2>2
<1>3. ASSUME NEW j \in Instances,
             \/ Pop(j) \/ Start(j) \/ Load(j) \/ Boot(j) \/ NewReturns(j) \/ RegisterJob(j)
             \/ HeartbeatStops(j) \/ Crash(j) \/ ShutDown(j) \/ Exit(j) \/ Retry(j)
             \/ FailFinal(j) \/ DeadSave(j)
             \/ \E u \in Tasks : OnCancel(j, u) \/ RetryFires(j, u) \/ Submit(j, u) \/ Cancel(j, u)
      PROVE  Goal
  <2>1. UNCHANGED <<lease, queue>>
      BY <1>3 DEF Pop, Start, Load, Boot, NewReturns, RegisterJob, HeartbeatStops, Crash,
                  ShutDown, Exit, Retry, FailFinal, DeadSave, OnCancel, RetryFires, Submit,
                  Cancel, redis
  <2>2. QED
      BY <1>1, <2>1
\* Whoever takes a member out of the queue takes its lease.
<1>4. ASSUME NEW e \in queue, queue' = queue \ {e},
             \A u \in Tasks : u # e[1] => lease'[u] = lease[u]
      PROVE  Goal
  <2>1. PICK u \in Tasks, a \in Attempts : e = <<u, a>>
      BY <1>0
  <2>2. OnlySubmits(t)
      BY <1>4 DEF OnlySubmits
  <2>3. CASE u = t
      BY <1>4, <2>1, <2>2, <2>3 DEF KeepsLease
  <2>4. CASE u # t
      BY <1>0, <1>4, <2>1, <2>2, <2>4 DEF KeepsLease
  <2>5. QED
      BY <2>3, <2>4
<1>5. ASSUME NEW j \in Instances, Dequeue(j) \/ Drain(j) PROVE Goal
  <2>1. PICK e \in queue :
            /\ queue' = queue \ {e}
            /\ Delete(e[1]) \/ lease' = [lease EXCEPT ![e[1]] = j]
      BY <1>5 DEF Dequeue, Drain
  <2>2. \A u \in Tasks : u # e[1] => lease'[u] = lease[u]
      BY <1>0, <2>1 DEF Delete
  <2>3. QED
      BY <1>4, <2>1, <2>2
<1>6. ASSUME NEW j \in Instances, Finish(j) \/ DeadComplete(j) PROVE Goal
  <2>1. inst[j].run.task \in Tasks
      BY <1>6, <1>a, MemoryFields DEF Finish, DeadComplete, Busy, Copy, Copies
  <2>2. QED
      BY <1>2, <1>6, <2>1 DEF Finish, DeadComplete
\* Claim is SET NX: the lease it sets was free, and this one is not.
<1>7. ASSUME NEW j \in Instances, ClaimNext(j) PROVE Goal
  <2>1. PICK u : \/ lease[u] = Nil /\ lease' = [lease EXCEPT ![u] = j]
                 \/ UNCHANGED lease
      BY <1>7 DEF ClaimNext, Claimable
  <2>2. lease'[t] = i
      BY <1>0, <2>1
  <2>3. QED
      BY <1>7, <2>2 DEF ClaimNext, KeepsLease, OnlySubmits
<1>8. ASSUME NEW j \in Instances, SubmitEnqueue(j) PROVE Goal
  <2>1. inst[j].call # Nil /\ UNCHANGED lease
        /\ queue' \subseteq queue \union {<<inst[j].call.task, inst[j].call.att>>}
      BY <1>8 DEF SubmitEnqueue
  <2>2. KeepsLease(i, t)
      BY <1>0, <2>1 DEF KeepsLease
  <2>3. OnlySubmits(t)
      BY <2>1 DEF OnlySubmits
  <2>4. QED
      BY <2>2, <2>3
<1>9. ASSUME NEW j \in Instances, CancelFinish(j) PROVE Goal
  <2>1. inst[j].cancel[1] \in Tasks
      BY <1>9, <1>a, MemoryFields DEF CancelFinish
  <2>2. CompleteTask(inst[j].cancel[1]) \/ UNCHANGED redis
      BY <1>9, Zenon DEF CancelFinish
  <2>3. QED
      BY <1>1, <1>2, <2>1, <2>2 DEF redis
\* luaRecover looks at the lease of every id of the processing set.
<1>10. ASSUME NEW j \in Instances, RecoverOrphaned(j) PROVE Goal
  <2>1. t \notin Orphans
      BY <1>0 DEF Orphans
  <2>2. OnlySubmits(t)
      BY <1>10, <2>1 DEF RecoverOrphaned, OnlySubmits
  <2>3. QED
      BY <1>0, <1>10, <2>2 DEF RecoverOrphaned, KeepsLease
\* The lease of a healthy execution does not run out.
<1>11. ASSUME NEW u \in Tasks, LeaseExpires(u) PROVE Goal
  <2>1. u # t
      BY <1>0, <1>11 DEF LeaseExpires, Executes
  <2>2. QED
      BY <1>0, <1>11, <2>1 DEF LeaseExpires, KeepsLease, OnlySubmits
<1> HIDE DEF Goal
<1>12. QED
    BY <1>3, <1>5, <1>6, <1>7, <1>8, <1>9, <1>10, <1>11
       DEF Next, dequeueLoop, worker, cleanupLoop, main, calls, Goal

\* Leases: no step of any instance takes over a task whose holder renews the
\* lease, other than by taking a member of the queue that a Submit put there.
THEOREM LeaseKept == Spec => LeaseRespected
<1> DEFINE A == \A i \in Instances, t \in Tasks : Healthy(i, t) =>
                    /\ \/ lease'[t] = i
                       \/ inst'[i].run # inst[i].run
                       \/ body'[t] = Nil
                       \/ \E a \in Attempts : <<t, a>> \in queue \ queue'
                    /\ (\E a \in Attempts : <<t, a>> \in queue' \ queue) =>
                          \E j \in Instances : inst[j].call # Nil /\ inst[j].call.task = t
<1>1. Typed /\ [Next]_vars => [A]_vars
  <2>1. ASSUME Typed, Next PROVE A
      BY <2>1, LeaseStep DEF KeepsLease, OnlySubmits
  <2> HIDE DEF A
  <2>2. QED
      BY <2>1
<1>2. QED
    BY <1>1, AlwaysTyped, PTL DEF Spec, LeaseRespected
=============================================================================
