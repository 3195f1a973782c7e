----------------------------- MODULE PoolsProofs -----------------------------
(***************************************************************************)
(* The worker pools, for every number of pools, workers and callers of     *)
(* ScalePool: type correctness, no send on a closed queue, a ShutDown that *)
(* leaves no job behind, and pools that keep the workers they were asked   *)
(* to have.                                                                *)
(***************************************************************************)
EXTENDS Pools, FiniteSetTheorems, WellFoundedInduction, TLAPS

LoopPC == {"top", "pop", "dispatch", "send", "exited"}
Stages == {"no", "begun", "loops", "wait", "returned"}

\* Workers that a pool may be asked to have.
Wanted(p) == {None, 1, MaxWorkers, Configured[p]} \union 0 .. MaxScale

\* The pools, the loop and ShutDown.
QueuesTyped ==
    /\ poolQueues \in [Pools -> {"none", "open", "closed"}]
    /\ loop \in [pc : LoopPC, pool : Pools]
    /\ shut \in Stages

\* The workers, and those who hire and dismiss them.  New walks over pools that
\* are in the map, and a call of ScalePool under way has something left to do.
StaffTyped ==
    /\ poolWorkers \in [Pools -> Int] /\ \A p \in Pools : poolWorkers[p] \in Wanted(p)
    /\ poolControl \in [Pools -> {None} \union 0 .. ControlCap]
    /\ workers \in [Pools -> [Activities -> Nat]]
    /\ new \in [pc : {"default", "spawn"}, todo : SUBSET Pools]
    /\ \A p \in new.todo : poolWorkers[p] # None
    /\ scale \in [Scalers -> [pc : {"idle", "spawn", "push"}, pool : Pools, left : Nat]]
    /\ \A k \in Scalers : scale[k].pc # "idle" => scale[k].left # 0

Typed == QueuesTyped /\ StaffTyped

\* What the constants are, and that the names of things are different things.
LEMMA Constants ==
    /\ Default \in Pools /\ MaxWorkers \in Nat \ {0} /\ None = -1 /\ None \in Int
    /\ ControlCap \in Nat /\ MaxScale \in Nat
    /\ \A p \in Pools : Wanted(p) \subseteq Int /\ \A w \in Wanted(p) : w # None => w \in Nat
    /\ {"starting", "idle", "deaf", "busy"} = Activities
  BY PoolsAssumption DEF None, Wanted, Activities

\* Typed says at least what TypeOK says.
LEMMA TypedIsTypeOK == Typed => TypeOK
  BY Constants DEF Typed, QueuesTyped, StaffTyped, TypeOK, LoopPC, Stages, Wanted

\* The initial state is well typed.
LEMMA InitTyped == Init => Typed
<1> SUFFICES ASSUME Init PROVE Typed
    OBVIOUS
<1>1. QueuesTyped
    BY Constants DEF Init, QueuesTyped, LoopPC, Stages
<1>2. StaffTyped
    BY Constants, PoolsAssumption DEF Init, StaffTyped, NoCall, Wanted
<1>3. QED
    BY <1>1, <1>2 DEF Typed

\* Steps that hire or dismiss nobody and change neither the map nor a call.
LEMMA StaffUnchanged ==
    ASSUME StaffTyped, UNCHANGED staff
    PROVE  StaffTyped'
  BY DEF StaffTyped, staff, Wanted

\* New workers of a pool whose control channel is made with the first of them.
LEMMA SpawnTyped ==
    ASSUME StaffTyped, NEW p \in Pools, NEW n \in Nat, Spawn(p, n)
    PROVE  /\ poolControl' \in [Pools -> {None} \union 0 .. ControlCap]
           /\ workers' \in [Pools -> [Activities -> Nat]]
<1>1. workers[p]["starting"] + n \in Nat /\ "starting" \in Activities
    BY Constants DEF StaffTyped
<1>2. workers' \in [Pools -> [Activities -> Nat]]
    BY <1>1 DEF Spawn, StaffTyped
<1>3. poolControl' \in [Pools -> {None} \union 0 .. ControlCap]
    BY Constants DEF Spawn, StaffTyped
<1>4. QED
    BY <1>2, <1>3

\* A worker turns to something else, or leaves.
LEMMA MoveTyped ==
    ASSUME StaffTyped, NEW p \in Pools, NEW a \in Activities, NEW b \in Activities,
           workers[p][a] > 0
    PROVE  /\ Move(p, a, b) \in [Pools -> [Activities -> Nat]]
           /\ Leave(p, a) \in [Pools -> [Activities -> Nat]]
<1>1. workers[p] \in [Activities -> Nat] /\ workers[p][a] - 1 \in Nat
      /\ workers[p][b] \in Nat /\ workers[p][b] + 1 \in Nat
    BY DEF StaffTyped
<1>2. [workers[p] EXCEPT ![a] = @ - 1] \in [Activities -> Nat]
    BY <1>1
<1>3. [workers[p] EXCEPT ![a] = @ - 1][b] + 1 \in Nat
    BY <1>1
<1>4. QED
    BY <1>1, <1>2, <1>3 DEF Move, Leave, StaffTyped

\* A worker does something else, and nothing else changes.
LEMMA WorkersOnly ==
    ASSUME StaffTyped, UNCHANGED <<poolWorkers, poolControl, new, scale>>,
           workers' \in [Pools -> [Activities -> Nat]]
    PROVE  StaffTyped'
  BY DEF StaffTyped, Wanted

\* The loop goes on.
LEMMA GotoTyped ==
    ASSUME QueuesTyped, UNCHANGED <<poolQueues, shut>>, NEW pc \in LoopPC, Goto(pc)
    PROVE  QueuesTyped'
  BY DEF QueuesTyped, Goto

\* New keeps the types.
LEMMA NewTyped ==
    ASSUME Typed, newSteps
    PROVE  Typed'
<1>1. CASE NewDefault
  <2>1. QueuesTyped'
      BY <1>1, Constants DEF NewDefault, Typed, QueuesTyped, flags
  <2>2. poolWorkers' \in [Pools -> Int] /\ \A p \in Pools : poolWorkers'[p] \in Wanted(p)
      BY <1>1, Constants DEF NewDefault, Typed, StaffTyped, Wanted
  <2>3. new' \in [pc : {"default", "spawn"}, todo : SUBSET Pools]
        /\ \A p \in new'.todo : poolWorkers'[p] # None
      BY <1>1 DEF NewDefault
  <2>4. StaffTyped'
      BY <1>1, <2>2, <2>3 DEF NewDefault, Typed, StaffTyped, Wanted
  <2>5. QED
      BY <2>1, <2>4 DEF Typed
<1>2. ASSUME NEW p \in Pools, NewSpawn(p)
      PROVE  Typed'
  <2>1. QueuesTyped'
      BY <1>2 DEF NewSpawn, Typed, QueuesTyped, queues, flags
  <2>2. poolWorkers[p] \in Nat
      BY <1>2, Constants DEF NewSpawn, Typed, StaffTyped
  <2>3. poolControl' \in [Pools -> {None} \union 0 .. ControlCap]
        /\ workers' \in [Pools -> [Activities -> Nat]]
      BY <1>2, <2>2, SpawnTyped DEF NewSpawn, Typed
  <2>4. StaffTyped'
      BY <1>2, <2>3 DEF NewSpawn, Typed, StaffTyped, Wanted
  <2>5. QED
      BY <2>1, <2>4 DEF Typed
<1>3. QED
    BY <1>1, <1>2 DEF newSteps

\* The workers keep the types.
LEMMA WorkerTyped ==
    ASSUME Typed, NEW p \in Pools, worker(p)
    PROVE  Typed'
<1>1. UNCHANGED <<queues, poolWorkers, new, scale, flags>>
    BY DEF worker, WorkerStart, Finish, TakeToken, WorkerStops
<1>2. QueuesTyped'
    BY <1>1 DEF Typed, QueuesTyped, queues, flags
<1>3. CASE WorkerStart(p)
  <2>1. \E b \in Activities : workers' = Move(p, "starting", b)
      BY <1>3, Constants DEF WorkerStart
  <2>2. workers' \in [Pools -> [Activities -> Nat]]
      BY <1>3, <2>1, Constants, MoveTyped DEF WorkerStart, Typed
  <2>3. QED
      BY <1>2, <1>3, <2>2, WorkersOnly DEF WorkerStart, Typed
<1>4. CASE Finish(p)
  <2>1. workers' \in [Pools -> [Activities -> Nat]]
      BY <1>4, Constants, MoveTyped DEF Finish, Typed
  <2>2. QED
      BY <1>2, <1>4, <2>1, WorkersOnly DEF Finish, Typed
<1>5. ASSUME NEW a \in Activities, TakeToken(p, a)
      PROVE  Typed'
  <2>1. workers' \in [Pools -> [Activities -> Nat]]
      BY <1>5, MoveTyped DEF TakeToken, Typed
  <2>2. poolControl' \in [Pools -> {None} \union 0 .. ControlCap]
      BY <1>5, Constants DEF TakeToken, Typed, StaffTyped
  <2>3. StaffTyped'
      BY <1>1, <2>1, <2>2 DEF Typed, StaffTyped, Wanted
  <2>4. QED
      BY <1>2, <2>3 DEF Typed
<1>6. ASSUME NEW a \in Activities, WorkerStops(p, a)
      PROVE  Typed'
  <2>1. workers' \in [Pools -> [Activities -> Nat]]
      BY <1>6, MoveTyped DEF WorkerStops, Typed
  <2>2. QED
      BY <1>2, <1>6, <2>1, WorkersOnly DEF WorkerStops, Typed
<1>7. QED
    BY <1>3, <1>4, <1>5, <1>6 DEF worker

\* dequeueLoop keeps the types.
LEMMA LoopTyped ==
    ASSUME Typed, dequeueLoop
    PROVE  Typed'
<1> USE DEF Typed
<1>1. CASE Look
    BY <1>1, GotoTyped, StaffUnchanged DEF Look, flags, LoopPC
<1>2. ASSUME NEW p \in Pools, Pop(p)
      PROVE  Typed'
  <2>1. QueuesTyped'
      BY <1>2 DEF Pop, QueuesTyped, flags, LoopPC
  <2>2. QED
      BY <1>2, <2>1, StaffUnchanged DEF Pop
<1>3. CASE PopNothing
    BY <1>3, GotoTyped, StaffUnchanged DEF PopNothing, flags, LoopPC
<1>4. CASE Dispatch
  <2> DEFINE p == loop.pool
  <2>1. p \in Pools
      BY DEF QueuesTyped
  <2>2. loop' \in [pc : LoopPC, pool : Pools] /\ shut' \in Stages
      BY <1>4 DEF Dispatch, QueuesTyped, Goto, LoopPC, flags
  <2>3. CASE poolQueues[p] # "none"
    <3>1. UNCHANGED <<poolQueues, staff>>
        BY <1>4, <2>3 DEF Dispatch, staff
    <3>2. QED
        BY <2>2, <3>1, StaffUnchanged DEF QueuesTyped
  <2>4. CASE poolQueues[p] = "none"
    <3>1. /\ poolQueues' = [poolQueues EXCEPT ![p] = "open"]
          /\ poolWorkers' = [poolWorkers EXCEPT ![p] = 1]
          /\ Spawn(p, 1) /\ UNCHANGED scale
          /\ new' = new \/ new' = [new EXCEPT !.todo = @ \union {p}]
        BY <1>4, <2>4 DEF Dispatch
    <3> HIDE DEF p
    <3>2. poolControl' \in [Pools -> {None} \union 0 .. ControlCap]
          /\ workers' \in [Pools -> [Activities -> Nat]]
        BY <2>1, <3>1, SpawnTyped
    <3>3. poolWorkers' \in [Pools -> Int] /\ \A q \in Pools : poolWorkers'[q] \in Wanted(q)
        BY <2>1, <3>1 DEF StaffTyped, Wanted
    <3>4. new' \in [pc : {"default", "spawn"}, todo : SUBSET Pools]
        BY <2>1, <3>1 DEF StaffTyped
    <3>5. ASSUME NEW q \in new'.todo
          PROVE  poolWorkers'[q] # None
        BY <2>1, <3>1, <3>4, Constants DEF StaffTyped
    <3>6. StaffTyped'
        BY <3>1, <3>2, <3>3, <3>4, <3>5 DEF StaffTyped, Wanted
    <3>7. QED
        BY <2>1, <2>2, <3>1, <3>6 DEF QueuesTyped
  <2>5. QED
      BY <2>3, <2>4
<1>5. CASE Send
  <2>1. QueuesTyped'
      BY <1>5, GotoTyped DEF Send, flags, LoopPC
  <2>2. workers' \in [Pools -> [Activities -> Nat]]
      BY <1>5, Constants, MoveTyped DEF Send, QueuesTyped
  <2>3. QED
      BY <1>5, <2>1, <2>2, WorkersOnly DEF Send
<1>6. CASE SendStopped
    BY <1>6, GotoTyped, StaffUnchanged DEF SendStopped, flags, LoopPC
<1>7. QED
    BY <1>1, <1>2, <1>3, <1>4, <1>5, <1>6 DEF dequeueLoop

\* What ScalePool is asked for ends up between 0 and the limit.
LEMMA ClampRange ==
    ASSUME NEW n \in Int
    PROVE  Clamp(n) \in 0 .. MaxScale
  BY Constants DEF Clamp

\* A pool that is not in the map has no workers.
LEMMA CurrentType ==
    ASSUME StaffTyped, NEW p \in Pools
    PROVE  Current(p) \in Nat
  BY Constants DEF StaffTyped, Current

\* A call of ScalePool is made by a goroutine that makes no other.
LEMMA CallerIdle ==
    ASSUME NEW k, Idle # {}, k = Caller
    PROVE  k \in Scalers /\ scale[k] = NoCall
  BY DEF Idle, Caller

\* ScalePool's first critical section keeps the types.
LEMMA ScaleSetTyped ==
    ASSUME Typed, NEW k \in Scalers, NEW p \in Scaled, NEW n \in Int, ScaleSet(k, p, n)
    PROVE  Typed'
<1> DEFINE m == Clamp(n)
           c == Current(p)
<1>1. p \in Pools
    BY PoolsAssumption
<1>2. m \in 0 .. MaxScale /\ m \in Nat /\ c \in Nat
    BY <1>1, ClampRange, CurrentType, Constants DEF Typed
<1>3. scale[k] = NoCall
    BY CallerIdle DEF ScaleSet
<1> HIDE DEF m, c
<1>4. \/ scale' = [scale EXCEPT ![k] = [pc |-> "spawn", pool |-> p, left |-> m - c]] /\ m > c
      \/ scale' = [scale EXCEPT ![k] = [pc |-> "push", pool |-> p, left |-> c - m]] /\ c > m
      \/ scale' = scale
  <2> DEFINE call == CASE m > c -> [pc |-> "spawn", pool |-> p, left |-> m - c]
                       [] m < c -> [pc |-> "push", pool |-> p, left |-> c - m]
                       [] OTHER -> scale[k]
  <2>1. scale' = [scale EXCEPT ![k] = call]
      BY DEF ScaleSet, m, c
  <2>2. CASE m > c
    <3>1. call = [pc |-> "spawn", pool |-> p, left |-> m - c]
        BY <1>2, <2>2
    <3>2. QED
        BY <2>1, <2>2, <3>1
  <2>3. CASE m < c
    <3>1. call = [pc |-> "push", pool |-> p, left |-> c - m]
        BY <1>2, <2>3
    <3>2. c > m
        BY <1>2, <2>3
    <3>3. QED
        BY <2>1, <3>1, <3>2
  <2>4. CASE m = c
    <3>1. call = scale[k]
        BY <1>2, <2>4
    <3>2. QED
        BY <2>1, <3>1 DEF Typed, StaffTyped
  <2>5. QED
      BY <1>2, <2>2, <2>3, <2>4
<1>5. scale' \in [Scalers -> [pc : {"idle", "spawn", "push"}, pool : Pools, left : Nat]]
  <2>1. (m > c => m - c \in Nat) /\ (c > m => c - m \in Nat)
      BY <1>2
  <2>2. scale \in [Scalers -> [pc : {"idle", "spawn", "push"}, pool : Pools, left : Nat]]
      BY DEF Typed, StaffTyped
  <2>3. QED
      BY <1>1, <1>4, <2>1, <2>2
<1>6. \A j \in Scalers : scale'[j].pc # "idle" => scale'[j].left # 0
    BY <1>2, <1>4 DEF Typed, StaffTyped
<1>7. poolWorkers' = [poolWorkers EXCEPT ![p] = m]
      /\ UNCHANGED <<loop, poolControl, workers, new, shut>>
    BY DEF ScaleSet, m, flags
<1>8. poolWorkers' \in [Pools -> Int] /\ \A q \in Pools : poolWorkers'[q] \in Wanted(q)
    BY <1>1, <1>2, <1>7, Constants DEF Typed, StaffTyped, Wanted
<1>9. \A q \in new'.todo : poolWorkers'[q] # None
    BY <1>1, <1>2, <1>7, Constants DEF Typed, StaffTyped
<1>10. StaffTyped'
    BY <1>5, <1>6, <1>7, <1>8, <1>9 DEF Typed, StaffTyped, Wanted
<1>11. QueuesTyped'
    BY <1>1, <1>7 DEF ScaleSet, Typed, QueuesTyped
<1>12. QED
    BY <1>10, <1>11 DEF Typed

\* The rest of ScalePool keeps the types.
LEMMA ScaleStepsTyped ==
    ASSUME Typed, NEW k \in Scalers, scaleSteps(k)
    PROVE  Typed'
<1>1. UNCHANGED <<queues, poolWorkers, new, flags>>
    BY DEF scaleSteps, ScaleSpawn, ScalePush
<1>2. QueuesTyped'
    BY <1>1 DEF Typed, QueuesTyped, queues, flags
<1> DEFINE p == scale[k].pool
           n == scale[k].left
           Call == [pc : {"idle", "spawn", "push"}, pool : Pools, left : Nat]
<1>3. p \in Pools /\ n \in Nat /\ NoCall \in Call /\ NoCall.pc = "idle"
    BY Constants DEF Typed, StaffTyped, NoCall
<1>4. CASE ScaleSpawn(k)
  <2>1. poolControl' \in [Pools -> {None} \union 0 .. ControlCap]
        /\ workers' \in [Pools -> [Activities -> Nat]]
      BY <1>3, <1>4, SpawnTyped DEF ScaleSpawn, Typed
  <2>2. scale' \in [Scalers -> Call]
        /\ \A j \in Scalers : scale'[j].pc # "idle" => scale'[j].left # 0
      BY <1>3, <1>4 DEF ScaleSpawn, Returns, Typed, StaffTyped
  <2>3. StaffTyped'
      BY <1>1, <2>1, <2>2 DEF Typed, StaffTyped, Wanted
  <2>4. QED
      BY <1>2, <2>3 DEF Typed
<1>5. CASE ScalePush(k)
  <2>1. poolControl' \in [Pools -> {None} \union 0 .. ControlCap]
    <3>1. poolControl' = [poolControl EXCEPT ![p] =
                            IF poolControl[p] \in {None, ControlCap} THEN @ ELSE @ + 1]
        BY <1>5 DEF ScalePush
    <3>2. poolControl \in [Pools -> {None} \union 0 .. ControlCap]
        BY DEF Typed, StaffTyped
    <3>3. ASSUME poolControl[p] \notin {None, ControlCap}
          PROVE  poolControl[p] + 1 \in 0 .. ControlCap
        BY <1>3, <3>2, <3>3, Constants
    <3> HIDE DEF p
    <3>4. QED
        BY <1>3, <3>1, <3>2, <3>3
  <2>2. \/ scale' = [scale EXCEPT ![k] = NoCall]
        \/ n # 1 /\ scale' = [scale EXCEPT ![k].left = @ - 1]
      BY <1>5 DEF ScalePush, Returns
  <2>3. n # 0
      BY <1>5 DEF ScalePush, Typed, StaffTyped
  <2>4. scale' \in [Scalers -> Call]
        /\ \A j \in Scalers : scale'[j].pc # "idle" => scale'[j].left # 0
    <3>1. scale \in [Scalers -> Call] /\ \A j \in Scalers : scale[j].pc # "idle" => scale[j].left # 0
        BY DEF Typed, StaffTyped
    <3>2. CASE scale' = [scale EXCEPT ![k] = NoCall]
        BY <1>3, <3>1, <3>2
    <3>3. CASE n # 1 /\ scale' = [scale EXCEPT ![k].left = @ - 1]
      <4>1. n - 1 \in Nat \ {0}
          BY <1>3, <2>3, <3>3
      <4>2. [scale[k] EXCEPT !.left = n - 1] \in Call
          BY <3>1, <4>1
      <4>3. scale' = [scale EXCEPT ![k] = [scale[k] EXCEPT !.left = n - 1]]
          BY <3>1, <3>3
      <4>4. [scale[k] EXCEPT !.left = n - 1].left # 0
          BY <3>1, <4>1
      <4>5. QED
          BY <3>1, <4>2, <4>3, <4>4
    <3>4. QED
        BY <2>2, <3>2, <3>3
  <2>5. StaffTyped'
      BY <1>1, <1>5, <2>1, <2>4 DEF ScalePush, Typed, StaffTyped, Wanted
  <2>6. QED
      BY <1>2, <2>5 DEF Typed
<1>6. QED
    BY <1>4, <1>5 DEF scaleSteps

\* Every step keeps the types.
LEMMA NextTyped ==
    ASSUME Typed, [Next]_vars
    PROVE  Typed'
<1>1. CASE newSteps
    BY <1>1, NewTyped
<1>2. CASE dequeueLoop
    BY <1>2, LoopTyped
<1>3. CASE TickerStops
    BY <1>3, StaffUnchanged DEF TickerStops, Typed, QueuesTyped, flags
<1>4. CASE shutDownSteps
  <2>1. QueuesTyped' /\ UNCHANGED staff
      BY <1>4 DEF shutDownSteps, CloseStop, CloseQueues, ClosePools, WaitDone, WaitTimesOut,
                  Typed, QueuesTyped, Stages, queues
  <2>2. QED
      BY <2>1, StaffUnchanged DEF Typed
<1>5. CASE Pause \/ Resume \/ ShutDown
  <2>1. QueuesTyped' /\ UNCHANGED staff
      BY <1>5 DEF Pause, Resume, ShutDown, Typed, QueuesTyped, Stages, queues
  <2>2. QED
      BY <2>1, StaffUnchanged DEF Typed
<1>6. ASSUME NEW p \in Pools, worker(p)
      PROVE  Typed'
    BY <1>6, WorkerTyped
<1>7. ASSUME NEW p \in Pools, Submit(p)
      PROVE  Typed'
    BY <1>7, StaffUnchanged DEF Submit, Typed, QueuesTyped, flags
<1>8. ASSUME NEW k \in Scalers, scaleSteps(k)
      PROVE  Typed'
    BY <1>8, ScaleStepsTyped
<1>9. ASSUME NEW k \in Scalers, NEW p \in Scaled, NEW n \in -1 .. MaxScale + 1, ScaleSet(k, p, n)
      PROVE  Typed'
    BY <1>9, ScaleSetTyped, Constants
<1>10. CASE UNCHANGED vars
    BY <1>10, StaffUnchanged DEF vars, Typed, QueuesTyped, queues, flags
<1>11. QED
    BY <1>1, <1>2, <1>3, <1>4, <1>5, <1>6, <1>7, <1>8, <1>9, <1>10 DEF Next

\* Typed is an invariant.
LEMMA AlwaysTyped == Spec => []Typed
<1>1. Init => Typed
    BY InitTyped
<1>2. Typed /\ [Next]_vars => Typed'
    BY NextTyped
<1>3. QED
    BY <1>1, <1>2, PTL DEF Spec

\* Every reachable state is well typed: no control channel ever holds more than
\* its capacity, no count of workers goes below zero, and no pool is asked to have
\* more workers than the limit of ScalePool unless an option said so.
THEOREM TypeCorrect == Spec => []TypeOK
  BY AlwaysTyped, TypedIsTypeOK, PTL

-----------------------------------------------------------------------------
(* ShutDown against dequeueLoop *)

\* ShutDown goes on once, closes the queues only when the loop has left for good, the loop has
\* found or made the queue it sends on, and once ShutDown has returned in time
\* nobody is busy and nobody is left who could hand out work.
Orderly ==
    /\ shut # "no" => stopped
    /\ (\E p \in Pools : poolQueues[p] = "closed") => shut \in {"wait", "returned"}
    /\ shut \in {"wait", "returned"} => loop.pc = "exited"
    /\ loop.pc = "send" => poolQueues[loop.pool] # "none"
    /\ shut = "returned" /\ ~timedOut => \A p \in Pools : workers[p]["busy"] = 0

\* Orderly is what the two properties need.
LEMMA OrderlyIsSafe ==
    ASSUME Typed, Orderly
    PROVE  NoSendOnClosed /\ CleanReturn
<1>1. NoSendOnClosed
    BY DEF Typed, QueuesTyped, Orderly, NoSendOnClosed
<1>2. CleanReturn
    BY DEF Orderly, CleanReturn
<1>3. QED
    BY <1>1, <1>2

\* Steps that leave the queues, the loop, ShutDown and the jobs alone.
LEMMA OrderlyUnchanged ==
    ASSUME Typed, Orderly, UNCHANGED <<poolQueues, loop, stopped, shut, timedOut>>,
           \A p \in Pools : workers[p]["busy"] = 0 => workers'[p]["busy"] = 0
    PROVE  Orderly'
  BY DEF Orderly

\* Workers that are hired are not busy yet.
LEMMA SpawnIdle ==
    ASSUME Typed, NEW p \in Pools, NEW n, Spawn(p, n), NEW q \in Pools
    PROVE  workers'[q]["busy"] = workers[q]["busy"]
  BY DEF Spawn, Typed, StaffTyped, Activities

\* A worker that stops doing one thing does not become busy, unless by Send.
LEMMA MoveIdle ==
    ASSUME Typed, NEW p \in Pools, NEW a \in Activities, NEW b \in Activities \ {"busy"},
           workers[p][a] > 0, workers' = Move(p, a, b) \/ workers' = Leave(p, a),
           NEW q \in Pools, workers[q]["busy"] = 0
    PROVE  workers'[q]["busy"] = 0
<1>1. workers[p] \in [Activities -> Nat] /\ "busy" \in Activities
    BY Constants DEF Typed, StaffTyped
<1>2. workers'[q] \in {workers[q], [workers[q] EXCEPT ![a] = @ - 1],
                       [workers[q] EXCEPT ![a] = @ - 1, ![b] = @ + 1]}
      /\ (workers'[q] # workers[q] => p = q)
    BY DEF Move, Leave, Typed, StaffTyped
<1>3. workers'[q] # workers[q] => a # "busy"
    BY <1>2
<1>4. QED
    BY <1>1, <1>2, <1>3

\* dequeueLoop keeps order: it is the only one to make a worker busy, and it
\* does nothing once it has left.
LEMMA LoopOrderly ==
    ASSUME Typed, Orderly, dequeueLoop
    PROVE  Orderly'
<1>1. loop.pc # "exited" /\ UNCHANGED <<stopped, shut, timedOut>>
    BY DEF dequeueLoop, Look, Pop, PopNothing, Dispatch, Send, SendStopped, flags
<1>2. shut \notin {"wait", "returned"} /\ \A p \in Pools : poolQueues[p] # "closed"
    BY <1>1 DEF Orderly
<1>3. \A p \in Pools : poolQueues'[p] # "closed"
    BY <1>2 DEF dequeueLoop, Look, Pop, PopNothing, Dispatch, Send, SendStopped,
                Typed, QueuesTyped
<1>4. loop'.pc = "send" => poolQueues'[loop'.pool] # "none"
    BY DEF dequeueLoop, Look, Pop, PopNothing, Dispatch, Send, SendStopped, Goto,
           Typed, QueuesTyped
<1>5. QED
    BY <1>1, <1>2, <1>3, <1>4 DEF Orderly

\* ShutDown keeps order: it waits for the loop, and for the workers.
LEMMA ShutOrderly ==
    ASSUME Typed, Orderly, shutDownSteps \/ ShutDown
    PROVE  Orderly'
<1>1. CASE ShutDown
    BY <1>1 DEF ShutDown, Orderly, queues, staff
<1>2. CASE CloseStop
    BY <1>2 DEF CloseStop, Orderly, queues, staff
<1>3. CASE CloseQueues
  <2>1. loop'.pc = "exited" /\ shut' = "wait" /\ stopped'
      BY <1>3 DEF CloseQueues, Orderly
  <2>2. QED
      BY <2>1 DEF Orderly
<1>4. CASE WaitDone
  <2>1. \A p \in Pools : workers[p]["busy"] = 0
    <3>1. ASSUME NEW p \in Pools
          PROVE  workers[p]["busy"] = 0
      <4>1. \A a \in Activities : workers[p][a] \in Nat
          BY DEF Typed, StaffTyped
      <4>2. Alive(p) = 0
          BY <1>4 DEF WaitDone
      <4>3. QED
          BY <4>1, <4>2, Constants DEF Alive
    <3>2. QED
        BY <3>1
  <2>2. QED
      BY <1>4, <2>1 DEF WaitDone, Orderly, queues, staff
<1>5. CASE WaitTimesOut
    BY <1>5 DEF WaitTimesOut, Orderly, queues, staff
<1>6. QED
    BY <1>1, <1>2, <1>3, <1>4, <1>5 DEF shutDownSteps

\* Every step keeps order.
LEMMA NextOrderly ==
    ASSUME Typed, Orderly, [Next]_vars
    PROVE  Orderly'
<1>1. CASE NewDefault
    BY <1>1, Constants DEF NewDefault, Orderly, Typed, QueuesTyped, flags
<1>2. ASSUME NEW p \in Pools, NewSpawn(p)
      PROVE  Orderly'
    BY <1>2, SpawnIdle, OrderlyUnchanged DEF NewSpawn, queues, flags
<1>3. CASE dequeueLoop
    BY <1>3, LoopOrderly
<1>4. CASE TickerStops
    BY <1>4, OrderlyUnchanged DEF TickerStops, staff, flags
<1>5. CASE shutDownSteps \/ ShutDown
    BY <1>5, ShutOrderly
<1>6. CASE Pause \/ Resume
    BY <1>6, OrderlyUnchanged DEF Pause, Resume, queues, staff
<1>7. ASSUME NEW p \in Pools, worker(p)
      PROVE  Orderly'
  <2>1. UNCHANGED <<poolQueues, loop, stopped, shut, timedOut>>
      BY <1>7 DEF worker, WorkerStart, Finish, TakeToken, WorkerStops, queues, flags
  <2>2. \E a \in Activities, b \in Activities \ {"busy"} :
           workers[p][a] > 0 /\ (workers' = Move(p, a, b) \/ workers' = Leave(p, a))
    <3>1. {"idle", "deaf"} \subseteq Activities \ {"busy"} /\ {"starting", "busy"} \subseteq Activities
        BY DEF Activities
    <3>2. CASE WorkerStart(p)
        BY <3>1, <3>2 DEF WorkerStart
    <3>3. CASE Finish(p)
        BY <3>1, <3>3 DEF Finish
    <3>4. ASSUME NEW a \in Activities, TakeToken(p, a) \/ WorkerStops(p, a)
          PROVE  workers[p][a] > 0 /\ workers' = Leave(p, a)
        BY <3>4 DEF TakeToken, WorkerStops
    <3>5. QED
        BY <1>7, <3>1, <3>2, <3>3, <3>4 DEF worker
  <2>3. QED
      BY <2>1, <2>2, MoveIdle, OrderlyUnchanged
<1>8. ASSUME NEW p \in Pools, Submit(p)
      PROVE  Orderly'
    BY <1>8, OrderlyUnchanged DEF Submit, staff, flags
<1>9. ASSUME NEW k \in Scalers, ScaleSpawn(k)
      PROVE  Orderly'
  <2>1. scale[k].pool \in Pools
      BY DEF Typed, StaffTyped
  <2>2. QED
      BY <1>9, <2>1, SpawnIdle, OrderlyUnchanged DEF ScaleSpawn, queues, flags
<1>10. ASSUME NEW k \in Scalers, ScalePush(k)
       PROVE  Orderly'
    BY <1>10, OrderlyUnchanged DEF ScalePush, queues, flags
<1>11. ASSUME NEW k \in Scalers, NEW p \in Scaled, NEW n \in -1 .. MaxScale + 1, ScaleSet(k, p, n)
       PROVE  Orderly'
    BY <1>11, PoolsAssumption DEF ScaleSet, Orderly, Typed, QueuesTyped, flags
<1>12. CASE UNCHANGED vars
    BY <1>12, OrderlyUnchanged DEF vars, queues, staff, flags
<1>13. QED
    BY <1>1, <1>2, <1>3, <1>4, <1>5, <1>6, <1>7, <1>8, <1>9, <1>10, <1>11, <1>12
    DEF Next, newSteps, scaleSteps

\* Orderly is an invariant.
LEMMA AlwaysOrderly == Spec => []Orderly
<1>1. Init => Orderly
    BY DEF Init, Orderly
<1>2. Typed /\ Orderly /\ [Next]_vars => Orderly'
    BY NextOrderly
<1>3. QED
    BY <1>1, <1>2, AlwaysTyped, PTL DEF Spec

\* For any number of pools, tasks and callers, dispatchTask never sends on a
\* queue that ShutDown has closed.
THEOREM NeverSendsOnClosed == Spec => []NoSendOnClosed
  BY AlwaysTyped, AlwaysOrderly, OrderlyIsSafe, PTL

\* A ShutDown that returns in time has left no job running, whatever ScalePool,
\* Submit and dispatchTask did meanwhile, and none is started afterwards.
THEOREM ReturnsClean == Spec => []CleanReturn
  BY AlwaysTyped, AlwaysOrderly, OrderlyIsSafe, PTL

-----------------------------------------------------------------------------
(* Sums *)

\* Every set of natural numbers that is not empty has a least element: the
\* form of induction that the proofs about sums use.
LEMMA LeastNatural ==
    ASSUME NEW T \in SUBSET Nat, T # {}
    PROVE  \E x \in T : \A y \in T : x <= y
<1> DEFINE R == OpToRel(<, Nat)
<1>1. \A x, y \in Nat : <<y, x>> \in R <=> y < x
    BY DEF OpToRel
<1>2. IsWellFoundedOn(R, Nat)
    BY NatLessThanWellFounded
<1> HIDE DEF R
<1>3. PICK x \in T : \A y \in T : ~ (<<y, x>> \in R)
    BY <1>2, WFMin
<1>4. \A y \in T : ~ (y < x)
    BY <1>1, <1>3
<1>5. QED
    BY <1>4

\* The element that SumFunction adds first.
First(s) == CHOOSE x \in s : TRUE

\* The equation that the sums of f over the subsets of S obey.
Sums(it, f, S) ==
    it = [s \in SUBSET S |-> IF s = {} THEN 0 ELSE f[First(s)] + it[s \ {First(s)}]]

\* First picks an element.
LEMMA FirstIn ==
    ASSUME NEW s, s # {}
    PROVE  First(s) \in s
  BY Zenon DEF First

\* Without one of its elements a finite set is smaller.
LEMMA Smaller ==
    ASSUME NEW S, IsFiniteSet(S), NEW s \in SUBSET S, NEW x \in s
    PROVE  /\ Cardinality(s) \in Nat \ {0} /\ s \ {x} \in SUBSET S
           /\ Cardinality(s \ {x}) = Cardinality(s) - 1
<1>1. IsFiniteSet(s)
    BY FS_Subset
<1>2. Cardinality(s) \in Nat /\ Cardinality(s) # 0
    BY <1>1, FS_CardinalityType, FS_EmptySet
<1>3. QED
    BY <1>1, <1>2, FS_RemoveElement

\* If the equation has a solution, SumFunction is what it says of all of S.
LEMMA SumUnfolds ==
    ASSUME NEW f, \E it : Sums(it, f, DOMAIN f)
    PROVE  \E it : Sums(it, f, DOMAIN f) /\ SumFunction(f) = it[DOMAIN f]
<1> DEFINE it == CHOOSE it : Sums(it, f, DOMAIN f)
<1>1. SumFunction(f) = it[DOMAIN f]
    BY Zenon DEF SumFunction, SumFunctionOnSet, FoldFunctionOnSet, MapThenFoldSet, Sums, First
<1>2. Sums(it, f, DOMAIN f)
    OBVIOUS
<1>3. QED
    BY <1>1, <1>2

\* It has one: solve it for the subsets with at most n elements, for every n.
LEMMA SumsExist ==
    ASSUME NEW S, IsFiniteSet(S), NEW f \in [S -> Int]
    PROVE  \E it : Sums(it, f, S) /\ it \in [SUBSET S -> Int]
<1> DEFINE Add(it, s) == IF s = {} THEN 0 ELSE f[First(s)] + it[s \ {First(s)}]
           Solves(it, n) == \A s \in SUBSET S : Cardinality(s) <= n => it[s] = Add(it, s)
           Unsolved == {n \in Nat : \A it \in [SUBSET S -> Int] : ~Solves(it, n)}
<1>1. ASSUME NEW it \in [SUBSET S -> Int], NEW s \in SUBSET S
      PROVE  Add(it, s) \in Int
    BY FirstIn
<1>2. 0 \notin Unsolved
  <2> DEFINE it == [s \in SUBSET S |-> 0]
  <2>1. ASSUME NEW s \in SUBSET S, Cardinality(s) <= 0
        PROVE  s = {}
    <3>1. \A x \in s : Cardinality(s) \in Nat \ {0}
        BY Smaller
    <3>2. ~(Cardinality(s) \in Nat \ {0})
        BY <2>1
    <3>3. QED
        BY <3>1, <3>2
  <2>2. Solves(it, 0)
      BY <2>1
  <2>3. it \in [SUBSET S -> Int]
      OBVIOUS
  <2>4. QED
      BY <2>2, <2>3
<1>3. ASSUME NEW n \in Nat, n \notin Unsolved
      PROVE  n + 1 \notin Unsolved
  <2>1. PICK g \in [SUBSET S -> Int] : Solves(g, n)
      BY <1>3
  <2> DEFINE it == [s \in SUBSET S |-> IF Cardinality(s) = n + 1 THEN Add(g, s) ELSE g[s]]
  <2>2. it \in [SUBSET S -> Int]
      BY <1>1
  <2>3. ASSUME NEW s \in SUBSET S, Cardinality(s) <= n + 1
        PROVE  it[s] = Add(it, s)
    <3>1. CASE s = {}
      <4>1. Cardinality(s) = 0
          BY <3>1, FS_EmptySet
      <4>2. it[s] = g[s] /\ g[s] = Add(g, s)
          BY <2>1, <4>1
      <4>3. QED
          BY <3>1, <4>2
    <3>2. CASE s # {}
      <4> DEFINE x == First(s)
                 r == s \ {x}
      <4>1. Cardinality(s) \in Nat /\ r \in SUBSET S /\ Cardinality(r) = Cardinality(s) - 1
          BY <3>2, FirstIn, Smaller
      <4>2. it[r] = g[r]
          BY <2>3, <4>1
      <4>3. Add(it, s) = Add(g, s)
          BY <3>2, <4>2
      <4>4. it[s] = Add(g, s)
        <5>1. CASE Cardinality(s) = n + 1
            BY <5>1
        <5>2. CASE Cardinality(s) # n + 1
          <6>1. Cardinality(s) <= n
              BY <2>3, <4>1, <5>2
          <6>2. QED
              BY <2>1, <5>2, <6>1
        <5>3. QED
            BY <5>1, <5>2
      <4>5. QED
          BY <4>3, <4>4
    <3>3. QED
        BY <3>1, <3>2
  <2>4. Solves(it, n + 1)
      BY <2>3
  <2> HIDE DEF it, Solves
  <2>5. QED
      BY <2>2, <2>4
<1>4. Unsolved = {}
  <2>1. SUFFICES ASSUME Unsolved # {}
                 PROVE  FALSE
      OBVIOUS
  <2>2. Unsolved \in SUBSET Nat
      OBVIOUS
  <2> HIDE DEF Unsolved
  <2>3. PICK n \in Unsolved : \A m \in Unsolved : n <= m
      BY <2>1, <2>2, LeastNatural
  <2>4. n \in Nat /\ n # 0
      BY <1>2, <2>2, <2>3
  <2>5. n - 1 \in Nat /\ (n - 1) + 1 = n /\ ~(n <= n - 1)
      BY <2>4
  <2>6. n - 1 \notin Unsolved
      BY <2>3, <2>5
  <2>7. QED
      BY <1>3, <2>3, <2>5, <2>6
<1>5. Cardinality(S) \in Nat
    BY FS_CardinalityType
<1>6. PICK it \in [SUBSET S -> Int] : Solves(it, Cardinality(S))
    BY <1>4, <1>5
<1>7. \A s \in SUBSET S : it[s] = Add(it, s)
    BY <1>6, FS_Subset
<1>8. it = [s \in SUBSET S |-> Add(it, s)]
    BY <1>7
<1>9. QED
    BY <1>6, <1>8 DEF Sums

\* The order in which the elements are added does not matter: any element of s
\* may be the one that is added last.
LEMMA SumsCommute ==
    ASSUME NEW S, IsFiniteSet(S), NEW f \in [S -> Int], NEW it, Sums(it, f, S),
           NEW s \in SUBSET S
    PROVE  it[s] \in Int /\ \A k \in s : it[s] = f[k] + it[s \ {k}]
<1> DEFINE Good(r) == it[r] \in Int /\ \A k \in r : it[r] = f[k] + it[r \ {k}]
           Bad == {n \in Nat : \E r \in SUBSET S : Cardinality(r) = n /\ ~Good(r)}
<1>1. SUFFICES ASSUME Bad # {}
               PROVE  FALSE
  <2>1. Cardinality(s) \in Nat
      BY FS_Subset, FS_CardinalityType
  <2>2. QED
      BY <1>1, <2>1
<1>2. PICK n \in Bad : \A m \in Bad : n <= m
  <2>1. Bad \in SUBSET Nat
      OBVIOUS
  <2> HIDE DEF Bad
  <2>2. QED
      BY <1>1, <2>1, LeastNatural
<1>3. PICK r \in SUBSET S : Cardinality(r) = n /\ ~Good(r)
    BY <1>2
<1>4. ASSUME NEW x \in r
      PROVE  Good(r \ {x})
  <2>1. n \in Nat \ {0} /\ r \ {x} \in SUBSET S /\ Cardinality(r \ {x}) = n - 1
      BY <1>3, Smaller
  <2>2. n - 1 \in Nat /\ ~(n <= n - 1)
      BY <2>1
  <2>3. n - 1 \notin Bad
      BY <1>2, <2>2
  <2> HIDE DEF Good
  <2>4. QED
      BY <2>1, <2>2, <2>3
<1>5. it[r] = IF r = {} THEN 0 ELSE f[First(r)] + it[r \ {First(r)}]
    BY DEF Sums
<1>6. r # {}
    BY <1>3, <1>5
<1> DEFINE x == First(r)
<1>7. x \in r /\ it[r] = f[x] + it[r \ {x}] /\ it[r \ {x}] \in Int /\ f[x] \in Int
    BY <1>4, <1>5, <1>6, FirstIn
<1> HIDE DEF x
<1>8. ASSUME NEW k \in r
      PROVE  it[r] = f[k] + it[r \ {k}]
  <2>1. CASE k = x
      BY <1>7, <2>1
  <2>2. CASE k # x
    <3>1. it[r \ {x}] = f[k] + it[(r \ {x}) \ {k}]
        BY <1>4, <1>7, <2>2
    <3>2. it[r \ {k}] = f[x] + it[(r \ {k}) \ {x}]
        BY <1>4, <1>7, <2>2
    <3>3. (r \ {x}) \ {k} = (r \ {k}) \ {x}
        OBVIOUS
    <3>4. it[r \ {k}] \in Int /\ f[k] \in Int
        BY <1>4
    <3>5. it[(r \ {x}) \ {k}] \in Int
      <4>1. Good(r \ {x}) /\ k \in r \ {x}
          BY <1>4, <1>7, <2>2
      <4>2. Cardinality(r) \in Nat \ {0} /\ Cardinality(r \ {x}) = n - 1 /\ r \ {x} \in SUBSET S
          BY <1>3, <1>7, Smaller
      <4> DEFINE q == r \ {x}
      <4>3. Cardinality(q) \in Nat \ {0} /\ q \ {k} \in SUBSET S
            /\ Cardinality(q \ {k}) = Cardinality(q) - 1
        <5> HIDE DEF q
        <5>1. QED
            BY <4>1, <4>2, Smaller DEF q
      <4>4. n - 2 \in Nat /\ ~(n <= n - 2) /\ Cardinality(q \ {k}) = n - 2
          BY <1>3, <4>2, <4>3
      <4>5. n - 2 \notin Bad
          BY <1>2, <4>4
      <4> HIDE DEF Good
      <4>6. Good((r \ {x}) \ {k})
          BY <4>3, <4>4, <4>5
      <4>7. QED
          BY <4>6 DEF Good
    <3> DEFINE a == it[r \ {x}]
               b == it[r \ {k}]
               c == it[(r \ {x}) \ {k}]
    <3>6. /\ a \in Int /\ b \in Int /\ c \in Int /\ f[x] \in Int /\ f[k] \in Int
          /\ it[r] = f[x] + a /\ a = f[k] + c /\ b = f[x] + c
        BY <1>7, <3>1, <3>2, <3>3, <3>4, <3>5
    <3> HIDE DEF a, b, c
    <3>7. it[r] = f[k] + b
        BY <3>6
    <3>8. QED
        BY <3>7 DEF b
  <2>3. QED
      BY <2>1, <2>2
<1>9. it[r] \in Int
    BY <1>7
<1>10. Good(r)
    BY <1>8, <1>9
<1> HIDE DEF Good
<1>11. QED
    BY <1>3, <1>10

\* The values outside do not matter: over a set that f and g agree on their sums
\* are the same.
LEMMA SumsAgree ==
    ASSUME NEW S, IsFiniteSet(S), NEW f, NEW it, Sums(it, f, S),
           NEW T, NEW g, NEW jt, Sums(jt, g, T),
           NEW s, s \in SUBSET S, s \in SUBSET T, \A x \in s : f[x] = g[x]
    PROVE  it[s] = jt[s]
<1> DEFINE Bad == {n \in Nat : \E r \in SUBSET s : Cardinality(r) = n /\ it[r] # jt[r]}
<1>0. IsFiniteSet(s)
    BY FS_Subset
<1>1. SUFFICES ASSUME Bad # {}
               PROVE  FALSE
  <2>1. Cardinality(s) \in Nat
      BY <1>0, FS_CardinalityType
  <2>2. QED
      BY <1>1, <2>1
<1>2. PICK n \in Bad : \A m \in Bad : n <= m
  <2>1. Bad \in SUBSET Nat
      OBVIOUS
  <2> HIDE DEF Bad
  <2>2. QED
      BY <1>1, <2>1, LeastNatural
<1>3. PICK r \in SUBSET s : Cardinality(r) = n /\ it[r] # jt[r]
    BY <1>2
<1> DEFINE x == First(r)
<1>4. /\ it[r] = IF r = {} THEN 0 ELSE f[x] + it[r \ {x}]
      /\ jt[r] = IF r = {} THEN 0 ELSE g[x] + jt[r \ {x}]
    BY DEF Sums
<1>5. r # {}
    BY <1>3, <1>4
<1>6. x \in r
    BY <1>5, FirstIn
<1> HIDE DEF x
<1>7. n \in Nat \ {0} /\ r \ {x} \in SUBSET s /\ Cardinality(r \ {x}) = n - 1
    BY <1>0, <1>3, <1>6, Smaller
<1>8. n - 1 \in Nat /\ ~(n <= n - 1)
    BY <1>7
<1>9. it[r \ {x}] = jt[r \ {x}]
    BY <1>2, <1>7, <1>8
<1>10. f[x] = g[x]
    BY <1>6
<1>11. QED
    BY <1>3, <1>4, <1>5, <1>9, <1>10

\* The sum over a finite domain is an integer, and any one term may be taken out.
LEMMA SumSplit ==
    ASSUME NEW S, IsFiniteSet(S), NEW f \in [S -> Int], NEW k \in S
    PROVE  /\ SumFunction(f) \in Int
           /\ SumFunction([x \in S \ {k} |-> f[x]]) \in Int
           /\ SumFunction(f) = f[k] + SumFunction([x \in S \ {k} |-> f[x]])
<1> DEFINE T == S \ {k}
           g == [x \in T |-> f[x]]
<1>1. IsFiniteSet(T) /\ T \in SUBSET S /\ g \in [T -> Int] /\ DOMAIN f = S /\ DOMAIN g = T
    BY FS_Subset
<1>2. \A x \in T : f[x] = g[x]
    OBVIOUS
<1> HIDE DEF T, g
<1>3. PICK it : Sums(it, f, S) /\ SumFunction(f) = it[S]
  <2>1. \E it : Sums(it, f, DOMAIN f)
      BY <1>1, SumsExist
  <2>2. QED
      BY <1>1, <2>1, SumUnfolds
<1>4. PICK jt : Sums(jt, g, T) /\ SumFunction(g) = jt[T]
  <2>1. \E jt : Sums(jt, g, DOMAIN g)
      BY <1>1, SumsExist
  <2>2. QED
      BY <1>1, <2>1, SumUnfolds
<1>5. it[S] \in Int /\ it[S] = f[k] + it[S \ {k}]
  <2>1. S \in SUBSET S
      OBVIOUS
  <2>2. it[S] \in Int /\ \A j \in S : it[S] = f[j] + it[S \ {j}]
      BY <1>3, <2>1, SumsCommute
  <2>3. QED
      BY <2>2
<1>6. it[T] \in Int
    BY <1>1, <1>3, SumsCommute
<1>7. it[T] = jt[T]
    BY <1>1, <1>2, <1>3, <1>4, SumsAgree
<1>8. SumFunction(f) \in Int /\ SumFunction(g) \in Int /\ SumFunction(f) = f[k] + SumFunction(g)
    BY <1>3, <1>4, <1>5, <1>6, <1>7 DEF T
<1>9. QED
    BY <1>8, Zenon DEF T, g

\* There is nothing to add over an empty domain.
LEMMA SumEmpty ==
    ASSUME NEW f, DOMAIN f = {}
    PROVE  SumFunction(f) = 0
<1> DEFINE it == [s \in SUBSET DOMAIN f |-> 0]
<1>1. Sums(it, f, DOMAIN f)
    BY DEF Sums
<1>2. PICK jt : Sums(jt, f, DOMAIN f) /\ SumFunction(f) = jt[DOMAIN f]
    BY <1>1, SumUnfolds
<1>3. QED
    BY <1>2 DEF Sums

-----------------------------------------------------------------------------
(* Enough workers *)

Call == [pc : {"idle", "spawn", "push"}, pool : Pools, left : Nat]

\* What the calls c of ScalePool have left to do for p, and one call's share.
Load(c, p, pc) ==
    SumFunction([k \in {j \in Scalers : c[j].pool = p /\ c[j].pc \in {pc}} |-> c[k].left])
Share(r, p, pc) == IF r.pool = p /\ r.pc = pc THEN r.left ELSE 0

\* What New has left to do for p, and the tokens that wait in its channel.
Owed(p) == IF (new.pc = "spawn" /\ p \in new.todo) \/ new.pc = "default" THEN Current(p) ELSE 0
Tokens(p) == IF poolControl[p] = None THEN 0 ELSE poolControl[p]

\* EnoughWorkers for one pool, in these terms.
Enough(p) ==
    ~stop => Alive(p) + (Load(scale, p, "spawn") + Owed(p))
             >= Current(p) + Load(scale, p, "push") + Tokens(p)
AllEnough == \A p \in Pools : Enough(p)

\* When one call changes, its share of the load does and nothing else.
LEMMA LoadChange ==
    ASSUME NEW c \in [Scalers -> Call], NEW d \in [Scalers -> Call], NEW k \in Scalers,
           NEW p, NEW pc, \A j \in Scalers \ {k} : d[j] = c[j]
    PROVE  /\ Load(c, p, pc) \in Int /\ Load(d, p, pc) \in Int
           /\ Load(d, p, pc) = Load(c, p, pc) - Share(c[k], p, pc) + Share(d[k], p, pc)
<1> DEFINE In(e) == {j \in Scalers : e[j].pool = p /\ e[j].pc \in {pc}}
           Term(e) == [j \in In(e) |-> e[j].left]
           Rest(e) == [j \in In(e) \ {k} |-> Term(e)[j]]
<1>1. \A j \in Scalers \ {k} : d[j] = c[j]
    OBVIOUS
<1>2. ASSUME NEW e \in [Scalers -> Call]
      PROVE  /\ Load(e, p, pc) \in Int /\ SumFunction(Rest(e)) \in Int
             /\ Load(e, p, pc) = Share(e[k], p, pc) + SumFunction(Rest(e))
  <2>1. IsFiniteSet(In(e)) /\ Term(e) \in [In(e) -> Int]
    <3>1. In(e) \in SUBSET Scalers
        OBVIOUS
    <3>2. \A j \in Scalers : e[j].left \in Int
      <4>1. \A j \in Scalers : e[j] \in Call
          OBVIOUS
      <4>2. \A x \in Call : x.left \in Int
          BY DEF Call
      <4>3. QED
          BY <4>1, <4>2
    <3>3. IsFiniteSet(Scalers)
        BY PoolsAssumption
    <3> HIDE DEF In
    <3>4. IsFiniteSet(In(e))
        BY <3>1, <3>3, FS_Subset
    <3>5. Term(e) \in [In(e) -> Int]
        BY <3>1, <3>2
    <3>6. QED
        BY <3>4, <3>5
  <2>2. Load(e, p, pc) = SumFunction(Term(e))
      BY Zenon DEF Load
  <2>3. CASE k \in In(e)
    <3>1. Share(e[k], p, pc) = Term(e)[k]
        BY <2>3 DEF Share
    <3> HIDE DEF In, Term
    <3>2. SumFunction(Term(e)) \in Int /\ SumFunction(Rest(e)) \in Int
          /\ SumFunction(Term(e)) = Term(e)[k] + SumFunction(Rest(e))
        BY <2>1, <2>3, SumSplit
    <3>3. QED
        BY <2>2, <3>1, <3>2
  <2>4. CASE k \notin In(e)
    <3>1. Share(e[k], p, pc) = 0
        BY <2>4 DEF Share
    <3>2. In(e) \ {k} = In(e)
        BY <2>4
    <3>3. Rest(e) = Term(e)
        BY <3>2
    <3>4. SumFunction(Term(e)) \in Int
      <4> HIDE DEF In, Term
      <4>1. CASE In(e) = {}
          BY <2>1, <4>1, SumEmpty
      <4>2. CASE In(e) # {}
          BY <2>1, <4>2, SumSplit
      <4>3. QED
          BY <4>1, <4>2
    <3> HIDE DEF In, Term, Rest
    <3>5. QED
        BY <2>2, <3>1, <3>3, <3>4
  <2>5. QED
      BY <2>3, <2>4
<1>3. In(c) \ {k} = In(d) \ {k}
    BY <1>1
<1>4. Rest(c) = Rest(d)
    BY <1>1, <1>3
<1>5. Share(c[k], p, pc) \in Int /\ Share(d[k], p, pc) \in Int
    BY DEF Share, Call
<1>6. /\ Load(c, p, pc) \in Int /\ SumFunction(Rest(c)) \in Int
      /\ Load(c, p, pc) = Share(c[k], p, pc) + SumFunction(Rest(c))
    BY <1>2
<1>7. /\ Load(d, p, pc) \in Int
      /\ Load(d, p, pc) = Share(d[k], p, pc) + SumFunction(Rest(c))
  <2>1. /\ Load(d, p, pc) \in Int
        /\ Load(d, p, pc) = Share(d[k], p, pc) + SumFunction(Rest(d))
      BY <1>1, <1>2
  <2> HIDE DEF Rest
  <2>2. QED
      BY <1>1, <1>4, <2>1
<1> HIDE DEF Rest
<1>8. QED
    BY <1>5, <1>6, <1>7

\* EnoughWorkers says nothing else.
LEMMA EnoughIs == AllEnough => EnoughWorkers
<1>1. ASSUME NEW p \in Pools
      PROVE  /\ ToSpawn(p) = Load(scale, p, "spawn") + Owed(p)
             /\ ToPush(p) = Load(scale, p, "push")
    BY Zenon DEF ToSpawn, ToPush, Load, Calls, Owed
<1>2. QED
    BY <1>1 DEF AllEnough, EnoughWorkers, Enough, Tokens

\* The load is a number.
LEMMA LoadType ==
    ASSUME NEW c \in [Scalers -> Call], NEW p, NEW pc
    PROVE  Load(c, p, pc) \in Int
<1>1. CASE Scalers = {}
  <2>1. Load(c, p, pc) = 0
      BY <1>1, SumEmpty DEF Load
  <2>2. QED
      BY <2>1
<1>2. CASE Scalers # {}
  <2>1. PICK k \in Scalers : TRUE
      BY <1>2
  <2>2. \A j \in Scalers \ {k} : c[j] = c[j]
      OBVIOUS
  <2>3. QED
      BY <2>2, LoadChange
<1>3. QED
    BY <1>1, <1>2

\* All that Enough adds up are numbers.
LEMMA Numbers ==
    ASSUME Typed, NEW p \in Pools
    PROVE  /\ Alive(p) \in Nat /\ Current(p) \in Nat /\ Owed(p) \in Nat /\ Tokens(p) \in Nat
           /\ Load(scale, p, "spawn") \in Int /\ Load(scale, p, "push") \in Int
           /\ scale \in [Scalers -> Call]
<1>1. \A a \in Activities : workers[p][a] \in Nat
    BY DEF Typed, StaffTyped
<1>2. Alive(p) \in Nat
    BY <1>1, Constants DEF Alive
<1>3. Current(p) \in Nat
    BY CurrentType DEF Typed
<1>4. Tokens(p) \in Nat
    BY Constants DEF Typed, StaffTyped, Tokens
<1>5. scale \in [Scalers -> Call]
    BY DEF Typed, StaffTyped, Call
<1>6. QED
    BY <1>2, <1>3, <1>4, <1>5, LoadType DEF Owed

\* Hiring n workers for p makes n more of them.
LEMMA SpawnAlive ==
    ASSUME Typed, NEW p \in Pools, NEW n \in Nat, Spawn(p, n), NEW q \in Pools
    PROVE  /\ Alive(q)' = Alive(q) + (IF q = p THEN n ELSE 0)
           /\ Tokens(q)' = Tokens(q)
<1>1. \A a \in Activities : workers[q][a] \in Nat
    BY DEF Typed, StaffTyped
<1>2. workers'[q]["starting"] = workers[q]["starting"] + (IF q = p THEN n ELSE 0)
    BY <1>1 DEF Spawn, Typed, StaffTyped, Activities
<1>3. \A a \in Activities \ {"starting"} : workers'[q][a] = workers[q][a]
    BY DEF Spawn, Typed, StaffTyped
<1>4. Alive(q)' = Alive(q) + (IF q = p THEN n ELSE 0)
    BY <1>1, <1>2, <1>3 DEF Alive, Activities
<1>5. Tokens(q)' = Tokens(q)
    BY Constants DEF Spawn, Tokens, Typed, StaffTyped
<1>6. QED
    BY <1>4, <1>5

\* Whoever turns to something else stays alive; whoever leaves does not.
LEMMA MoveAlive ==
    ASSUME Typed, NEW p \in Pools, NEW a \in Activities, NEW b \in Activities, a # b,
           NEW q \in Pools
    PROVE  /\ workers' = Move(p, a, b) => Alive(q)' = Alive(q)
           /\ workers' = Leave(p, a) => Alive(q)' = Alive(q) - (IF q = p THEN 1 ELSE 0)
<1>1. \A c \in Activities : workers[q][c] \in Nat
    BY DEF Typed, StaffTyped
<1>2. ASSUME workers' = Move(p, a, b)
      PROVE  Alive(q)' = Alive(q)
  <2>1. CASE q # p
    <3>1. workers'[q] = workers[q]
        BY <1>2, <2>1 DEF Move, Typed, StaffTyped
    <3>2. QED
        BY <3>1 DEF Alive
  <2>2. CASE q = p
    <3>1. \A c \in Activities : workers'[q][c] = IF c = a THEN workers[q][c] - 1
                                                 ELSE IF c = b THEN workers[q][c] + 1
                                                 ELSE workers[q][c]
        BY <1>2, <2>2 DEF Move, Typed, StaffTyped
    <3>2. QED
        BY <1>1, <3>1 DEF Alive, Activities
  <2>3. QED
      BY <2>1, <2>2
<1>3. ASSUME workers' = Leave(p, a)
      PROVE  Alive(q)' = Alive(q) - (IF q = p THEN 1 ELSE 0)
  <2>1. \A c \in Activities : workers'[q][c] = workers[q][c] - (IF q = p /\ c = a THEN 1 ELSE 0)
      BY <1>1, <1>3 DEF Leave, Typed, StaffTyped
  <2>2. QED
      BY <1>1, <2>1 DEF Alive, Activities
<1>4. QED
    BY <1>2, <1>3

\* Steps after which as many are alive and nobody has more or less to do.
LEMMA EnoughUnchanged ==
    ASSUME Typed, NEW q \in Pools, Enough(q), stop => stop', Alive(q)' = Alive(q),
           UNCHANGED <<poolWorkers, poolControl, new, scale>>
    PROVE  Enough(q)'
  BY DEF Enough, Owed, Current, Tokens

\* New: what it owes a pool is what it will hire.
LEMMA NewEnough ==
    ASSUME Typed, Typed', NEW q \in Pools, Enough(q), newSteps
    PROVE  Enough(q)'
<1>1. UNCHANGED <<scale, stop>>
    BY DEF newSteps, NewDefault, NewSpawn, flags
<1>2. Load(scale, q, "spawn")' = Load(scale, q, "spawn")
      /\ Load(scale, q, "push")' = Load(scale, q, "push")
    BY <1>1
<1>3. CASE NewDefault
  <2>1. Alive(q)' = Alive(q) /\ Tokens(q)' = Tokens(q)
      BY <1>3 DEF NewDefault, Alive, Tokens
  <2>2. Owed(q) = Current(q)
      BY <1>3 DEF NewDefault, Owed
  <2>3. new' = [pc |-> "spawn", todo |-> {p \in Pools : poolWorkers'[p] # None}]
      BY <1>3 DEF NewDefault
  <2>4. Owed(q)' = Current(q)'
      BY <2>3 DEF Owed, Current
  <2>5. QED
    <3>1. Current(q)' \in Nat
        BY Constants DEF Current, Typed, StaffTyped
    <3>2. QED
        BY <1>1, <1>2, <2>1, <2>2, <2>4, <3>1, Numbers DEF Enough
<1>4. ASSUME NEW p \in Pools, NewSpawn(p)
      PROVE  Enough(q)'
  <2>1. poolWorkers[p] \in Nat /\ poolWorkers[p] # None /\ p \in new.todo
      BY <1>4, Constants DEF NewSpawn, Typed, StaffTyped
  <2>2. Alive(q)' = Alive(q) + (IF q = p THEN poolWorkers[p] ELSE 0) /\ Tokens(q)' = Tokens(q)
      BY <1>4, <2>1, SpawnAlive DEF NewSpawn
  <2>3. Current(q)' = Current(q)
      BY <1>4 DEF NewSpawn, Current
  <2>4. new.pc = "spawn" /\ new'.pc = "spawn" /\ new'.todo = new.todo \ {p}
      BY <1>4 DEF NewSpawn, Typed, StaffTyped
  <2>5. CASE q = p
    <3>1. Owed(q) = Current(q) /\ Owed(q)' = 0 /\ Current(q) = poolWorkers[p]
        BY <2>1, <2>4, <2>5 DEF Owed, Current
    <3>2. QED
        BY <1>1, <1>2, <2>2, <2>3, <2>5, <3>1, Numbers DEF Enough
  <2>6. CASE q # p
    <3>1. Owed(q)' = Owed(q)
        BY <2>3, <2>4, <2>6 DEF Owed
    <3>2. QED
        BY <1>1, <1>2, <2>2, <2>3, <2>6, <3>1, Numbers DEF Enough
  <2>7. QED
      BY <2>5, <2>6
<1>5. QED
    BY <1>3, <1>4 DEF newSteps

\* A pool that dispatchTask makes has the one worker it is asked to have.
LEMMA DispatchEnough ==
    ASSUME Typed, Typed', NEW q \in Pools, Enough(q), Dispatch
    PROVE  Enough(q)'
<1> DEFINE p == loop.pool
<1>1. p \in Pools /\ UNCHANGED <<scale, stop>>
    BY DEF Dispatch, flags, Typed, QueuesTyped
<1>2. Load(scale, q, "spawn")' = Load(scale, q, "spawn")
      /\ Load(scale, q, "push")' = Load(scale, q, "push")
    BY <1>1
<1>3. CASE poolQueues[p] # "none"
  <2>1. UNCHANGED <<poolWorkers, poolControl, workers, new>>
      BY <1>3 DEF Dispatch
  <2>2. QED
      BY <1>1, <2>1, EnoughUnchanged DEF Alive
<1>4. CASE poolQueues[p] = "none"
  <2>1. /\ poolWorkers' = [poolWorkers EXCEPT ![p] = 1] /\ Spawn(p, 1)
        /\ new' = new \/ new' = [new EXCEPT !.todo = @ \union {p}]
      BY <1>4 DEF Dispatch
  <2> HIDE DEF p
  <2>2. Alive(q)' = Alive(q) + (IF q = p THEN 1 ELSE 0) /\ Tokens(q)' = Tokens(q)
      BY <1>1, <2>1, SpawnAlive
  <2>3. Current(q)' = IF q = p THEN 1 ELSE Current(q)
      BY <1>1, <2>1, Constants DEF Current, Typed, StaffTyped
  <2>4. Owed(q)' = Owed(q) \/ q = p
      BY <1>1, <2>1, <2>3 DEF Owed, Typed, StaffTyped
  <2>5. Owed(q) <= Current(q) /\ (q = p => Owed(q)' >= 0)
    <3>1. Owed(q) \in {0, Current(q)} /\ Current(q) \in Nat
        BY Numbers DEF Owed
    <3>2. Current(q)' \in Nat
        BY Constants DEF Current, Typed, StaffTyped
    <3>3. Owed(q)' \in {0, Current(q)'}
        BY DEF Owed
    <3>4. QED
        BY <3>1, <3>2, <3>3
  <2>6. CASE q = p
    <3>1. Owed(q)' \in Nat
        BY <2>3, <2>6 DEF Owed
    <3>2. QED
        BY <1>1, <1>2, <2>2, <2>3, <2>5, <2>6, <3>1, Numbers DEF Enough
  <2>7. CASE q # p
      BY <1>1, <1>2, <2>2, <2>3, <2>4, <2>7, Numbers DEF Enough
  <2>8. QED
      BY <2>6, <2>7
<1>5. QED
    BY <1>3, <1>4

\* A call of ScalePool takes on the difference between what is and what shall be.
LEMMA ScaleSetEnough ==
    ASSUME Typed, Typed', NEW q \in Pools, Enough(q), NEW k \in Scalers, NEW p \in Scaled,
           NEW n \in Int, ScaleSet(k, p, n)
    PROVE  Enough(q)'
<1> DEFINE m == Clamp(n)
           c == Current(p)
           call == CASE m > c -> [pc |-> "spawn", pool |-> p, left |-> m - c]
                     [] m < c -> [pc |-> "push", pool |-> p, left |-> c - m]
                     [] OTHER -> scale[k]
<1>1. p \in Pools /\ m \in Nat /\ c \in Nat /\ scale[k] = NoCall /\ NoCall.pc = "idle"
    BY PoolsAssumption, Constants, ClampRange, Numbers, CallerIdle DEF ScaleSet, NoCall
<1>2. /\ UNCHANGED <<poolControl, workers, new, stop>> /\ new.pc = "spawn" /\ new.todo = {}
      /\ poolWorkers' = [poolWorkers EXCEPT ![p] = m]
      /\ scale' = [scale EXCEPT ![k] = call]
    BY DEF ScaleSet, Running, flags
<1>3. \/ m > c /\ call = [pc |-> "spawn", pool |-> p, left |-> m - c] /\ m - c \in Nat
      \/ m < c /\ call = [pc |-> "push", pool |-> p, left |-> c - m] /\ c - m \in Nat
      \/ m = c /\ call = NoCall
    BY <1>1
<1>4. call \in Call /\ scale \in [Scalers -> Call]
  <2>1. NoCall \in Call
      BY Constants DEF NoCall, Call
  <2>2. QED
      BY <1>1, <1>3, <2>1, Numbers DEF Call
<1> HIDE DEF call, m
<1>5. Alive(q)' = Alive(q) /\ Tokens(q)' = Tokens(q) /\ Owed(q)' = 0 /\ Owed(q) = 0
    BY <1>2 DEF Alive, Tokens, Owed
<1>6. Current(q)' = IF q = p THEN m ELSE Current(q)
    BY <1>1, <1>2, Constants DEF Current, Typed, StaffTyped
<1>7. /\ Load(scale, q, "spawn")' = Load(scale, q, "spawn") + Share(call, q, "spawn")
      /\ Load(scale, q, "push")' = Load(scale, q, "push") + Share(call, q, "push")
      /\ Share(call, q, "spawn") \in Int /\ Share(call, q, "push") \in Int
  <2>1. Share(NoCall, q, "spawn") = 0 /\ Share(NoCall, q, "push") = 0
      BY <1>1 DEF Share
  <2>2. Share(call, q, "spawn") \in Int /\ Share(call, q, "push") \in Int
      BY <1>4 DEF Share, Call
  <2>3. /\ Load(scale', q, "spawn") = Load(scale, q, "spawn") - 0 + Share(call, q, "spawn")
        /\ Load(scale', q, "push") = Load(scale, q, "push") - 0 + Share(call, q, "push")
    <3>1. /\ scale \in [Scalers -> Call] /\ scale' \in [Scalers -> Call] /\ scale'[k] = call
          /\ \A j \in Scalers \ {k} : scale'[j] = scale[j]
        BY <1>2, <1>4
    <3>2. Load(scale', q, "spawn") = Load(scale, q, "spawn") - Share(scale[k], q, "spawn")
                                     + Share(scale'[k], q, "spawn")
        BY <3>1, LoadChange
    <3>3. Load(scale', q, "push") = Load(scale, q, "push") - Share(scale[k], q, "push")
                                    + Share(scale'[k], q, "push")
        BY <3>1, LoadChange
    <3>4. QED
        BY <1>1, <2>1, <3>1, <3>2, <3>3
  <2>4. QED
      BY <2>2, <2>3, Numbers
<1>8. /\ Share(call, q, "spawn") = IF q = p /\ m > c THEN m - c ELSE 0
      /\ Share(call, q, "push") = IF q = p /\ m < c THEN c - m ELSE 0
    BY <1>1, <1>3 DEF Share
<1>9. CASE q = p
    BY <1>1, <1>2, <1>5, <1>6, <1>7, <1>8, <1>9, Numbers DEF Enough
<1>10. CASE q # p
    BY <1>2, <1>5, <1>6, <1>7, <1>8, <1>10, Numbers DEF Enough
<1>11. QED
    BY <1>9, <1>10

\* The call then hires or dismisses; what is not told to leave stays.
LEMMA ScaleStepsEnough ==
    ASSUME Typed, Typed', NEW q \in Pools, Enough(q), NEW k \in Scalers, scaleSteps(k)
    PROVE  Enough(q)'
<1> DEFINE p == scale[k].pool
           n == scale[k].left
<1>1. /\ scale[k] \in Call /\ NoCall \in Call /\ NoCall.pc = "idle" /\ scale \in [Scalers -> Call]
    BY Constants, Numbers DEF NoCall, Call
<1>2. UNCHANGED <<poolWorkers, new, stop>>
    BY DEF scaleSteps, ScaleSpawn, ScalePush, flags
<1>3. Current(q)' = Current(q) /\ Owed(q)' = Owed(q)
    BY <1>2 DEF Current, Owed
<1>4. CASE ScaleSpawn(k)
  <2>1. scale[k].pc = "spawn" /\ p \in Pools /\ n \in Nat /\ Spawn(p, n)
        /\ scale' = [scale EXCEPT ![k] = NoCall]
      BY <1>4 DEF ScaleSpawn, Returns, Typed, StaffTyped
  <2>2. Alive(q)' = Alive(q) + (IF q = p THEN n ELSE 0) /\ Tokens(q)' = Tokens(q)
      BY <2>1, SpawnAlive
  <2>3. /\ Load(scale', q, "spawn") = Load(scale, q, "spawn") - (IF q = p THEN n ELSE 0) + 0
        /\ Load(scale', q, "push") = Load(scale, q, "push") - 0 + 0
    <3>1. /\ Share(scale[k], q, "spawn") = IF q = p THEN n ELSE 0
          /\ Share(scale[k], q, "push") = 0
          /\ Share(NoCall, q, "spawn") = 0 /\ Share(NoCall, q, "push") = 0
        BY <1>1, <2>1 DEF Share
    <3>2. /\ scale \in [Scalers -> Call] /\ scale' \in [Scalers -> Call] /\ scale'[k] = NoCall
          /\ \A j \in Scalers \ {k} : scale'[j] = scale[j]
        BY <1>1, <2>1
    <3>3. Load(scale', q, "spawn") = Load(scale, q, "spawn") - Share(scale[k], q, "spawn")
                                     + Share(scale'[k], q, "spawn")
        BY <3>2, LoadChange
    <3>4. Load(scale', q, "push") = Load(scale, q, "push") - Share(scale[k], q, "push")
                                    + Share(scale'[k], q, "push")
        BY <3>2, LoadChange
    <3>5. QED
        BY <3>1, <3>2, <3>3, <3>4
  <2>4. QED
      BY <1>2, <1>3, <2>1, <2>2, <2>3, Numbers DEF Enough
<1>5. CASE ScalePush(k)
  <2>1. scale[k].pc = "push" /\ p \in Pools /\ n \in Nat /\ n # 0 /\ UNCHANGED workers
      BY <1>5 DEF ScalePush, Typed, StaffTyped
  <2>2. Alive(q)' = Alive(q)
      BY <2>1 DEF Alive
  <2>3. poolControl' = [poolControl EXCEPT ![p] =
                          IF poolControl[p] \in {None, ControlCap} THEN @ ELSE @ + 1]
      BY <1>5 DEF ScalePush
  <2>4. \/ Tokens(q)' = Tokens(q)
        \/ q = p /\ poolControl[p] # None /\ Tokens(q)' = Tokens(q) + 1
    <3>1. poolControl \in [Pools -> {None} \union 0 .. ControlCap]
        BY DEF Typed, StaffTyped
    <3> HIDE DEF p
    <3>2. CASE q # p \/ poolControl[p] \in {None, ControlCap}
      <4>1. poolControl'[q] = poolControl[q]
          BY <2>1, <2>3, <3>1, <3>2
      <4>2. Tokens(q)' = Tokens(q)
          BY <4>1 DEF Tokens
      <4>3. QED
          BY <4>2
    <3>3. CASE q = p /\ poolControl[p] \notin {None, ControlCap}
      <4>1. poolControl'[q] = poolControl[q] + 1 /\ poolControl[q] # None
          BY <2>1, <2>3, <3>1, <3>3
      <4>2. poolControl'[q] # None
          BY <2>1, <3>1, <4>1, Constants
      <4>3. QED
          BY <3>3, <4>1, <4>2 DEF Tokens
    <3>4. QED
        BY <3>2, <3>3
  <2> DEFINE rest == IF poolControl[p] = None \/ n = 1 THEN NoCall ELSE [scale[k] EXCEPT !.left = n - 1]
  <2>5. scale' = [scale EXCEPT ![k] = rest]
    <3>1. CASE poolControl[p] = None \/ n = 1
        BY <1>5, <3>1 DEF ScalePush, Returns
    <3>2. CASE ~(poolControl[p] = None \/ n = 1)
        BY <1>1, <1>5, <3>2 DEF ScalePush
    <3>3. QED
        BY <3>1, <3>2
  <2>6. rest \in Call /\ Share(rest, q, "spawn") = 0
        /\ Share(rest, q, "push") = IF q = p /\ poolControl[p] # None THEN n - 1 ELSE 0
    <3>1. CASE poolControl[p] = None \/ n = 1
        BY <1>1, <3>1 DEF Share
    <3>2. CASE ~(poolControl[p] = None \/ n = 1)
      <4>1. n - 1 \in Nat /\ rest = [scale[k] EXCEPT !.left = n - 1]
          BY <2>1, <3>2
      <4>2. rest \in Call /\ rest.pc = "push" /\ rest.pool = p /\ rest.left = n - 1
          BY <1>1, <2>1, <4>1 DEF Call
      <4>3. QED
          BY <3>2, <4>2 DEF Share
    <3>3. QED
        BY <3>1, <3>2
  <2> HIDE DEF rest
  <2>7. Share(scale[k], q, "spawn") = 0 /\ Share(scale[k], q, "push") = IF q = p THEN n ELSE 0
      BY <2>1 DEF Share
  <2>8. /\ Load(scale', q, "spawn") = Load(scale, q, "spawn") - 0 + 0
        /\ Load(scale', q, "push") = Load(scale, q, "push") - (IF q = p THEN n ELSE 0)
              + (IF q = p /\ poolControl[p] # None THEN n - 1 ELSE 0)
    <3>1. /\ scale \in [Scalers -> Call] /\ scale' \in [Scalers -> Call] /\ scale'[k] = rest
          /\ \A j \in Scalers \ {k} : scale'[j] = scale[j]
        BY <1>1, <2>5, <2>6
    <3>2. Load(scale', q, "spawn") = Load(scale, q, "spawn") - Share(scale[k], q, "spawn")
                                     + Share(scale'[k], q, "spawn")
        BY <3>1, LoadChange
    <3>3. Load(scale', q, "push") = Load(scale, q, "push") - Share(scale[k], q, "push")
                                    + Share(scale'[k], q, "push")
        BY <3>1, LoadChange
    <3>4. QED
        BY <2>6, <2>7, <3>1, <3>2, <3>3
  <2>9. QED
      BY <1>2, <1>3, <2>1, <2>2, <2>4, <2>8, Numbers DEF Enough
<1>6. QED
    BY <1>4, <1>5 DEF scaleSteps

\* Every step leaves every pool with enough workers.
LEMMA NextEnough ==
    ASSUME Typed, Typed', [Next]_vars, NEW q \in Pools, Enough(q)
    PROVE  Enough(q)'
<1>1. CASE newSteps
    BY <1>1, NewEnough
<1>2. CASE Dispatch
    BY <1>2, DispatchEnough
<1>3. CASE Send
  <2>1. loop.pool \in Pools /\ "idle" # "busy" /\ {"idle", "busy"} \subseteq Activities
      BY DEF Typed, QueuesTyped, Activities
  <2>2. Alive(q)' = Alive(q)
      BY <1>3, <2>1, MoveAlive DEF Send
  <2>3. QED
      BY <1>3, <2>2, EnoughUnchanged DEF Send, flags
<1>4. ASSUME NEW p \in Pools, WorkerStart(p) \/ Finish(p)
      PROVE  Enough(q)'
  <2>1. {"starting", "idle", "deaf", "busy"} \subseteq Activities
      BY Constants
  <2>2. Alive(q)' = Alive(q)
      BY <1>4, <2>1, MoveAlive DEF WorkerStart, Finish
  <2>3. QED
      BY <1>4, <2>2, EnoughUnchanged DEF WorkerStart, Finish, flags
<1>5. ASSUME NEW p \in Pools, NEW a \in Activities, TakeToken(p, a)
      PROVE  Enough(q)'
  <2>1. PICK b \in Activities : b # a
      BY DEF Activities
  <2>2. Alive(q)' = Alive(q) - (IF q = p THEN 1 ELSE 0)
      BY <1>5, <2>1, MoveAlive DEF TakeToken
  <2>3. Tokens(q)' = Tokens(q) - (IF q = p THEN 1 ELSE 0)
    <3>1. poolControl \in [Pools -> {None} \union 0 .. ControlCap]
        BY DEF Typed, StaffTyped
    <3>2. poolControl'[q] = IF q = p THEN poolControl[q] - 1 ELSE poolControl[q]
        BY <1>5, <3>1 DEF TakeToken
    <3>3. CASE q = p
      <4>1. poolControl[q] # None /\ poolControl[q] - 1 # None
          BY <1>5, <3>1, <3>3, Constants DEF TakeToken
      <4>2. QED
          BY <3>2, <3>3, <4>1 DEF Tokens
    <3>4. CASE q # p
      <4>1. Tokens(q)' = Tokens(q)
          BY <3>2, <3>4 DEF Tokens
      <4>2. QED
          BY <3>4, <4>1, Numbers
    <3>5. QED
        BY <3>3, <3>4
  <2>4. UNCHANGED <<poolWorkers, new, scale, stop>>
      BY <1>5 DEF TakeToken, flags
  <2>5. Current(q)' = Current(q) /\ Owed(q)' = Owed(q)
        /\ Load(scale, q, "spawn")' = Load(scale, q, "spawn")
        /\ Load(scale, q, "push")' = Load(scale, q, "push")
      BY <2>4 DEF Current, Owed
  <2>6. QED
      BY <2>2, <2>3, <2>4, <2>5, Numbers DEF Enough
<1>6. ASSUME NEW p \in Pools, NEW a \in Activities, WorkerStops(p, a)
      PROVE  Enough(q)'
    BY <1>6 DEF WorkerStops, Enough, flags
<1>7. ASSUME NEW k \in Scalers, scaleSteps(k)
      PROVE  Enough(q)'
    BY <1>7, ScaleStepsEnough
<1>8. ASSUME NEW k \in Scalers, NEW p \in Scaled, NEW n \in -1 .. MaxScale + 1, ScaleSet(k, p, n)
      PROVE  Enough(q)'
    BY <1>8, ScaleSetEnough, Constants
<1>9. CASE UNCHANGED staff /\ (stop => stop')
    BY <1>9, EnoughUnchanged DEF staff, Alive
<1>10. ASSUME \/ Look \/ (\E p \in Pools : Pop(p)) \/ PopNothing \/ SendStopped
              \/ TickerStops \/ (\E p \in Pools : Submit(p))
              \/ Pause \/ Resume \/ ShutDown \/ shutDownSteps \/ UNCHANGED vars
       PROVE  UNCHANGED staff /\ (stop => stop')
    BY <1>10 DEF Look, Pop, PopNothing, SendStopped, TickerStops, Submit, Pause, Resume,
                 ShutDown, shutDownSteps, CloseStop, CloseQueues, WaitDone, WaitTimesOut, vars, flags
<1>11. QED
    BY <1>1, <1>2, <1>3, <1>4, <1>5, <1>6, <1>7, <1>8, <1>9, <1>10
    DEF Next, dequeueLoop, worker

\* For any number of pools, workers and concurrent calls of ScalePool, and every
\* capacity of the control channel: until ShutDown, a pool keeps at least the
\* workers it was last asked to have.
THEOREM PoolsKeepWorkers == Spec => []EnoughWorkers
<1>1. Init => AllEnough
  <2>1. SUFFICES ASSUME Init, NEW p \in Pools
                 PROVE  Enough(p)
      BY DEF AllEnough
  <2>2. Typed
      BY <2>1, InitTyped
  <2>3. \A k \in Scalers : scale[k].pc = "idle"
      BY <2>1 DEF Init, NoCall
  <2>4. Load(scale, p, "spawn") = 0 /\ Load(scale, p, "push") = 0
      BY <2>3, SumEmpty DEF Load
  <2>5. Owed(p) = Current(p) /\ Tokens(p) = 0
      BY <2>1 DEF Init, Owed, Tokens
  <2>6. QED
      BY <2>2, <2>4, <2>5, Numbers DEF Enough
<1>2. Typed /\ Typed' /\ AllEnough /\ [Next]_vars => AllEnough'
    BY NextEnough DEF AllEnough
<1>3. AllEnough => EnoughWorkers
    BY EnoughIs
<1>4. QED
    BY <1>1, <1>2, <1>3, AlwaysTyped, PTL DEF Spec

=============================================================================
