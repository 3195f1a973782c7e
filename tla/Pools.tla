-------------------------------- MODULE Pools --------------------------------
(***************************************************************************)
(* The worker pools of one Scheduler: New, dequeueLoop and dispatchTask,   *)
(* the workers, ScalePool, Pause and Resume, and ShutDown.  A task is only *)
(* the pool it names, and the workers of a pool are counted by what they   *)
(* are doing.                                                              *)
(***************************************************************************)
EXTENDS Integers, FiniteSets, Functions

CONSTANTS
    Pools, Default,
    MaxWorkers,     \* s.maxWorkers
    Configured,     \* Configured[p]: WithWorkersForPool, None for no option
    ControlCap,     \* capacity of a control channel (1000 in the code)
    MaxScale,       \* bound: what ScalePool is called with (100 in the code)
    Scalers,        \* goroutines that call ScalePool
    Scaled,         \* bound: the pools they scale
    MaxCalls,       \* bound: calls of ScalePool and Pause
    MaxTasks        \* bound: tasks, submitted or found by loadTasks

None == -1

ASSUME PoolsAssumption ==
    /\ Default \in Pools /\ MaxWorkers \in Nat \ {0}
    /\ Configured \in [Pools -> {None} \union (Nat \ {0})]
    /\ Scaled \subseteq Pools /\ IsFiniteSet(Scalers)
    /\ {ControlCap, MaxScale, MaxCalls, MaxTasks} \subseteq Nat

VARIABLES
    poolQueues,     \* poolQueues[p]: "none", "open" or "closed"
    poolWorkers,    \* poolWorkers[p], None when the map has no p
    poolControl,    \* tokens in the control channel, None when there is none
    workers,        \* workers[p]: how many are doing what
    new,            \* New: its pc and the pools it has yet to spawn workers for
    heap,           \* heap[p]: tasks in the queue for p
    loop,           \* dequeueLoop: its pc and the pool of the task in its hand
    tickers,        \* whether cleanupLoop or recoveryLoop is left
    scale,          \* scale[k]: a call of ScalePool, and what it has yet to do
    paused, stopped, stop,
    shut,           \* where ShutDown is
    timedOut,       \* ShutDown gave up on the workers
    calls, tasks    \* calls made

queues == <<poolQueues, heap, loop, tickers>>
staff == <<poolWorkers, poolControl, workers, new, scale>>
flags == <<paused, stopped, stop, shut, timedOut>>
vars == <<queues, staff, flags, calls, tasks>>

Activities == {"starting", "idle", "deaf", "busy"}
Alive(p) ==
    workers[p]["starting"] + workers[p]["idle"] + workers[p]["deaf"] + workers[p]["busy"]
Move(p, from, to) == [workers EXCEPT ![p][from] = @ - 1, ![p][to] = @ + 1]
Leave(p, from) == [workers EXCEPT ![p][from] = @ - 1]

NoCall == [pc |-> "idle", pool |-> Default, left |-> 0]

\* New has run the options and loadTasks, which may have left tasks in the
\* queue, and has started the loops.
Init ==
    /\ poolQueues = [p \in Pools |-> "none"] /\ poolWorkers = Configured
    /\ poolControl = [p \in Pools |-> None]
    /\ workers = [p \in Pools |-> [a \in Activities |-> 0]]
    /\ new = [pc |-> "default", todo |-> {}]
    /\ heap \in [Pools -> 0 .. MaxTasks] /\ SumFunction(heap) <= 1
    /\ loop = [pc |-> "top", pool |-> Default] /\ tickers = TRUE
    /\ scale = [k \in Scalers |-> NoCall]
    /\ paused = FALSE /\ stopped = FALSE /\ stop = FALSE
    /\ shut = "no" /\ timedOut = FALSE
    /\ calls = 0 /\ tasks = SumFunction(heap)

\* spawnWorkersForPoolLocked: the control channel is made with the first workers.
Spawn(p, n) ==
    /\ poolControl' = [poolControl EXCEPT ![p] = IF @ = None THEN 0 ELSE @]
    /\ workers' = [workers EXCEPT ![p]["starting"] = @ + n]

-----------------------------------------------------------------------------
(*********************************** New ***********************************)

\* The default pool is set up unless it is already there.
NewDefault ==
    /\ new.pc = "default"
    /\ IF poolQueues[Default] = "none"
       THEN /\ poolQueues' = [poolQueues EXCEPT ![Default] = "open"]
            /\ poolWorkers' = [poolWorkers EXCEPT ![Default] = MaxWorkers]
       ELSE UNCHANGED <<poolQueues, poolWorkers>>
    /\ new' = [pc |-> "spawn", todo |-> {p \in Pools : poolWorkers'[p] # None}]
    /\ UNCHANGED <<heap, loop, tickers, poolControl, workers, scale, flags, calls, tasks>>

NewSpawn(p) ==
    /\ new.pc = "spawn" /\ p \in new.todo
    /\ new' = [new EXCEPT !.todo = @ \ {p}]
    /\ Spawn(p, poolWorkers[p])
    /\ UNCHANGED <<queues, poolWorkers, scale, flags, calls, tasks>>

\* New has returned.
Running == new.pc = "spawn" /\ new.todo = {}

-----------------------------------------------------------------------------
(******************************** The workers ******************************)

\* A worker reads its channels once.  Without a queue it will hear only the
\* control channel and stop.
WorkerStart(p) ==
    /\ workers[p]["starting"] > 0
    /\ workers' = Move(p, "starting", IF poolQueues[p] = "none" THEN "deaf" ELSE "idle")
    /\ UNCHANGED <<queues, poolWorkers, poolControl, new, scale, flags, calls, tasks>>

\* runTask returns.
Finish(p) ==
    /\ workers[p]["busy"] > 0
    /\ workers' = Move(p, "busy", "idle")
    /\ UNCHANGED <<queues, poolWorkers, poolControl, new, scale, flags, calls, tasks>>

\* Graceful scale down.
TakeToken(p, a) ==
    /\ a \in {"idle", "deaf"} /\ workers[p][a] > 0 /\ poolControl[p] > 0
    /\ workers' = Leave(p, a)
    /\ poolControl' = [poolControl EXCEPT ![p] = @ - 1]
    /\ UNCHANGED <<queues, poolWorkers, new, scale, flags, calls, tasks>>

\* A worker that waits sees that stop, or its queue, is closed.
WorkerStops(p, a) ==
    /\ a \in {"idle", "deaf"} /\ workers[p][a] > 0 /\ stop
    /\ workers' = Leave(p, a)
    /\ UNCHANGED <<queues, poolWorkers, poolControl, new, scale, flags, calls, tasks>>

-----------------------------------------------------------------------------
(**************************** Submit, dequeueLoop **************************)

\* Submit tests stopped before it takes the lock: a call that has passed the
\* test may push its task at any later time.
Submit(p) ==
    /\ Running /\ tasks < MaxTasks /\ tasks' = tasks + 1
    /\ heap' = [heap EXCEPT ![p] = @ + 1]
    /\ UNCHANGED <<poolQueues, loop, tickers, staff, flags, calls>>

Goto(pc) == loop' = [loop EXCEPT !.pc = pc]

\* The paused test: the loop waits, or leaves when the scheduler stops.
Look ==
    /\ loop.pc = "top"
    /\ \/ ~paused /\ Goto("pop")
       \/ paused /\ stop /\ Goto("exited")
    /\ UNCHANGED <<poolQueues, heap, tickers, staff, flags, calls, tasks>>

Pop(p) ==
    /\ loop.pc = "pop" /\ heap[p] > 0
    /\ heap' = [heap EXCEPT ![p] = @ - 1]
    /\ loop' = [pc |-> "dispatch", pool |-> p]
    /\ UNCHANGED <<poolQueues, tickers, staff, flags, calls, tasks>>

\* Mutant: the loop does not look at the stopped flag.
PopNothingSpins ==
    /\ loop.pc = "pop" /\ (\A p \in Pools : heap[p] = 0) /\ Goto("top")
    /\ UNCHANGED <<poolQueues, heap, tickers, staff, flags, calls, tasks>>

\* Mutant: the loop leaves when there is nothing to do.
PopNothingLeaves ==
    /\ loop.pc = "pop" /\ (\A p \in Pools : heap[p] = 0) /\ Goto("exited")
    /\ UNCHANGED <<poolQueues, heap, tickers, staff, flags, calls, tasks>>

\* Nothing to do: the loop leaves when the scheduler has stopped, or looks again.
PopNothing ==
    /\ loop.pc = "pop" /\ \A p \in Pools : heap[p] = 0
    /\ \/ stopped /\ Goto("exited")
       \/ ~stopped /\ Goto("top")
    /\ UNCHANGED <<poolQueues, heap, tickers, staff, flags, calls, tasks>>

\* dispatchTask finds the queue of the pool, or makes it, with one worker; New
\* may or may not come across a pool that is added while it walks over the map.
Dispatch ==
    /\ loop.pc = "dispatch" /\ Goto("send")
    /\ LET p == loop.pool
       IN  IF poolQueues[p] # "none"
           THEN UNCHANGED <<poolQueues, poolWorkers, poolControl, workers, new>>
           ELSE /\ poolQueues' = [poolQueues EXCEPT ![p] = "open"]
                /\ poolWorkers' = [poolWorkers EXCEPT ![p] = 1]
                /\ Spawn(p, 1)
                /\ \/ UNCHANGED new
                   \/ /\ new.pc = "spawn" /\ ~Running /\ poolWorkers[p] = None
                      /\ new' = [new EXCEPT !.todo = @ \union {p}]
    /\ UNCHANGED <<heap, tickers, scale, flags, calls, tasks>>

Send ==
    /\ loop.pc = "send" /\ workers[loop.pool]["idle"] > 0
    /\ workers' = Move(loop.pool, "idle", "busy") /\ Goto("top")
    /\ UNCHANGED <<poolQueues, heap, tickers, poolWorkers, poolControl, new, scale,
                   flags, calls, tasks>>

\* The scheduler stops while the loop waits for a worker: the task is dropped.
SendStopped ==
    /\ loop.pc = "send" /\ stop /\ Goto("top")
    /\ UNCHANGED <<poolQueues, heap, tickers, staff, flags, calls, tasks>>

\* cleanupLoop and recoveryLoop leave.
TickerStops ==
    /\ stop /\ tickers /\ tickers' = FALSE
    /\ UNCHANGED <<poolQueues, heap, loop, staff, flags, calls, tasks>>

-----------------------------------------------------------------------------
(********************************* ScalePool *******************************)

Current(p) == IF poolWorkers[p] = None THEN 0 ELSE poolWorkers[p]
Idle == {k \in Scalers : scale[k] = NoCall}
Caller == CHOOSE k \in Idle : TRUE   \* one goroutine is as good as another
Clamp(n) == CASE n < 0 -> 0 [] n > MaxScale -> MaxScale [] OTHER -> n

\* Mutant: one worker more than necessary is told to leave.
ScaleSetExtra(k, p, n) ==
    /\ Running /\ Idle # {} /\ k = Caller /\ calls < MaxCalls /\ calls' = calls + 1
    /\ scale' = [scale EXCEPT ![k] =
          CASE Clamp(n) > Current(p) -> [pc |-> "spawn", pool |-> p, left |-> Clamp(n) - Current(p)]
            [] OTHER -> [pc |-> "push", pool |-> p, left |-> Current(p) - Clamp(n) + 1]]
    /\ poolWorkers' = [poolWorkers EXCEPT ![p] = Clamp(n)]
    /\ poolQueues' = [poolQueues EXCEPT ![p] = IF @ = "none" THEN "open" ELSE @]
    /\ UNCHANGED <<heap, loop, tickers, poolControl, workers, new, flags, tasks>>

\* The number is set under the lock ...
ScaleSet(k, p, n) ==
    /\ Running /\ Idle # {} /\ k = Caller /\ calls < MaxCalls /\ calls' = calls + 1
    /\ scale' = [scale EXCEPT ![k] =
          CASE Clamp(n) > Current(p) -> [pc |-> "spawn", pool |-> p, left |-> Clamp(n) - Current(p)]
            [] Clamp(n) < Current(p) -> [pc |-> "push", pool |-> p, left |-> Current(p) - Clamp(n)]
            [] OTHER -> @]
    /\ poolWorkers' = [poolWorkers EXCEPT ![p] = Clamp(n)]
    /\ poolQueues' = [poolQueues EXCEPT ![p] = IF @ = "none" THEN "open" ELSE @]
    /\ UNCHANGED <<heap, loop, tickers, poolControl, workers, new, flags, tasks>>

Returns(k) == scale' = [scale EXCEPT ![k] = NoCall]

\* ... and the lock taken again to spawn the workers that are missing ...
ScaleSpawn(k) ==
    /\ scale[k].pc = "spawn" /\ Spawn(scale[k].pool, scale[k].left) /\ Returns(k)
    /\ UNCHANGED <<queues, poolWorkers, new, flags, calls, tasks>>

\* Mutant: a token is sent whether or not it fits.
ScalePushBlind(k) ==
    /\ scale[k].pc = "push"
    /\ LET p == scale[k].pool
       IN  /\ poolControl' = [poolControl EXCEPT ![p] = IF @ = None THEN @ ELSE @ + 1]
           /\ IF poolControl[p] = None \/ scale[k].left = 1 THEN Returns(k)
              ELSE scale' = [scale EXCEPT ![k].left = @ - 1]
    /\ UNCHANGED <<queues, poolWorkers, workers, new, flags, calls, tasks>>

\* ... or one token is sent for every worker too many.  What does not fit is
\* dropped, and without a control channel nobody is told to leave.
ScalePush(k) ==
    /\ scale[k].pc = "push"
    /\ LET p == scale[k].pool
           full == poolControl[p] \in {None, ControlCap}
       IN  /\ poolControl' = [poolControl EXCEPT ![p] = IF full THEN @ ELSE @ + 1]
           /\ IF poolControl[p] = None \/ scale[k].left = 1 THEN Returns(k)
              ELSE scale' = [scale EXCEPT ![k].left = @ - 1]
    /\ UNCHANGED <<queues, poolWorkers, workers, new, flags, calls, tasks>>

-----------------------------------------------------------------------------
(************************* Pause, Resume, ShutDown *************************)

Pause ==
    /\ Running /\ ~paused /\ paused' = TRUE
    /\ calls < MaxCalls /\ calls' = calls + 1
    /\ UNCHANGED <<queues, staff, stopped, stop, shut, timedOut, tasks>>

Resume ==
    /\ Running /\ paused /\ paused' = FALSE
    /\ UNCHANGED <<queues, staff, stopped, stop, shut, timedOut, calls, tasks>>

\* The compare-and-swap: a second call returns at once.
ShutDown ==
    /\ Running /\ ~stopped /\ stopped' = TRUE /\ shut' = "begun"
    /\ UNCHANGED <<queues, staff, paused, stop, timedOut, calls, tasks>>

\* stop is closed, and the wheel stopped.
CloseStop ==
    /\ shut = "begun" /\ stop' = TRUE /\ shut' = "loops"
    /\ UNCHANGED <<queues, staff, paused, stopped, timedOut, calls, tasks>>

ClosePools == [p \in Pools |-> IF poolQueues[p] = "none" THEN "none" ELSE "closed"]

\* Mutant: the queues are closed while dequeueLoop may still send.
CloseQueuesEarly ==
    /\ shut = "loops" /\ shut' = "wait" /\ poolQueues' = ClosePools
    /\ UNCHANGED <<heap, loop, tickers, staff, paused, stopped, stop, timedOut,
                   calls, tasks>>

\* Once the loops have left it is safe to close the queues.
CloseQueues ==
    /\ shut = "loops" /\ loop.pc = "exited" /\ ~tickers
    /\ shut' = "wait" /\ poolQueues' = ClosePools
    /\ UNCHANGED <<heap, loop, tickers, staff, paused, stopped, stop, timedOut,
                   calls, tasks>>

\* Mutant: the workers that wait are counted, those that run a job are not.
WaitDoneIdle ==
    /\ shut = "wait" /\ \A p \in Pools : workers[p]["idle"] = 0
    /\ shut' = "returned"
    /\ UNCHANGED <<queues, staff, paused, stopped, stop, timedOut, calls, tasks>>

\* Every worker has returned ...
WaitDone ==
    /\ shut = "wait" /\ \A p \in Pools : Alive(p) = 0
    /\ shut' = "returned"
    /\ UNCHANGED <<queues, staff, paused, stopped, stop, timedOut, calls, tasks>>

\* ... or the context of the caller is done first; the jobs are cancelled.
WaitTimesOut ==
    /\ shut = "wait" /\ shut' = "returned" /\ timedOut' = TRUE
    /\ UNCHANGED <<queues, staff, paused, stopped, stop, calls, tasks>>

-----------------------------------------------------------------------------
newSteps == NewDefault \/ \E p \in Pools : NewSpawn(p)
dequeueLoop == Look \/ (\E p \in Pools : Pop(p)) \/ PopNothing \/ Dispatch \/ Send \/ SendStopped
worker(p) ==
    WorkerStart(p) \/ Finish(p) \/ \E a \in Activities : TakeToken(p, a) \/ WorkerStops(p, a)
scaleSteps(k) == ScaleSpawn(k) \/ ScalePush(k)
shutDownSteps == CloseStop \/ CloseQueues \/ WaitDone \/ WaitTimesOut

Next ==
    \/ newSteps \/ dequeueLoop \/ TickerStops \/ shutDownSteps
    \/ Pause \/ Resume \/ ShutDown
    \/ \E p \in Pools : worker(p) \/ Submit(p)
    \/ \E k \in Scalers :
          scaleSteps(k) \/ \E p \in Scaled, n \in -1 .. MaxScale + 1 : ScaleSet(k, p, n)

Spec == Init /\ [][Next]_vars

\* Every goroutine of the scheduler goes on, every job ends, and so does the
\* context that ShutDown was given.
FairSpec ==
    /\ Spec /\ WF_vars(newSteps) /\ WF_vars(dequeueLoop) /\ WF_vars(TickerStops)
    /\ WF_vars(shutDownSteps)
    /\ \A p \in Pools : WF_vars(worker(p))

-----------------------------------------------------------------------------
(******************************** Properties *******************************)

\* The type invariant.  A control channel holds at most its capacity, and the
\* workers asked for are never negative or above the limit of ScalePool.
TypeOK ==
    /\ poolQueues \in [Pools -> {"none", "open", "closed"}]
    /\ \A p \in Pools :
          /\ poolWorkers[p] \in {None, 1, MaxWorkers, Configured[p]} \union 0 .. MaxScale
          /\ poolControl[p] \in {None} \union 0 .. ControlCap
          /\ \A a \in Activities : workers[p][a] \in Nat
    /\ loop.pc \in {"top", "pop", "dispatch", "send", "exited"} /\ loop.pool \in Pools
    /\ shut \in {"no", "begun", "loops", "wait", "returned"}

\* dispatchTask never sends on a channel that ShutDown has closed, which would
\* end the program.
NoSendOnClosed == loop.pc = "send" => poolQueues[loop.pool] = "open"

\* A ShutDown that does not run into its deadline leaves no job running and
\* no task in dequeueLoop's hand, whatever ScalePool and Submit do meanwhile.
CleanReturn ==
    shut = "returned" /\ ~timedOut =>
        loop.pc = "exited" /\ \A p \in Pools : workers[p]["busy"] = 0

\* Workers of p that somebody is about to spawn, and tokens about to be sent.
Calls(p, pcs) == {k \in Scalers : scale[k].pool = p /\ scale[k].pc \in pcs}
ToSpawn(p) ==
    SumFunction([k \in Calls(p, {"spawn"}) |-> scale[k].left])
    + (IF (new.pc = "spawn" /\ p \in new.todo) \/ new.pc = "default" THEN Current(p) ELSE 0)
ToPush(p) == SumFunction([k \in Calls(p, {"push"}) |-> scale[k].left])

\* Concurrent calls of ScalePool, workers that are slow to leave and pools made
\* by dispatchTask never leave a pool with fewer workers than it was last asked
\* to have: those alive, less the ones that are told to leave, are enough.
EnoughWorkers ==
    \A p \in Pools :
        ~stop => Alive(p) + ToSpawn(p) >= Current(p) + ToPush(p)
                                          + (IF poolControl[p] = None THEN 0 ELSE poolControl[p])

\* ShutDown returns, whatever the tasks, the pools and the callers are doing.
ShutDownReturns == <>[](shut \in {"no", "returned"})

\* The loop's next task is for a pool where no worker will receive it.
Blocked == loop.pc = "send" /\ workers[loop.pool]["idle"] + workers[loop.pool]["starting"]
                               + workers[loop.pool]["busy"] = 0

\* Unless the scheduler is paused or stopped, or the loop waits for a pool that
\* has been left without workers, every task reaches a worker.
EveryTaskDispatched ==
    []<>(paused \/ stopped \/ Blocked)
    \/ <>[](\A p \in Pools : heap[p] = 0 /\ loop.pc \in {"top", "pop"})

=============================================================================
