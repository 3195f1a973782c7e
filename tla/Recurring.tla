------------------------------ MODULE Recurring ------------------------------
(***************************************************************************)
(* Recurring and cron schedules: a wheel entry whose callback submits a    *)
(* fresh task and arms the wheel again under the id of the schedule, next  *)
(* to Cancel, to ShutDown and to a second schedule under the same id.  The *)
(* wheel is used through what module WheelContract promises: one armed     *)
(* entry for an id, which Schedule replaces and Cancel takes away.         *)
(***************************************************************************)
EXTENDS Integers

CONSTANTS
    Schedules,      \* calls of ScheduleRecurringTask and ScheduleCronTask
    Cron,           \* the ones that are of ScheduleCronTask
    Interval,       \* interval of the others
    Minute,         \* length of a minute
    Calendar,       \* Calendar[m]: the fields of minute m, as package time gives them
    Fields,         \* Fields[i]: the values that field i of the spec lists, or Any
    Any,            \* "*"
    SearchLimit,    \* minutes that nextExecution looks at (525600 in the code)
    MaxTime,        \* bound: the clock
    MaxCancels,     \* bound: calls of Cancel
    MaxRefused      \* bound: tasks that Submit refuses

None == 0

ASSUME RecurringAssumption ==
    /\ Schedules \subseteq Nat \ {None} /\ Cron \subseteq Schedules
    /\ {Interval, Minute, SearchLimit} \subseteq Nat \ {0}
    /\ {MaxTime, MaxCancels, MaxRefused} \subseteq Nat

VARIABLES
    now,
    pc,             \* pc[g]: where the call, and later its callback, is
    armed,          \* the wheel's entry under the id: whose callback, and when
    task,           \* the task in s.tasks under the id: of which call, cancelled?
    cancel,         \* a Cancel call: its pc, and the schedules it ought to end
    stopped, wheelStopped,
    unlinked,       \* schedules whose entry a Cancel took, or another replaced
    ended,          \* schedules that existed when a finished Cancel was called
    after,          \* after[g]: tasks submitted since
    cancels, refused

calls == <<stopped, wheelStopped, cancels, refused>>
ghosts == <<unlinked, ended, after>>
vars == <<now, pc, armed, task, cancel, calls, ghosts>>

NoEntry == [of |-> None, at |-> 0]
NoTask == [of |-> None, cancelled |-> FALSE]

Init ==
    /\ now = 0 /\ pc = [g \in Schedules |-> "new"]
    /\ armed = NoEntry /\ task = NoTask /\ cancel = [pc |-> "idle", of |-> {}]
    /\ stopped = FALSE /\ wheelStopped = FALSE /\ cancels = 0 /\ refused = 0
    /\ after = [g \in Schedules |-> 0]
    /\ unlinked = {} /\ ended = {}

Time ==
    /\ now < MaxTime /\ now' = now + 1
    /\ UNCHANGED <<pc, armed, task, cancel, calls, ghosts>>

-----------------------------------------------------------------------------
(************************ nextExecution, match, matchField ******************)

matchField(m, i) == Fields[i] = Any \/ Calendar[m][i] \in Fields[i]

\* Mutant: one field that matches is enough.
matchOne(m) == \E i \in DOMAIN Fields : matchField(m, i)

match(m) == \A i \in DOMAIN Fields : matchField(m, i)

\* Walks forward minute by minute; after a year it settles for that minute.
nextExecution(from) ==
    LET walk[i \in 1 .. SearchLimit + 1] ==
            IF i > SearchLimit THEN from + SearchLimit
            ELSE IF match(from + i) THEN from + i ELSE walk[i + 1]
    IN  walk[1]

\* When g is armed for: time.Now().Truncate(time.Minute), or now + interval.
NextFire(g) ==
    IF g \in Cron THEN Minute * nextExecution(now \div Minute) ELSE now + Interval

-----------------------------------------------------------------------------
(**************************** The timing wheel *****************************)

\* Schedule replaces the entry under the id, and refuses when the wheel has stopped.
WheelSchedule(g) ==
    IF wheelStopped THEN UNCHANGED <<armed, unlinked>>
    ELSE /\ armed' = [of |-> g, at |-> NextFire(g)]
         /\ unlinked' = (unlinked \ {g}) \union ({armed.of} \ {g, None})

\* Mutant: the entry stays in the index.
FireKeeps(g) ==
    /\ armed.of = g /\ armed.at <= now /\ pc[g] = "waiting"
    /\ UNCHANGED armed /\ pc' = [pc EXCEPT ![g] = "fired"]
    /\ UNCHANGED <<now, task, cancel, calls, ghosts>>

\* Mutant: an entry whose time has passed is skipped.
FireOnTime(g) ==
    /\ armed.of = g /\ armed.at = now
    /\ armed' = NoEntry /\ pc' = [pc EXCEPT ![g] = "fired"]
    /\ UNCHANGED <<now, task, cancel, calls, ghosts>>

\* The entry is due: its callback is launched on a goroutine of its own.
Fire(g) ==
    /\ armed.of = g /\ armed.at <= now
    /\ armed' = NoEntry /\ pc' = [pc EXCEPT ![g] = "fired"]
    /\ UNCHANGED <<now, task, cancel, calls, ghosts>>

-----------------------------------------------------------------------------
(****************** ScheduleRecurringTask, ScheduleCronTask ****************)

\* The task is tracked; only ScheduleRecurringTask looks at the stopped flag.
ScheduleTask(g) ==
    /\ pc[g] = "new" /\ \A h \in Schedules : h < g => pc[h] # "new"
    /\ IF stopped /\ g \notin Cron
       THEN pc' = [pc EXCEPT ![g] = "over"] /\ UNCHANGED task
       ELSE pc' = [pc EXCEPT ![g] = "arm"] /\ task' = [of |-> g, cancelled |-> FALSE]
    /\ UNCHANGED <<now, armed, cancel, calls, ghosts>>

ArmFirst(g) ==
    /\ pc[g] = "arm" /\ WheelSchedule(g)
    /\ pc' = [pc EXCEPT ![g] = IF wheelStopped THEN "over" ELSE "waiting"]
    /\ UNCHANGED <<now, task, cancel, calls, ended, after>>

\* The callback does nothing once the scheduler has stopped.
TestStopped(g) ==
    /\ pc[g] = "fired"
    /\ pc' = [pc EXCEPT ![g] = IF stopped THEN "over" ELSE "submit"]
    /\ UNCHANGED <<now, armed, task, cancel, calls, ghosts>>

\* A fresh task is submitted; if Submit refuses it, the error is ignored.
SubmitChild(g) ==
    /\ pc[g] = "submit" /\ pc' = [pc EXCEPT ![g] = "rearm"]
    /\ \/ /\ after' = [after EXCEPT ![g] = IF g \in ended THEN @ + 1 ELSE @]
          /\ UNCHANGED refused
       \/ stopped /\ UNCHANGED <<after, refused>>
       \/ refused < MaxRefused /\ refused' = refused + 1 /\ UNCHANGED after
    /\ UNCHANGED <<now, armed, task, cancel, stopped, wheelStopped, cancels, unlinked, ended>>

\* Mutant: an execution that Submit refuses ends the schedule.
RearmAccepted(g) ==
    /\ pc[g] = "rearm"
    /\ IF refused = 0 THEN WheelSchedule(g) ELSE UNCHANGED <<armed, unlinked>>
    /\ pc' = [pc EXCEPT ![g] = IF wheelStopped THEN "over" ELSE "waiting"]
    /\ UNCHANGED <<now, task, cancel, calls, ended, after>>

\* The callback arms the wheel for the next time, whatever has become of the task.
Rearm(g) ==
    /\ pc[g] = "rearm" /\ WheelSchedule(g)
    /\ pc' = [pc EXCEPT ![g] = IF wheelStopped THEN "over" ELSE "waiting"]
    /\ UNCHANGED <<now, task, cancel, calls, ended, after>>

-----------------------------------------------------------------------------
(**************************** Cancel, ShutDown *****************************)

\* Cancel marks the task it finds under the id, unless it is marked already.
Cancel ==
    /\ cancel.pc = "idle" /\ cancels < MaxCancels /\ cancels' = cancels + 1
    /\ cancel' = [pc |-> IF task = NoTask \/ task.cancelled THEN "take" ELSE "unlink",
                  of |-> {g \in Schedules : pc[g] \notin {"new", "arm"}}]
    /\ task' = [task EXCEPT !.cancelled = task # NoTask]
    /\ UNCHANGED <<now, pc, armed, stopped, wheelStopped, refused, ghosts>>

Ends == ended' = ended \union cancel.of

\* The wheel forgets the entry.  A task that was already marked, or is not
\* tracked, needs nothing more.
CancelUnlink ==
    /\ cancel.pc \in {"take", "unlink"}
    /\ armed' = NoEntry /\ unlinked' = unlinked \union ({armed.of} \ {None})
    /\ IF cancel.pc = "take" THEN Ends /\ cancel' = [cancel EXCEPT !.pc = "idle", !.of = {}]
       ELSE cancel' = [cancel EXCEPT !.pc = "finish"] /\ UNCHANGED ended
    /\ UNCHANGED <<now, pc, task, calls, after>>

\* What is tracked under the id is forgotten, if it is another task by now or not.
CancelFinish ==
    /\ cancel.pc = "finish" /\ cancel' = [pc |-> "idle", of |-> {}]
    /\ task' = NoTask /\ Ends
    /\ UNCHANGED <<now, pc, armed, calls, unlinked, after>>

ShutDown ==
    /\ ~stopped /\ stopped' = TRUE
    /\ UNCHANGED <<now, pc, armed, task, cancel, wheelStopped, cancels, refused, ghosts>>

\* ShutDown stops the wheel, which drops what is armed.
StopWheel ==
    /\ stopped /\ ~wheelStopped /\ wheelStopped' = TRUE
    /\ armed' = NoEntry
    /\ UNCHANGED <<now, pc, task, cancel, stopped, cancels, refused, ghosts>>

-----------------------------------------------------------------------------
callback(g) == TestStopped(g) \/ SubmitChild(g) \/ Rearm(g)

Next ==
    \/ Time \/ Cancel \/ CancelUnlink \/ CancelFinish \/ ShutDown \/ StopWheel
    \/ \E g \in Schedules : ScheduleTask(g) \/ ArmFirst(g) \/ Fire(g) \/ callback(g)

Spec == Init /\ [][Next]_vars

\* The clock, the wheel, a callback and a Cancel that has begun go on.
FairSpec ==
    /\ Spec /\ WF_vars(Time) /\ WF_vars(CancelUnlink \/ CancelFinish) /\ WF_vars(StopWheel)
    /\ \A g \in Schedules : WF_vars(ArmFirst(g) \/ Fire(g) \/ callback(g))

-----------------------------------------------------------------------------
(******************************** Properties *******************************)

\* The type invariant; an entry is never armed while its callback is under way.
TypeOK ==
    /\ now \in 0 .. MaxTime
    /\ pc \in [Schedules -> {"new", "arm", "waiting", "fired", "submit", "rearm", "over"}]
    /\ armed.of \in Schedules \union {None} /\ armed.at \in Nat
    /\ armed.of # None => pc[armed.of] = "waiting"
    /\ task.of \in Schedules \union {None}
    /\ cancel.pc \in {"idle", "take", "unlink", "finish"}

\* A schedule goes on until it is cancelled, or its id is scheduled anew, or
\* ShutDown: whenever its callback is not under way, the wheel has it armed,
\* even if Submit refused a task.
ScheduleGoesOn ==
    \A g \in Schedules :
        pc[g] = "waiting" /\ g \notin unlinked /\ ~wheelStopped => armed.of = g

\* ... and it fires: in the end all that was due within the time that passes has
\* been fired, and the schedule is armed for later.
KeepsFiring ==
    <>[](\A g \in Schedules :
            pc[g] \in {"new", "over"} \/ g \in unlinked \/ stopped
            \/ (pc[g] = "waiting" /\ armed.of = g /\ armed.at > now))

\* A cron schedule is armed for the first matching minute after the one it was
\* armed in, if there is one within the search limit.
Listed(m) == \A i \in DOMAIN Fields : Fields[i] # Any => Calendar[m][i] \in Fields[i]
NextIsFirstMatch ==
    LET from == now \div Minute
        ahead == {m \in from + 1 .. from + SearchLimit : Listed(m)}
        next == nextExecution(from)
    IN  ahead # {} => next \in ahead /\ \A m \in ahead : next <= m

\* A cancelled schedule submits at most one task more.
CancelStops == \A g \in Schedules : after[g] <= 1

=============================================================================
