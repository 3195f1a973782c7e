------------------------------ MODULE Workflow -------------------------------
(***************************************************************************)
(* Tasks that wait for other tasks (DependsOn, OnSuccess, OnFailure):      *)
(* SaveWaiting registers a child with several Redis commands, a parent's   *)
(* final outcome runs luaResolveDeps, and resolveWorkflow submits the      *)
(* children that became ready.  A failed or dead parent may be resubmitted *)
(* and end a second time, with another outcome.  loadTasks, which knows    *)
(* nothing of dependencies, runs beside all this.                          *)
(***************************************************************************)
EXTENDS Integers, FiniteSets, Sequences, SequencesExt

CONSTANTS
    Tasks,
    Deps,           \* Deps[t]: sequence of [parent, trigger], Dependencies
                    \* first, then DependsOn; empty for an ordinary task
    Keyed,          \* tasks submitted WithKey
    Nil,            \* a counter that does not exist
    Ends,           \* bound: Ends[t], the outcomes an execution of t may have
    Rerun,          \* bound: tasks that are executed again after a failure
    MaxReruns,      \* bound: how often, each of them
    MaxFaults       \* bound: commands that fail and submissions refused

Triggers == {"Succeeded", "Failed"}
Outcomes == Triggers \union {"Dead", "Cancelled"}

ASSUME DepsAssumption ==
    /\ DOMAIN Deps = Tasks
    /\ \A t \in Tasks : Deps[t] \in Seq([parent : Tasks, trigger : Triggers])

ASSUME BoundsAssumption ==
    /\ Ends \in [Tasks -> SUBSET Outcomes] /\ Keyed \subseteq Tasks
    /\ Rerun \subseteq Tasks /\ Nil \notin Int
    /\ MaxReruns \in Nat /\ MaxFaults \in Nat

VARIABLES
    step,           \* step[t]: how many commands of SaveWaiting have been sent
    body,           \* tasks whose record is stored
    children,       \* <<p, trigger, c>>: c is in the set <p>:children:<trigger>
    count,          \* count[t]: <t>:deps_count
    phase,          \* waiting, active, or the outcome of the last execution
    resolving,      \* resolving[t]: outcomes the ended task has yet to resolve
    ready,          \* ready[t]: children it was handed and has not submitted yet
    reruns,         \* reruns[t]: times it was executed again
    fired,          \* fired[t]: outcomes it has had
    released,       \* released[t]: how often resolveWorkflow submitted it
    missed,         \* children that a fault or an early parent got past
    faults

storage == <<body, children, count>>
vars == <<step, storage, phase, resolving, ready, reruns, fired, released, missed, faults>>

Roots == {t \in Tasks : Deps[t] = <<>>}

\* Tasks without dependencies have been submitted; one that the program would
\* submit later is one that does not end before.
Init ==
    /\ step = [t \in Tasks |-> 0] /\ count = [t \in Tasks |-> Nil]
    /\ body = Roots /\ children = {} /\ missed = {} /\ faults = 0
    /\ phase = [t \in Tasks |-> IF t \in Roots THEN "active" ELSE "waiting"]
    /\ resolving = [t \in Tasks |-> <<>>] /\ ready = [t \in Tasks |-> {}]
    /\ reruns = [t \in Tasks |-> 0] /\ fired = [t \in Tasks |-> {}]
    /\ released = [t \in Tasks |-> 0]

Works == UNCHANGED <<faults, missed>>
Fails(t) == faults < MaxFaults /\ faults' = faults + 1 /\ missed' = missed \union {t}

-----------------------------------------------------------------------------
(******************************* SaveWaiting *******************************)

\* The commands of SaveWaiting for t: SET body, one SADD each, SET deps_count.
Commands(t) == Len(Deps[t]) + 2
Registered(t) == t \in Roots \/ step[t] = Commands(t)
Submitting(t) == step' = [step EXCEPT ![t] = @ + 1]

\* Submit of a child.  The result of each command is ignored.
SetBody(t) ==
    /\ t \notin Roots /\ step[t] = 0 /\ Submitting(t)
    /\ (Works /\ body' = body \union {t}) \/ (Fails(t) /\ UNCHANGED body)
    /\ UNCHANGED <<children, count, phase, resolving, ready, reruns, fired, released>>

AddChild(t) ==
    /\ step[t] \in 1 .. Len(Deps[t]) /\ Submitting(t)
    /\ LET d == Deps[t][step[t]]
       IN  \/ Works /\ children' = children \union {<<d.parent, d.trigger, t>>}
           \/ Fails(t) /\ UNCHANGED children
    /\ UNCHANGED <<body, count, phase, resolving, ready, reruns, fired, released>>

\* Mutant: the counter includes the child itself.
SetCountSelf(t) ==
    /\ t \notin Roots /\ step[t] = Len(Deps[t]) + 1 /\ Submitting(t)
    /\ \/ Works /\ count' = [count EXCEPT ![t] = Len(Deps[t]) + 1]
       \/ Fails(t) /\ UNCHANGED count
    /\ UNCHANGED <<body, children, phase, resolving, ready, reruns, fired, released>>

SetCount(t) ==
    /\ t \notin Roots /\ step[t] = Len(Deps[t]) + 1 /\ Submitting(t)
    /\ \/ Works /\ count' = [count EXCEPT ![t] = Len(Deps[t])]
       \/ Fails(t) /\ UNCHANGED count
    /\ UNCHANGED <<body, children, phase, resolving, ready, reruns, fired, released>>

-----------------------------------------------------------------------------
(******************************** Execution ********************************)

\* Mutant: exhausted retries resolve only those who wait for StatusDead.
ResolvesDead(outcome) == <<outcome>>

\* What a final outcome resolves: exhausted retries count as a failure too.
Resolves(outcome) == IF outcome = "Dead" THEN <<"Failed", "Dead">> ELSE <<outcome>>

\* An execution ends for good (a failure that will be retried resolves nobody).
\* Only a task that failed without a retry strategy keeps its record.
Finish(t, outcome) ==
    /\ phase[t] = "active" /\ resolving[t] = <<>> /\ ready[t] = {}
    /\ phase' = [phase EXCEPT ![t] = outcome]
    /\ resolving' = [resolving EXCEPT ![t] = Resolves(outcome)]
    /\ fired' = [fired EXCEPT ![t] = @ \union
                                      {IF outcome = "Dead" THEN "Failed" ELSE outcome}]
    /\ body' = IF outcome = "Failed" THEN body ELSE body \ {t}
    /\ UNCHANGED <<step, children, count, ready, reruns, released, missed, faults>>

\* Resubmit puts it back into the local queue; loadTasks does the same to a
\* failed task, whose record is left.
Resubmit(t) ==
    /\ phase[t] \in {"Failed", "Dead"} /\ t \in Rerun /\ reruns[t] < MaxReruns
    /\ reruns' = [reruns EXCEPT ![t] = @ + 1]
    /\ phase' = [phase EXCEPT ![t] = "active"]
    /\ UNCHANGED <<step, storage, resolving, ready, fired, released, missed, faults>>

\* loadTasks of any instance claims a record that nobody holds, and executes it.
Load(t) ==
    /\ t \in body /\ phase[t] = "waiting"
    /\ phase' = [phase EXCEPT ![t] = "active"]
    /\ UNCHANGED <<step, storage, resolving, ready, reruns, fired, released, missed, faults>>

-----------------------------------------------------------------------------
(****************************** resolveWorkflow ****************************)

Waiters(p, trigger) == {c \in Tasks : <<p, trigger, c>> \in children}

\* DECR counts down from nothing as from zero.
Decr(c) == (IF count[c] = Nil THEN 0 ELSE count[c]) - 1

\* Mutant: a counter below zero counts as ready.
IsReadyBelow(c) == Decr(c) <= 0 /\ c \in body

\* luaResolveDeps hands out a child when its counter reaches zero.
IsReady(c) == Decr(c) = 0 /\ c \in body

\* Mutant: the children key is not deleted.
ForgetNone(p, trigger) == children

\* The script deletes the children key ...
Forget(p, trigger) == children \ {<<p, trigger, c>> : c \in Tasks}

\* ... and the counter of a child that is ready; all in one step.  A child
\* that is being registered is missed.
Resolve(p) ==
    /\ resolving[p] # <<>> /\ ready[p] = {}
    /\ LET trigger == Head(resolving[p])
           late == {c \in Tasks : ~Registered(c) /\
                       \E d \in ToSet(Deps[c]) : d.parent = p /\ d.trigger = trigger}
           asked == Waiters(p, trigger)
       IN  /\ children' = Forget(p, trigger)
           /\ count' = [c \in Tasks |-> CASE c \in asked /\ IsReady(c) -> Nil
                                          [] c \in asked /\ ~IsReady(c) -> Decr(c)
                                          [] OTHER -> count[c]]
           /\ ready' = [ready EXCEPT ![p] = {c \in asked : IsReady(c)}]
           /\ missed' = missed \union late
    /\ resolving' = [resolving EXCEPT ![p] = Tail(@)]
    /\ UNCHANGED <<step, body, phase, reruns, fired, released, faults>>

\* ResolveDependencies fails: its error is ignored and the outcome is lost.
ResolveFails(p) ==
    /\ resolving[p] # <<>> /\ ready[p] = {}
    /\ faults < MaxFaults /\ faults' = faults + 1
    /\ missed' = missed \union
          {c \in Tasks : \E d \in ToSet(Deps[c]) : d.parent = p}
    /\ resolving' = [resolving EXCEPT ![p] = Tail(@)]
    /\ UNCHANGED <<step, storage, phase, ready, reruns, fired, released>>

\* resolveWorkflow submits a ready child.  Submit may refuse it: the queue is
\* full, the type is unknown here, or the key is still held, which it is on
\* the instance that registered the child.
SubmitReady(p, c) ==
    /\ c \in ready[p]
    /\ ready' = [ready EXCEPT ![p] = @ \ {c}]
    /\ \/ /\ Works
          /\ phase' = [phase EXCEPT ![c] = "active"]
          /\ body' = body \union {c}
          /\ released' = [released EXCEPT ![c] = @ + 1]
       \/ /\ (c \in Keyed /\ Works) \/ Fails(c)
          /\ UNCHANGED <<phase, body, released>>
    /\ UNCHANGED <<step, children, count, resolving, reruns, fired>>

-----------------------------------------------------------------------------
Next ==
    \E t \in Tasks :
       \/ SetBody(t) \/ AddChild(t) \/ SetCount(t)
       \/ Resubmit(t) \/ Load(t) \/ Resolve(t) \/ ResolveFails(t)
       \/ \E outcome \in Ends[t] : Finish(t, outcome)
       \/ \E c \in Tasks : SubmitReady(t, c)

Spec == Init /\ [][Next]_vars

\* A Submit that has begun and a resolveWorkflow that has begun go on.
FairSpec ==
    /\ Spec
    /\ \A t \in Tasks :
          /\ WF_vars(AddChild(t) \/ SetCount(t))
          /\ WF_vars(Resolve(t) \/ \E c \in Tasks : SubmitReady(t, c))

-----------------------------------------------------------------------------
(******************************** Properties *******************************)

\* Every dependency of c has had the outcome c waits for.
Satisfied(c) == \A d \in ToSet(Deps[c]) : d.trigger \in fired[d.parent]

\* The type invariant; a counter never exceeds the number of dependencies.
TypeOK ==
    /\ body \subseteq Tasks /\ missed \subseteq Tasks
    /\ children \subseteq Tasks \X Triggers \X Tasks
    /\ phase \in [Tasks -> Outcomes \union {"waiting", "active"}]
    /\ \A t \in Tasks :
          /\ step[t] \in 0 .. Commands(t)
          /\ count[t] # Nil => count[t] \in Int /\ count[t] <= Len(Deps[t])
          /\ ToSet(resolving[t]) \subseteq Outcomes
          /\ ready[t] \subseteq Tasks

\* resolveWorkflow never submits a child before every one of its parents has
\* had the outcome the child waits for, whatever interleaves with its
\* registration and however often a parent is executed.
ReleasedAfterParents ==
    \A c \in Tasks :
        released[c] > 0 \/ (\E p \in Tasks : c \in ready[p]) => Satisfied(c)

\* ... and submits it at most once.
ReleasedOnce == \A c \in Tasks : released[c] <= 1

\* A child that was registered before its parents ended is submitted once
\* they have all had their outcomes, unless loadTasks took it before.  It must not
\* name one dependency twice (the set holds it once, the counter twice), nor
\* have a key (which its own waiting holds).
WaitersReleased ==
    <>[](\A c \in Tasks \ (Keyed \union Roots) :
            Registered(c) /\ Satisfied(c) /\ IsInjective(Deps[c])
            => released[c] = 1 \/ c \in missed \/ phase[c] # "waiting")

=============================================================================
