---------------------------- MODULE WorkflowProofs ----------------------------
(***************************************************************************)
(* Tasks that wait for other tasks, for every graph of dependencies and    *)
(* every number of reruns and faults: type correctness, no child is        *)
(* submitted before all its parents had the outcome it waits for, and none *)
(* is submitted twice.                                                     *)
(***************************************************************************)
EXTENDS Workflow, SequenceTheorems, FiniteSetTheorems, TLAPS

-----------------------------------------------------------------------------
(* Type correctness *)

Typed ==
    /\ step \in [Tasks -> Nat] /\ \A t \in Tasks : step[t] <= Commands(t)
    /\ count \in [Tasks -> Int \union {Nil}]
    /\ \A t \in Tasks : count[t] # Nil => count[t] <= Len(Deps[t])
    /\ body \subseteq Tasks /\ missed \subseteq Tasks
    /\ children \subseteq Tasks \X Triggers \X Tasks
    /\ phase \in [Tasks -> Outcomes \union {"waiting", "active"}]
    /\ resolving \in [Tasks -> Seq(Outcomes)]
    /\ ready \in [Tasks -> SUBSET Tasks]
    /\ fired \in [Tasks -> SUBSET Outcomes]
    /\ released \in [Tasks -> Nat]

\* The dependencies of a task.
LEMMA DepsFacts ==
    ASSUME NEW t \in Tasks
    PROVE  /\ Len(Deps[t]) \in Nat /\ DOMAIN Deps[t] = 1 .. Len(Deps[t])
           /\ \A k \in 1 .. Len(Deps[t]) : /\ Deps[t][k] \in ToSet(Deps[t])
                                           /\ Deps[t][k].parent \in Tasks
                                           /\ Deps[t][k].trigger \in Triggers
           /\ \A d \in ToSet(Deps[t]) : /\ d \in [parent : Tasks, trigger : Triggers]
                                        /\ d.parent \in Tasks /\ d.trigger \in Triggers
<1>1. Deps[t] \in Seq([parent : Tasks, trigger : Triggers])
    BY DepsAssumption
<1>2. /\ Len(Deps[t]) \in Nat /\ DOMAIN Deps[t] = 1 .. Len(Deps[t])
      /\ \A k \in 1 .. Len(Deps[t]) : Deps[t][k] \in [parent : Tasks, trigger : Triggers]
  <2> DEFINE D == [parent : Tasks, trigger : Triggers]
  <2>1. PICK s : s = Deps[t]
      OBVIOUS
  <2>2. s \in Seq(D)
      BY <1>1, <2>1
  <2> HIDE DEF D
  <2>3. Len(s) \in Nat /\ DOMAIN s = 1 .. Len(s) /\ \A k \in 1 .. Len(s) : s[k] \in D
      BY <2>2, LenProperties, ElementOfSeq
  <2>4. QED
      BY <2>1, <2>3 DEF D
<1>3. QED
    BY <1>2 DEF ToSet

\* What luaResolveDeps does to a counter.
LEMMA ResolveCount ==
    ASSUME NEW p \in Tasks, Resolve(p), NEW c \in Tasks
    PROVE  LET asked == Waiters(p, Head(resolving[p]))
           IN  /\ c \notin asked => count'[c] = count[c]
               /\ c \in asked /\ IsReady(c) => count'[c] = Nil
               /\ c \in asked /\ ~IsReady(c) => count'[c] = Decr(c)
<1> DEFINE asked == Waiters(p, Head(resolving[p]))
           new(x) == CASE x \in asked /\ IsReady(x) -> Nil
                       [] x \in asked /\ ~IsReady(x) -> Decr(x)
                       [] OTHER -> count[x]
<1>1. count' = [x \in Tasks |-> new(x)]
    BY DEF Resolve
<1>2. count'[c] = new(c)
    BY <1>1
<1> HIDE DEF asked
<1>3. /\ c \notin asked => new(c) = count[c]
      /\ c \in asked /\ IsReady(c) => new(c) = Nil
      /\ c \in asked /\ ~IsReady(c) => new(c) = Decr(c)
    OBVIOUS
<1> HIDE DEF new
<1>4. QED
    BY <1>2, <1>3 DEF asked

\* What a counter is worth, and one less.
LEMMA DecrTyped ==
    ASSUME Typed, NEW c \in Tasks
    PROVE  /\ Decr(c) \in Int /\ Decr(c) <= Len(Deps[c])
           /\ Decr(c) >= 0 => /\ count[c] # Nil /\ count[c] \in Int
                              /\ count[c] > 0 /\ Decr(c) = count[c] - 1
BY DepsFacts, BoundsAssumption DEF Typed, Decr

\* The storage and SaveWaiting.
LEMMA TypedStep ==
    ASSUME Typed, Next
    PROVE  Typed'
<1> USE DEF Typed
<1>1. ASSUME NEW t \in Tasks, SetBody(t) PROVE Typed'
    BY <1>1, DepsFacts DEF SetBody, Submitting, Works, Fails, Commands
<1>2. ASSUME NEW t \in Tasks, AddChild(t) PROVE Typed'
  <2>1. /\ step' = [step EXCEPT ![t] = @ + 1] /\ step[t] <= Len(Deps[t])
        /\ step[t] \in 1 .. Len(Deps[t])
      BY <1>2 DEF AddChild, Submitting
  <2>2. step' \in [Tasks -> Nat] /\ \A u \in Tasks : step'[u] <= Commands(u)
      BY <2>1, DepsFacts DEF Commands
  <2>3. children' \subseteq Tasks \X Triggers \X Tasks
    <3>1. PICK d \in [parent : Tasks, trigger : Triggers] :
              children' \subseteq children \union {<<d.parent, d.trigger, t>>}
      <4>1. PICK d : d = Deps[t][step[t]]
          OBVIOUS
      <4>2. d \in [parent : Tasks, trigger : Triggers]
          BY <2>1, <4>1, DepsFacts
      <4>3. children' \subseteq children \union {<<d.parent, d.trigger, t>>}
          BY <1>2, <4>1 DEF AddChild
      <4>4. QED
          BY <4>2, <4>3
    <3>2. QED
        BY <3>1
  <2>4. missed' \subseteq Tasks
      BY <1>2 DEF AddChild, Works, Fails
  <2>5. QED
      BY <1>2, <2>2, <2>3, <2>4 DEF AddChild
<1>3. ASSUME NEW t \in Tasks, SetCount(t) PROVE Typed'
  <2>1. step' \in [Tasks -> Nat] /\ \A u \in Tasks : step'[u] <= Commands(u)
      BY <1>3, DepsFacts DEF SetCount, Submitting, Commands
  <2>2. /\ count' \in [Tasks -> Int \union {Nil}]
        /\ \A u \in Tasks : count'[u] # Nil => count'[u] <= Len(Deps[u])
      BY <1>3, DepsFacts DEF SetCount
  <2>3. missed' \subseteq Tasks
      BY <1>3 DEF SetCount, Works, Fails
  <2>4. QED
      BY <1>3, <2>1, <2>2, <2>3 DEF SetCount
<1>4. ASSUME NEW t \in Tasks, Resubmit(t) \/ Load(t) PROVE Typed'
    BY <1>4 DEF Resubmit, Load, storage
<1>5. ASSUME NEW t \in Tasks, Resolve(t) PROVE Typed'
  <2>1. resolving[t] \in Seq(Outcomes) /\ resolving[t] # <<>>
      BY <1>5 DEF Resolve
  <2>2. resolving' \in [Tasks -> Seq(Outcomes)]
      BY <1>5, <2>1, HeadTailProperties DEF Resolve
  <2>3. ready' \in [Tasks -> SUBSET Tasks] /\ missed' \subseteq Tasks
      BY <1>5 DEF Resolve, Waiters
  <2>4. children' \subseteq children
      BY <1>5 DEF Resolve, Forget
  <2>5. ASSUME NEW c \in Tasks
        PROVE  /\ count'[c] \in Int \union {Nil}
               /\ count'[c] # Nil => count'[c] <= Len(Deps[c])
      BY <1>5, ResolveCount, DecrTyped
  <2>6. count' \in [Tasks -> Int \union {Nil}]
    <3>1. count' = [c \in Tasks |-> count'[c]]
        BY <1>5 DEF Resolve
    <3>2. QED
        BY <2>5, <3>1
  <2>7. UNCHANGED <<step, body, phase, fired, released>>
      BY <1>5 DEF Resolve
  <2>8. QED
      BY <2>2, <2>3, <2>4, <2>5, <2>6, <2>7 DEF Commands
<1>6. ASSUME NEW t \in Tasks, ResolveFails(t) PROVE Typed'
  <2>1. resolving[t] \in Seq(Outcomes) /\ resolving[t] # <<>>
      BY <1>6 DEF ResolveFails
  <2>2. resolving' \in [Tasks -> Seq(Outcomes)]
      BY <1>6, <2>1, HeadTailProperties DEF ResolveFails
  <2>3. missed' \subseteq Tasks
      BY <1>6 DEF ResolveFails
  <2>4. QED
      BY <1>6, <2>2, <2>3 DEF ResolveFails, storage, Commands
<1>7. ASSUME NEW t \in Tasks, NEW outcome \in Ends[t], Finish(t, outcome) PROVE Typed'
  <2>1. outcome \in Outcomes
      BY BoundsAssumption
  <2>2. resolving' \in [Tasks -> Seq(Outcomes)]
    <3>1. Resolves(outcome) \in Seq(Outcomes)
      <4>1. <<"Failed", "Dead">> \in Seq(Outcomes)
        <5>1. "Failed" \in Outcomes /\ "Dead" \in Outcomes
            BY DEF Outcomes, Triggers
        <5>2. QED
            BY <5>1
      <4>2. <<outcome>> \in Seq(Outcomes)
          BY <2>1
      <4>3. QED
          BY <4>1, <4>2 DEF Resolves
    <3>2. QED
        BY <1>7, <3>1 DEF Finish
  <2>3. fired' \in [Tasks -> SUBSET Outcomes]
    <3>1. (IF outcome = "Dead" THEN "Failed" ELSE outcome) \in Outcomes
        BY <2>1 DEF Outcomes, Triggers
    <3>2. QED
        BY <1>7, <3>1 DEF Finish
  <2>4. QED
      BY <1>7, <2>1, <2>2, <2>3 DEF Finish, Commands
<1>8. ASSUME NEW t \in Tasks, NEW c \in Tasks, SubmitReady(t, c) PROVE Typed'
  <2>1. ready' \in [Tasks -> SUBSET Tasks]
      BY <1>8 DEF SubmitReady
  <2>2. phase' \in [Tasks -> Outcomes \union {"waiting", "active"}]
      BY <1>8 DEF SubmitReady
  <2>3. body' \subseteq Tasks /\ missed' \subseteq Tasks
      BY <1>8 DEF SubmitReady, Works, Fails
  <2>4. released' \in [Tasks -> Nat]
      BY <1>8 DEF SubmitReady
  <2>5. UNCHANGED <<step, children, count, resolving, fired>>
      BY <1>8 DEF SubmitReady
  <2>6. QED
      BY <2>1, <2>2, <2>3, <2>4, <2>5 DEF Commands
<1>9. QED
    BY <1>1, <1>2, <1>3, <1>4, <1>5, <1>6, <1>7, <1>8 DEF Next

\* The program starts with the tasks that wait for nobody.
LEMMA InitTyped == Init => Typed
<1> SUFFICES ASSUME Init PROVE Typed
    OBVIOUS
<1>1. \A t \in Tasks : 0 <= Commands(t)
    BY DepsFacts DEF Commands
<1>2. QED
    BY <1>1 DEF Init, Typed, Roots, Outcomes

\* The state is typed at all times.
LEMMA AlwaysTyped == Spec => []Typed
<1>1. Typed /\ [Next]_vars => Typed'
  <2>1. CASE Next
      BY <2>1, TypedStep
  <2>2. CASE UNCHANGED vars
      BY <2>2 DEF Typed, vars, storage, Commands
  <2>3. QED
      BY <2>1, <2>2
<1>2. QED
    BY <1>1, InitTyped, PTL DEF Spec

\* Type correctness: the keys SaveWaiting and luaResolveDeps work on keep their
\* shape, and no counter exceeds the number of dependencies, for every graph.
THEOREM TypeCorrect == Spec => []TypeOK
<1>1. Typed => TypeOK
  <2> SUFFICES ASSUME Typed PROVE TypeOK
      OBVIOUS
  <2>1. ASSUME NEW t \in Tasks
        PROVE  /\ step[t] \in 0 .. Commands(t)
               /\ count[t] # Nil => count[t] \in Int /\ count[t] <= Len(Deps[t])
               /\ ready[t] \subseteq Tasks
      BY DepsFacts DEF Typed, Commands
  <2>2. ASSUME NEW t \in Tasks
        PROVE  ToSet(resolving[t]) \subseteq Outcomes
      BY DEF Typed, ToSet
  <2>3. QED
      BY <2>1, <2>2 DEF Typed, TypeOK
<1>2. QED
    BY <1>1, AlwaysTyped, PTL

-----------------------------------------------------------------------------
(* The counter of a child that can still be released                       *)

\* A child that resolveWorkflow has submitted, or is about to.
Spent(c) == released[c] > 0 \/ \E p \in Tasks : c \in ready[p]

\* Its counter can still reach zero.
Live(c) == count[c] # Nil /\ count[c] > 0

\* The dependencies whose outcome is still to come, or still to be counted.
Wanted(c) == {d \in ToSet(Deps[c]) : \/ <<d.parent, d.trigger, c>> \in children
                                     \/ d.trigger \notin fired[d.parent]}

\* A child is in the sets its dependencies name only.
Declared ==
    \A p \in Tasks, s \in Triggers, c \in Tasks :
        <<p, s, c>> \in children => [parent |-> p, trigger |-> s] \in ToSet(Deps[c])

\* What a task has yet to resolve it has had as an outcome.
ResolvesFired == \A p \in Tasks : ToSet(resolving[p]) \intersect Triggers \subseteq fired[p]

\* Only the last command of SaveWaiting makes a counter positive, when nothing
\* is added to the sets any more; each later decrement takes one dependency out
\* of Wanted, so that the counter is never too small.
Counted ==
    \A c \in Tasks :
        /\ Live(c) => step[c] = Commands(c) /\ Cardinality(Wanted(c)) <= count[c]
        /\ Live(c) => ~Spent(c)
        /\ Spent(c) => step[c] = Commands(c) /\ Satisfied(c)

\* One handler at most has the child in hand, and none once it is released.
OneRelease ==
    \A c \in Tasks :
        /\ released[c] <= 1
        /\ \A p \in Tasks : c \in ready[p] => released[c] = 0
        /\ \A p, q \in Tasks : c \in ready[p] /\ c \in ready[q] => p = q

Inv == Declared /\ ResolvesFired /\ Counted /\ OneRelease

\* No more dependencies are wanted than there are.
LEMMA WantedFinite ==
    ASSUME NEW c \in Tasks, NEW W \in SUBSET ToSet(Deps[c])
    PROVE  IsFiniteSet(W) /\ Cardinality(W) \in Nat /\ Cardinality(W) <= Len(Deps[c])
<1> DEFINE n == Len(Deps[c])
<1>1. n \in Nat /\ DOMAIN Deps[c] = 1 .. n
    BY DepsFacts
<1>2. IsFiniteSet(1 .. n) /\ Cardinality(1 .. n) = n
    BY <1>1, FS_Interval
<1>3. [k \in 1 .. n |-> Deps[c][k]] \in Surjection(1 .. n, ToSet(Deps[c]))
    BY <1>1 DEF Surjection, ToSet
<1>4. IsFiniteSet(ToSet(Deps[c])) /\ Cardinality(ToSet(Deps[c])) <= n
    BY <1>2, <1>3, FS_Surjection
<1>5. IsFiniteSet(W) /\ Cardinality(W) <= Cardinality(ToSet(Deps[c]))
    BY <1>4, FS_Subset
<1>6. Cardinality(W) \in Nat /\ Cardinality(ToSet(Deps[c])) \in Nat
    BY <1>4, <1>5, FS_CardinalityType
<1>7. QED
    BY <1>1, <1>4, <1>5, <1>6

\* A set of dependencies that lost one of them.
LEMMA OneLess ==
    ASSUME NEW c \in Tasks, NEW W \in SUBSET ToSet(Deps[c]), NEW V, NEW d \in W,
           V \subseteq W \ {d}
    PROVE  /\ Cardinality(V) <= Cardinality(W) - 1
           /\ Cardinality(W) <= 1 => V = {}
<1>1. IsFiniteSet(W) /\ Cardinality(W) \in Nat
    BY WantedFinite
<1>2. IsFiniteSet(W \ {d}) /\ Cardinality(W \ {d}) = Cardinality(W) - 1
    BY <1>1, FS_RemoveElement
<1>3. IsFiniteSet(V) /\ Cardinality(V) <= Cardinality(W \ {d})
    BY <1>2, FS_Subset
<1>4. Cardinality(V) \in Nat
    BY <1>3, FS_CardinalityType
<1>5. Cardinality(V) = 0 => V = {}
    BY <1>3, FS_EmptySet
<1>6. QED
    BY <1>1, <1>2, <1>3, <1>4, <1>5

\* The sets and the counters stay, or shrink, and no outcome is taken back.
LEMMA CountedFrame ==
    ASSUME Typed, Counted,
           UNCHANGED count, \A c \in Tasks : step[c] = Commands(c) => step'[c] = step[c],
           \A c \in Tasks : step[c] = Commands(c) =>
              \A p \in Tasks, s \in Triggers : <<p, s, c>> \in children' => <<p, s, c>> \in children,
           \A p \in Tasks : fired[p] \subseteq fired'[p],
           \A c \in Tasks : Spent(c)' => Spent(c)
    PROVE  Counted'
<1>1. ASSUME NEW c \in Tasks, Satisfied(c) PROVE Satisfied(c)'
    BY <1>1, DepsFacts DEF Satisfied
<1>2. ASSUME NEW c \in Tasks, step[c] = Commands(c)
      PROVE  Wanted(c)' \subseteq Wanted(c)
    BY <1>2, DepsFacts DEF Wanted
<1>3. ASSUME NEW c \in Tasks, Live(c)
      PROVE  Cardinality(Wanted(c)') <= Cardinality(Wanted(c))
  <2>1. Wanted(c)' \subseteq Wanted(c)
      BY <1>2, <1>3 DEF Counted
  <2>2. Wanted(c) \subseteq ToSet(Deps[c])
      BY DEF Wanted
  <2>3. IsFiniteSet(Wanted(c))
      BY <2>2, WantedFinite
  <2>4. QED
      BY <2>1, <2>3, FS_Subset
<1>4. ASSUME NEW c \in Tasks
      PROVE  /\ Live(c)' => step'[c] = Commands(c)' /\ Cardinality(Wanted(c)') <= count'[c]
             /\ Live(c)' => ~Spent(c)'
             /\ Spent(c)' => step'[c] = Commands(c)' /\ Satisfied(c)'
  <2>1. Live(c)' = Live(c) /\ Commands(c)' = Commands(c)
      BY DEF Live, Commands
  <2>2. ASSUME Live(c)
        PROVE  step'[c] = Commands(c) /\ Cardinality(Wanted(c)') <= count'[c]
    <3>1. Cardinality(Wanted(c)') <= Cardinality(Wanted(c)) /\ Cardinality(Wanted(c)) <= count[c]
        BY <1>3, <2>2 DEF Counted
    <3>2. Wanted(c)' \subseteq ToSet(Deps[c]) /\ Wanted(c) \subseteq ToSet(Deps[c])
        BY DEF Wanted
    <3>3. Cardinality(Wanted(c)') \in Nat /\ Cardinality(Wanted(c)) \in Nat
        BY <3>2, WantedFinite
    <3>4. count[c] \in Int
        BY <2>2 DEF Typed, Live
    <3>5. QED
        BY <2>2, <3>1, <3>3, <3>4 DEF Counted
  <2>3. QED
      BY <1>1, <2>1, <2>2 DEF Counted
<1>5. QED
    BY <1>4 DEF Counted

\* SaveWaiting: the sets fill up while the counter is not positive yet.
LEMMA SaveWaitingStep ==
    ASSUME Typed, Inv, NEW t \in Tasks, SetBody(t) \/ AddChild(t) \/ SetCount(t)
    PROVE  Inv'
<1>0. /\ step' = [step EXCEPT ![t] = @ + 1] /\ step[t] \in Nat /\ step[t] < Commands(t)
      /\ UNCHANGED <<resolving, ready, fired, released>>
    BY DepsFacts DEF SetBody, AddChild, SetCount, Submitting, Commands, Typed
<1>1. ResolvesFired' /\ OneRelease'
    BY <1>0 DEF Inv, ResolvesFired, OneRelease
<1>2. \A c \in Tasks : step[c] = Commands(c) => step'[c] = step[c]
    BY <1>0, DepsFacts DEF Typed, Commands
<1>3. \A c \in Tasks : Spent(c)' => Spent(c)
    BY <1>0 DEF Spent
<1>4. CASE SetBody(t)
  <2>1. Counted'
      BY <1>0, <1>2, <1>3, <1>4, CountedFrame DEF Inv, SetBody
  <2>2. Declared'
      BY <1>4 DEF SetBody, Inv, Declared
  <2>3. QED
      BY <1>1, <2>1, <2>2 DEF Inv
<1>5. CASE AddChild(t)
  <2>1. PICK d : /\ d \in ToSet(Deps[t]) /\ d \in [parent : Tasks, trigger : Triggers]
                 /\ children' \subseteq children \union {<<d.parent, d.trigger, t>>}
    <3>1. PICK d : d = Deps[t][step[t]]
        OBVIOUS
    <3>2. step[t] \in 1 .. Len(Deps[t])
        BY <1>5 DEF AddChild
    <3>3. d \in ToSet(Deps[t]) /\ d \in [parent : Tasks, trigger : Triggers]
        BY <3>1, <3>2, DepsFacts
    <3>4. children' \subseteq children \union {<<d.parent, d.trigger, t>>}
        BY <1>5, <3>1 DEF AddChild
    <3>5. QED
        BY <3>3, <3>4
  <2>2. \A p \in Tasks, s \in Triggers, c \in Tasks :
            <<p, s, c>> \in children' =>
               \/ <<p, s, c>> \in children
               \/ c = t /\ p = d.parent /\ s = d.trigger
      BY <2>1
  <2>3. d = [parent |-> d.parent, trigger |-> d.trigger]
      BY <2>1
  <2>4. Declared'
      BY <2>1, <2>2, <2>3 DEF Inv, Declared
  <2>5. Commands(t) # step[t]
      BY <1>0, DepsFacts DEF Commands
  <2>6. Counted'
      BY <1>0, <1>2, <1>3, <1>5, <2>2, <2>5, CountedFrame DEF Inv, AddChild
  <2>7. QED
      BY <1>1, <2>4, <2>6 DEF Inv
<1>6. CASE SetCount(t)
  <2>1. CASE UNCHANGED count
    <3>1. Counted'
        BY <1>0, <1>2, <1>3, <1>6, <2>1, CountedFrame DEF Inv, SetCount
    <3>2. Declared'
        BY <1>6 DEF SetCount, Inv, Declared
    <3>3. QED
        BY <1>1, <3>1, <3>2 DEF Inv
  <2>2. CASE count' = [count EXCEPT ![t] = Len(Deps[t])]
    <3>1. Declared' /\ UNCHANGED children
        BY <1>6 DEF SetCount, Inv, Declared
    <3>2. step'[t] = Commands(t)
        BY <1>0, <1>6 DEF SetCount, Commands, Typed
    <3>3. ~Spent(t)
        BY <1>0, DepsFacts DEF Inv, Counted, Commands
    <3>4. ASSUME NEW c \in Tasks
          PROVE  /\ Live(c)' => step'[c] = Commands(c)' /\ Cardinality(Wanted(c)') <= count'[c]
                 /\ Live(c)' => ~Spent(c)'
                 /\ Spent(c)' => step'[c] = Commands(c)' /\ Satisfied(c)'
      <4>1. CASE c = t
        <5>1. Wanted(t)' \subseteq ToSet(Deps[t])
            BY DEF Wanted
        <5>2. Cardinality(Wanted(t)') <= Len(Deps[t])
            BY <5>1, WantedFinite
        <5>3. count'[t] = Len(Deps[t])
            BY <2>2 DEF Typed
        <5>4. QED
            BY <1>3, <3>2, <3>3, <4>1, <5>2, <5>3 DEF Commands
      <4>2. CASE c # t
        <5>1. count'[c] = count[c] /\ step'[c] = step[c]
            BY <1>0, <2>2, <4>2 DEF Typed
        <5>2. Live(c)' = Live(c)
            BY <5>1 DEF Live
        <5>3. Wanted(c)' = Wanted(c) /\ Satisfied(c)' = Satisfied(c) /\ Spent(c)' = Spent(c)
            BY <1>0, <3>1 DEF Wanted, Satisfied, Spent
        <5>4. QED
            BY <5>1, <5>2, <5>3 DEF Inv, Counted, Commands
      <4>3. QED
          BY <4>1, <4>2
    <3>5. Counted'
        BY <3>4 DEF Counted
    <3>6. QED
        BY <1>1, <3>1, <3>5 DEF Inv
  <2>3. QED
      BY <1>6, <2>1, <2>2 DEF SetCount
<1>7. QED
    BY <1>4, <1>5, <1>6

\* luaResolveDeps: whoever is counted down leaves a set, and a child that
\* reaches zero has left the last one.
LEMMA ResolveStep ==
    ASSUME Typed, Inv, NEW p \in Tasks, Resolve(p)
    PROVE  Inv'
<1> DEFINE s == Head(resolving[p])
           asked == Waiters(p, s)
<1>1. /\ resolving[p] \in Seq(Outcomes) /\ resolving[p] # <<>>
      /\ resolving' = [resolving EXCEPT ![p] = Tail(resolving[p])]
      /\ children' = children \ {<<p, s, c>> : c \in Tasks}
      /\ ready' = [ready EXCEPT ![p] = {c \in asked : IsReady(c)}]
      /\ ready[p] = {}
      /\ UNCHANGED <<step, fired, released>>
    BY DEF Resolve, Typed, Forget
<1>2. s \in ToSet(resolving[p]) /\ ToSet(Tail(resolving[p])) \subseteq ToSet(resolving[p])
  <2>1. PICK q : q = resolving[p]
      OBVIOUS
  <2>2. q \in Seq(Outcomes) /\ q # <<>>
      BY <1>1, <2>1
  <2>3. Head(q) \in ToSet(q)
      BY <2>2 DEF ToSet
  <2>4. ToSet(Tail(q)) \subseteq ToSet(q)
    <3>1. Tail(q) \in Seq(Outcomes) /\ Len(Tail(q)) = Len(q) - 1
          /\ \A i \in 1 .. Len(Tail(q)) : Tail(q)[i] = q[i + 1]
        BY <2>2, HeadTailProperties
    <3>2. DOMAIN Tail(q) = 1 .. Len(Tail(q)) /\ DOMAIN q = 1 .. Len(q) /\ Len(q) \in Nat
        BY <2>2, <3>1
    <3>3. \A i \in DOMAIN Tail(q) : i + 1 \in DOMAIN q /\ Tail(q)[i] = q[i + 1]
        BY <3>1, <3>2
    <3>4. QED
        BY <3>3 DEF ToSet
  <2>5. QED
      BY <2>1, <2>3, <2>4
<1>3. ResolvesFired'
    BY <1>1, <1>2 DEF Inv, ResolvesFired, Typed
<1>4. Declared'
    BY <1>1 DEF Inv, Declared
\* Somebody who waits for s: s is a trigger, p has had it, and it was wanted.
<1>5. ASSUME NEW c \in asked
      PROVE  /\ c \in Tasks /\ s \in Triggers /\ s \in fired[p]
             /\ [parent |-> p, trigger |-> s] \in Wanted(c)
             /\ Wanted(c)' \subseteq Wanted(c) \ {[parent |-> p, trigger |-> s]}
  <2>1. c \in Tasks /\ <<p, s, c>> \in children
      BY <1>5 DEF Waiters
  <2>2. s \in Triggers
      BY <2>1 DEF Typed
  <2>3. s \in fired[p]
      BY <1>2, <2>2 DEF Inv, ResolvesFired
  <2>4. [parent |-> p, trigger |-> s] \in ToSet(Deps[c])
      BY <2>1, <2>2 DEF Inv, Declared
  <2>5. [parent |-> p, trigger |-> s] \in Wanted(c)
      BY <2>1, <2>4 DEF Wanted
  <2>6. Wanted(c)' \subseteq Wanted(c)
      BY <1>1 DEF Wanted
  <2>7. [parent |-> p, trigger |-> s] \notin Wanted(c)'
      BY <1>1, <2>1, <2>3 DEF Wanted
  <2>8. QED
      BY <2>1, <2>2, <2>3, <2>5, <2>6, <2>7
<1>6. ASSUME NEW c \in Tasks
      PROVE  /\ c \notin asked => count'[c] = count[c]
             /\ c \in asked /\ IsReady(c) => count'[c] = Nil
             /\ c \in asked /\ ~IsReady(c) => count'[c] = Decr(c)
    BY ResolveCount
<1>7. ASSUME NEW c \in Tasks, Satisfied(c) PROVE Satisfied(c)'
    BY <1>1, <1>7 DEF Satisfied
<1>8. ASSUME NEW c \in Tasks
      PROVE  Commands(c)' = Commands(c) /\ step'[c] = step[c]
    BY <1>1 DEF Commands
<1> HIDE DEF s
\* A child that becomes ready was live, and wanted this outcome only.
<1>9. ASSUME NEW c \in asked, IsReady(c)
      PROVE  /\ Live(c) /\ ~Spent(c) /\ ~Live(c)'
             /\ step[c] = Commands(c) /\ Satisfied(c)'
  <2>1. Decr(c) = 0 /\ c \in Tasks
      BY <1>5, <1>9 DEF IsReady
  <2>2. Live(c) /\ count[c] = 1
      BY <2>1, DecrTyped DEF Live
  <2>3. Cardinality(Wanted(c)) <= 1 /\ ~Spent(c) /\ step[c] = Commands(c)
      BY <2>1, <2>2 DEF Inv, Counted
  <2>4. Wanted(c) \subseteq ToSet(Deps[c])
      BY DEF Wanted
  <2>5. Wanted(c)' = {}
      BY <1>5, <2>1, <2>3, <2>4, OneLess
  <2>6. Satisfied(c)'
      BY <2>5 DEF Wanted, Satisfied
  <2>7. count'[c] = Nil
      BY <1>6, <1>9, <2>1
  <2>8. QED
      BY <2>2, <2>3, <2>6, <2>7 DEF Live
\* Who is in hand after the step: those of before, and those who became ready.
<1>10. ASSUME NEW c \in Tasks, NEW q \in Tasks
       PROVE  c \in ready'[q] <=> (c \in ready[q] \/ (q = p /\ c \in asked /\ IsReady(c)))
    BY <1>1 DEF Typed
<1>11. ASSUME NEW c \in Tasks
       PROVE  Spent(c)' <=> (Spent(c) \/ (c \in asked /\ IsReady(c)))
    BY <1>1, <1>10 DEF Spent
<1> HIDE DEF asked
<1>12. ASSUME NEW c \in Tasks, Live(c)', ~(c \in asked /\ IsReady(c))
       PROVE  Live(c) /\ Cardinality(Wanted(c)') <= count'[c]
  <2>1. Wanted(c) \subseteq ToSet(Deps[c]) /\ Wanted(c)' \subseteq ToSet(Deps[c])
      BY DEF Wanted
  <2>2. Cardinality(Wanted(c)) \in Nat /\ Cardinality(Wanted(c)') \in Nat /\ IsFiniteSet(Wanted(c))
      BY <2>1, WantedFinite
  <2>3. CASE c \notin asked
    <3>1. count'[c] = count[c] /\ Live(c)
        BY <1>6, <1>12, <2>3 DEF Live
    <3>2. Wanted(c)' \subseteq Wanted(c)
        BY <1>1 DEF Wanted
    <3>3. Cardinality(Wanted(c)') <= Cardinality(Wanted(c))
        BY <2>2, <3>2, FS_Subset
    <3>4. Cardinality(Wanted(c)) <= count[c] /\ count[c] \in Int
        BY <3>1 DEF Inv, Counted, Live, Typed
    <3>5. QED
        BY <2>2, <3>1, <3>3, <3>4
  <2>4. CASE c \in asked
    <3>1. count'[c] = Decr(c) /\ Decr(c) > 0
        BY <1>6, <1>12, <2>4 DEF Live
    <3>2. Live(c) /\ count'[c] = count[c] - 1 /\ count[c] \in Int
        BY <3>1, DecrTyped DEF Live
    <3>3. Cardinality(Wanted(c)) <= count[c]
        BY <3>2 DEF Inv, Counted
    <3>4. Cardinality(Wanted(c)') <= Cardinality(Wanted(c)) - 1
        BY <1>5, <2>1, <2>4, OneLess
    <3>5. QED
        BY <2>2, <3>2, <3>3, <3>4
  <2>5. QED
      BY <2>3, <2>4
<1>13. Counted'
  <2>1. ASSUME NEW c \in Tasks
        PROVE  /\ Live(c)' => step'[c] = Commands(c)' /\ Cardinality(Wanted(c)') <= count'[c]
               /\ Live(c)' => ~Spent(c)'
               /\ Spent(c)' => step'[c] = Commands(c)' /\ Satisfied(c)'
    <3>1. CASE c \in asked /\ IsReady(c)
        BY <1>8, <1>9, <3>1
    <3>2. CASE ~(c \in asked /\ IsReady(c))
        BY <1>7, <1>8, <1>11, <1>12, <3>2 DEF Inv, Counted
    <3>3. QED
        BY <3>1, <3>2
  <2>2. QED
      BY <2>1 DEF Counted
<1>14. OneRelease'
  <2>1. ASSUME NEW c \in Tasks
        PROVE  /\ released'[c] <= 1
               /\ \A q \in Tasks : c \in ready'[q] => released'[c] = 0
               /\ \A q, r \in Tasks : c \in ready'[q] /\ c \in ready'[r] => q = r
    <3>1. CASE c \in asked /\ IsReady(c)
      <4>1. released[c] = 0 /\ \A q \in Tasks : c \notin ready[q]
          BY <1>9, <3>1 DEF Spent, Typed
      <4>2. QED
          BY <1>1, <1>10, <4>1
    <3>2. CASE ~(c \in asked /\ IsReady(c))
        BY <1>1, <1>10, <3>2 DEF Inv, OneRelease
    <3>3. QED
        BY <3>1, <3>2
  <2>2. QED
      BY <2>1 DEF OneRelease
<1>15. QED
    BY <1>3, <1>4, <1>13, <1>14 DEF Inv

\* resolveWorkflow submits a ready child, or is refused: it is in hand no more.
LEMMA SubmitReadyStep ==
    ASSUME Typed, Inv, NEW p \in Tasks, NEW c \in Tasks, SubmitReady(p, c)
    PROVE  Inv'
<1>1. /\ c \in ready[p] /\ ready' = [ready EXCEPT ![p] = @ \ {c}]
      /\ UNCHANGED <<step, children, count, resolving, fired>>
      /\ UNCHANGED released \/ released' = [released EXCEPT ![c] = @ + 1]
    BY DEF SubmitReady
<1>2. Declared' /\ ResolvesFired'
    BY <1>1 DEF Inv, Declared, ResolvesFired
<1>3. ASSUME NEW x \in Tasks, NEW q \in Tasks
      PROVE  x \in ready'[q] <=> (x \in ready[q] /\ ~(x = c /\ q = p))
    BY <1>1 DEF Typed
<1>4. ASSUME NEW x \in Tasks PROVE Spent(x)' => Spent(x)
    BY <1>1, <1>3 DEF Spent, Typed
<1>5. Counted'
    BY <1>1, <1>4, CountedFrame DEF Inv
<1>6. OneRelease'
  <2>1. ASSUME NEW x \in Tasks
        PROVE  /\ released'[x] <= 1
               /\ \A q \in Tasks : x \in ready'[q] => released'[x] = 0
               /\ \A q, r \in Tasks : x \in ready'[q] /\ x \in ready'[r] => q = r
    <3>1. CASE x = c
      <4>1. released[c] = 0 /\ \A q \in Tasks : c \in ready[q] => q = p
          BY <1>1 DEF Inv, OneRelease
      <4>2. released'[c] \in {0, 1}
          BY <1>1, <4>1 DEF Typed
      <4>3. \A q \in Tasks : c \notin ready'[q]
          BY <1>3, <4>1
      <4>4. QED
          BY <3>1, <4>2, <4>3
    <3>2. CASE x # c
      <4>1. released'[x] = released[x]
          BY <1>1, <3>2 DEF Typed
      <4>2. QED
          BY <1>3, <3>2, <4>1 DEF Inv, OneRelease
    <3>3. QED
        BY <3>1, <3>2
  <2>2. QED
      BY <2>1 DEF OneRelease
<1>7. QED
    BY <1>2, <1>5, <1>6 DEF Inv

\* Executions, and a ResolveDependencies that fails, touch no counter.
LEMMA ExecutionStep ==
    ASSUME Typed, Inv, NEW t \in Tasks,
           \/ Resubmit(t) \/ Load(t) \/ ResolveFails(t)
           \/ \E outcome \in Ends[t] : Finish(t, outcome)
    PROVE  Inv'
<1>1. /\ UNCHANGED <<step, children, count, ready, released>>
      /\ \A p \in Tasks : fired[p] \subseteq fired'[p]
    BY DEF Resubmit, Load, ResolveFails, Finish, storage, Typed
<1>2. Declared' /\ OneRelease'
    BY <1>1 DEF Inv, Declared, OneRelease
<1>3. Counted'
  <2>1. \A c \in Tasks : Spent(c)' => Spent(c)
      BY <1>1 DEF Spent
  <2>2. QED
      BY <1>1, <2>1, CountedFrame DEF Inv
<1>4. ResolvesFired'
  <2>1. CASE Resubmit(t) \/ Load(t)
      BY <2>1 DEF Resubmit, Load, Inv, ResolvesFired
  <2>2. CASE ResolveFails(t)
    <3>1. resolving[t] \in Seq(Outcomes) /\ resolving[t] # <<>>
          /\ resolving' = [resolving EXCEPT ![t] = Tail(resolving[t])] /\ UNCHANGED fired
        BY <2>2 DEF ResolveFails, Typed
    <3>2. PICK q : q = resolving[t]
        OBVIOUS
    <3>3. ToSet(Tail(q)) \subseteq ToSet(q)
      <4>1. q \in Seq(Outcomes) /\ q # <<>>
          BY <3>1, <3>2
      <4>2. Tail(q) \in Seq(Outcomes) /\ Len(Tail(q)) = Len(q) - 1
            /\ \A i \in 1 .. Len(Tail(q)) : Tail(q)[i] = q[i + 1]
          BY <4>1, HeadTailProperties
      <4>3. DOMAIN Tail(q) = 1 .. Len(Tail(q)) /\ DOMAIN q = 1 .. Len(q) /\ Len(q) \in Nat
          BY <4>1, <4>2
      <4>4. \A i \in DOMAIN Tail(q) : i + 1 \in DOMAIN q /\ Tail(q)[i] = q[i + 1]
          BY <4>2, <4>3
      <4>5. QED
          BY <4>4 DEF ToSet
    <3>4. QED
        BY <3>1, <3>2, <3>3 DEF Inv, ResolvesFired, Typed
  <2>3. ASSUME NEW outcome \in Ends[t], Finish(t, outcome) PROVE ResolvesFired'
    <3>1. /\ resolving' = [resolving EXCEPT ![t] = Resolves(outcome)]
          /\ fired' = [fired EXCEPT ![t] = @ \union
                                      {IF outcome = "Dead" THEN "Failed" ELSE outcome}]
        BY <2>3 DEF Finish
    <3>2. ToSet(Resolves(outcome)) \intersect Triggers
            \subseteq {IF outcome = "Dead" THEN "Failed" ELSE outcome}
      <4>1. CASE outcome = "Dead"
        <5>1. ToSet(<<"Failed", "Dead">>) = {"Failed", "Dead"}
            BY DEF ToSet
        <5>2. QED
            BY <4>1, <5>1 DEF Resolves, Triggers
      <4>2. CASE outcome # "Dead"
        <5>1. ToSet(<<outcome>>) = {outcome}
            BY DEF ToSet
        <5>2. QED
            BY <4>2, <5>1 DEF Resolves
      <4>3. QED
          BY <4>1, <4>2
    <3>3. QED
        BY <3>1, <3>2 DEF Inv, ResolvesFired, Typed
  <2>4. QED
      BY <2>1, <2>2, <2>3
<1>5. QED
    BY <1>2, <1>3, <1>4 DEF Inv

\* The invariant holds at all times.
LEMMA AlwaysInv == Spec => []Inv
<1>1. Init => Inv
  <2> SUFFICES ASSUME Init PROVE Inv
      OBVIOUS
  <2>1. Declared /\ OneRelease
      BY DEF Init, Declared, OneRelease
  <2>2. ResolvesFired
      BY DEF Init, ResolvesFired, ToSet
  <2>3. Counted
      BY DEF Init, Counted, Live, Spent
  <2>4. QED
      BY <2>1, <2>2, <2>3 DEF Inv
<1>2. Typed /\ Inv /\ [Next]_vars => Inv'
  <2> SUFFICES ASSUME Typed, Inv, [Next]_vars PROVE Inv'
      OBVIOUS
  <2>1. CASE Next
      BY <2>1, SaveWaitingStep, ResolveStep, SubmitReadyStep, ExecutionStep DEF Next
  <2>2. CASE UNCHANGED vars
    <3>1. UNCHANGED <<step, children, count, resolving, ready, fired, released>>
        BY <2>2 DEF vars, storage
    <3>2. Declared' /\ ResolvesFired' /\ OneRelease'
        BY <3>1 DEF Inv, Declared, ResolvesFired, OneRelease
    <3>3. \A c \in Tasks : Spent(c)' => Spent(c)
        BY <3>1 DEF Spent
    <3>4. Counted'
        BY <3>1, <3>3, CountedFrame DEF Inv
    <3>5. QED
        BY <3>2, <3>4 DEF Inv
  <2>3. QED
      BY <2>1, <2>2
<1>3. QED
    BY <1>1, <1>2, AlwaysTyped, PTL DEF Spec

\* resolveWorkflow submits a child only after every parent has had the outcome
\* the child waits for: for every graph, however registrations, outcomes,
\* reruns and failing commands interleave.
THEOREM ParentsFirst == Spec => []ReleasedAfterParents
<1>1. Inv => ReleasedAfterParents
    BY DEF Inv, Counted, Spent, ReleasedAfterParents
<1>2. QED
    BY <1>1, AlwaysInv, PTL

\* ... and submits it at most once, although parents may end again and again.
THEOREM ChildOnce == Spec => []ReleasedOnce
<1>1. Inv => ReleasedOnce
    BY DEF Inv, OneRelease, ReleasedOnce
<1>2. QED
    BY <1>1, AlwaysInv, PTL
===============================================================================
