--------------------------- MODULE RecurringProofs ---------------------------
(***************************************************************************)
(* Recurring and cron schedules, for every number of schedules, every      *)
(* calendar and every search limit: nextExecution finds the first matching *)
(* minute, and a schedule goes on until somebody ends it.                  *)
(***************************************************************************)
EXTENDS Recurring, WellFoundedInduction, TLAPS

-----------------------------------------------------------------------------
(* The walk of nextExecution *)

\* Every set of natural numbers that is not empty has a least element: the
\* form of induction that the proofs about the walk use.
LEMMA LeastNatural ==
    ASSUME NEW T \in SUBSET Nat, T # {}
    PROVE  \E x \in T : \A y \in T : x <= y
<1> DEFINE R == OpToRel(<, Nat)
<1>1. \A x, y \in Nat : <<y, x>> \in R <=> y < x
    BY DEF OpToRel
<1>2. IsWellFoundedOn(R, Nat)
    BY NatLessThanWellFounded
<1> HIDE DEF R
<1>3. PICK x \in T : \A y \in T : ~ (<<y, x>> \in R)
    BY <1>2, WFMin
<1>4. \A y \in T : ~ (y < x)
    BY <1>1, <1>3
<1>5. QED
    BY <1>4

\* The equation that nextExecution's local function is defined by.
Unfolds(walk, from) ==
    walk = [i \in 1 .. SearchLimit + 1 |->
              IF i > SearchLimit THEN from + SearchLimit
              ELSE IF match(from + i) THEN from + i ELSE walk[i + 1]]

\* Steps of the walk, from the i-th on, that end on a matching minute.
Hits(from, i) == {j \in i .. SearchLimit : match(from + j)}
Least(T) == CHOOSE x \in T : \A y \in T : x <= y

\* What the walk returns when it starts with step i.
Found(from, i) == IF Hits(from, i) = {} THEN from + SearchLimit ELSE from + Least(Hits(from, i))

\* nextExecution returns what its local function says of step 1, provided the
\* equation has a solution.
LEMMA NextExecutionUnfolds ==
    ASSUME NEW from, \E w : Unfolds(w, from)
    PROVE  \E w : Unfolds(w, from) /\ nextExecution(from) = w[1]
<1> DEFINE w == CHOOSE w : Unfolds(w, from)
<1>1. nextExecution(from) = w[1]
    BY Zenon DEF nextExecution, Unfolds
<1>2. Unfolds(w, from)
    OBVIOUS
<1>3. QED
    BY <1>1, <1>2

\* The least matching step is one, and no matching step is below it.
LEMMA LeastHit ==
    ASSUME NEW from \in Nat, NEW i \in Nat, Hits(from, i) # {}
    PROVE  /\ Least(Hits(from, i)) \in Hits(from, i)
           /\ \A j \in Hits(from, i) : Least(Hits(from, i)) <= j
<1>1. Hits(from, i) \in SUBSET Nat
    BY RecurringAssumption DEF Hits, match
<1>2. \E x \in Hits(from, i) : \A j \in Hits(from, i) : x <= j
    BY <1>1, LeastNatural
<1>3. QED
    BY <1>2, Zenon DEF Least

\* One step of the walk: it ends here, or it goes on with the next step.
LEMMA FoundStep ==
    ASSUME NEW from \in Nat, NEW i \in 1 .. SearchLimit
    PROVE  Found(from, i) = IF match(from + i) THEN from + i ELSE Found(from, i + 1)
<1>0. SearchLimit \in Nat /\ i \in Nat /\ i + 1 \in Nat
    BY RecurringAssumption
<1>1. CASE match(from + i)
  <2>1. i \in Hits(from, i)
      BY <1>0, <1>1 DEF Hits, match
  <2>2. \A j \in Hits(from, i) : j \in Nat /\ i <= j
      BY <1>0 DEF Hits
  <2>3. Least(Hits(from, i)) = i
      BY <1>0, <2>1, <2>2, LeastHit
  <2>4. QED
      BY <1>1, <2>1, <2>3 DEF Found
<1>2. CASE ~match(from + i)
  <2>1. Hits(from, i) = Hits(from, i + 1)
      BY <1>0, <1>2 DEF Hits, match
  <2>2. QED
      BY <1>2, <2>1 DEF Found
<1>3. QED
    BY <1>1, <1>2

\* The walk past the limit settles for the last minute.
LEMMA FoundEnd ==
    ASSUME NEW from \in Nat
    PROVE  Found(from, SearchLimit + 1) = from + SearchLimit
<1>1. SearchLimit + 1 .. SearchLimit = {}
    BY RecurringAssumption
<1>2. Hits(from, SearchLimit + 1) = {}
    BY <1>1, Zenon DEF Hits
<1>3. QED
    BY <1>2 DEF Found

\* The equation has a solution, namely Found ...
LEMMA FoundUnfolds ==
    ASSUME NEW from \in Nat
    PROVE  Unfolds([i \in 1 .. SearchLimit + 1 |-> Found(from, i)], from)
<1> DEFINE f == [i \in 1 .. SearchLimit + 1 |-> Found(from, i)]
           step(i) == IF i > SearchLimit THEN from + SearchLimit
                      ELSE IF match(from + i) THEN from + i ELSE f[i + 1]
<1>0. SearchLimit \in Nat
    BY RecurringAssumption
<1>1. ASSUME NEW i \in 1 .. SearchLimit + 1
      PROVE  Found(from, i) = step(i)
  <2>1. CASE i = SearchLimit + 1
    <3>1. i > SearchLimit
        BY <1>0, <2>1
    <3>2. Found(from, i) = from + SearchLimit
        BY <2>1, FoundEnd
    <3> HIDE DEF f
    <3>3. QED
        BY <3>1, <3>2
  <2>2. CASE i \in 1 .. SearchLimit
    <3>1. f[i + 1] = Found(from, i + 1)
        BY <1>0, <2>2
    <3>2. Found(from, i) = IF match(from + i) THEN from + i ELSE Found(from, i + 1)
        BY <2>2, FoundStep
    <3>3. ~(i > SearchLimit)
        BY <1>0, <2>2
    <3> HIDE DEF f
    <3>4. QED
        BY <3>1, <3>2, <3>3
  <2>3. i = SearchLimit + 1 \/ i \in 1 .. SearchLimit
      BY <1>0
  <2> HIDE DEF step
  <2>4. QED
      BY <2>1, <2>2, <2>3
<1>2. f = [i \in 1 .. SearchLimit + 1 |-> step(i)]
    BY <1>1
<1>3. QED
    BY <1>2 DEF Unfolds

\* ... and no other: two walks cannot differ first at any distance from the end.
LEMMA WalkIsFound ==
    ASSUME NEW from \in Nat, NEW w, Unfolds(w, from), NEW i \in 1 .. SearchLimit + 1
    PROVE  w[i] = Found(from, i)
<1> DEFINE Differ == {d \in Nat : d <= SearchLimit /\ w[SearchLimit + 1 - d]
                                                      # Found(from, SearchLimit + 1 - d)}
<1>0. SearchLimit \in Nat
    BY RecurringAssumption
<1>1. SUFFICES ASSUME Differ # {}
               PROVE  FALSE
  <2>1. SearchLimit + 1 - i \in Nat /\ SearchLimit + 1 - i <= SearchLimit
        /\ SearchLimit + 1 - (SearchLimit + 1 - i) = i
      BY <1>0
  <2>2. QED
      BY <1>1, <2>1
<1>2. PICK d \in Differ : \A e \in Differ : d <= e
    BY <1>1, LeastNatural
<1> DEFINE k == SearchLimit + 1 - d
<1>3. d \in Nat /\ d <= SearchLimit /\ w[k] # Found(from, k) /\ k \in 1 .. SearchLimit + 1
    BY <1>0, <1>2
<1>4. w[k] = IF k > SearchLimit THEN from + SearchLimit
             ELSE IF match(from + k) THEN from + k ELSE w[k + 1]
    BY <1>3 DEF Unfolds
<1>5. CASE d = 0
  <2>1. k = SearchLimit + 1 /\ k > SearchLimit
      BY <1>0, <1>5
  <2>2. QED
      BY <1>3, <1>4, <2>1, FoundEnd
<1>6. CASE d # 0
  <2>1. k \in 1 .. SearchLimit /\ ~(k > SearchLimit) /\ d - 1 \in Nat /\ d - 1 <= SearchLimit
        /\ SearchLimit + 1 - (d - 1) = k + 1 /\ ~(d <= d - 1)
      BY <1>0, <1>3, <1>6
  <2>2. w[k + 1] = Found(from, k + 1)
      BY <1>2, <2>1
  <2>3. Found(from, k) = IF match(from + k) THEN from + k ELSE Found(from, k + 1)
      BY <2>1, FoundStep
  <2> HIDE DEF k
  <2>4. QED
      BY <1>3, <1>4, <2>1, <2>2, <2>3
<1>7. QED
    BY <1>5, <1>6

\* What nextExecution returns.
LEMMA NextExecutionFinds ==
    ASSUME NEW from \in Nat
    PROVE  nextExecution(from) = Found(from, 1)
<1>1. \E w : Unfolds(w, from)
    BY FoundUnfolds
<1>2. PICK w : Unfolds(w, from) /\ nextExecution(from) = w[1]
    BY <1>1, NextExecutionUnfolds
<1>3. 1 \in 1 .. SearchLimit + 1
    BY RecurringAssumption
<1>4. w[1] = Found(from, 1)
    BY <1>2, <1>3, WalkIsFound
<1>5. QED
    BY <1>2, <1>4

\* nextExecution always returns a later minute, at most SearchLimit away.
LEMMA NextExecutionRange ==
    ASSUME NEW from \in Nat
    PROVE  nextExecution(from) \in from + 1 .. from + SearchLimit
<1>0. SearchLimit \in Nat \ {0}
    BY RecurringAssumption
<1>1. CASE Hits(from, 1) = {}
    BY <1>0, <1>1, NextExecutionFinds DEF Found
<1>2. CASE Hits(from, 1) # {}
  <2>1. Least(Hits(from, 1)) \in 1 .. SearchLimit
      BY <1>2, LeastHit DEF Hits
  <2>2. nextExecution(from) = from + Least(Hits(from, 1))
      BY <1>2, NextExecutionFinds DEF Found
  <2>3. QED
      BY <1>0, <2>1, <2>2
<1>3. QED
    BY <1>1, <1>2

-----------------------------------------------------------------------------
(* Type correctness *)

PC == {"new", "arm", "waiting", "fired", "submit", "rearm", "over"}

\* TypeOK, and what else the steps rely on: the records are records.
Typed ==
    /\ now \in 0 .. MaxTime
    /\ pc \in [Schedules -> PC]
    /\ armed \in [of : Schedules \union {None}, at : Nat]
    /\ armed.of # None => pc[armed.of] = "waiting"
    /\ task \in [of : Schedules \union {None}, cancelled : BOOLEAN]
    /\ cancel \in [pc : {"idle", "take", "unlink", "finish"}, of : SUBSET Schedules]

\* Typed says at least what TypeOK says.
LEMMA TypedIsTypeOK == Typed => TypeOK
  BY DEF Typed, TypeOK, PC

\* A schedule is armed for a later time than now: the minute or the instant in
\* which a callback runs does not fire a second time.
LEMMA NextFireLater ==
    ASSUME now \in 0 .. MaxTime, NEW g \in Schedules
    PROVE  NextFire(g) \in Nat /\ NextFire(g) > now
<1> DEFINE q == now \div Minute
           n == nextExecution(q)
<1>0. now \in Nat /\ Minute \in Nat \ {0} /\ Interval \in Nat \ {0} /\ SearchLimit \in Nat
    BY RecurringAssumption
<1>1. q \in Nat /\ now < Minute * (q + 1)
    BY <1>0, SMT
<1> HIDE DEF q
<1>2. n \in Nat /\ q + 1 <= n
    BY <1>0, <1>1, NextExecutionRange
<1> HIDE DEF n
<1>3. Minute * (q + 1) <= Minute * n
    BY <1>0, <1>1, <1>2, SMT
<1>4. Minute * n \in Nat /\ Minute * (q + 1) \in Nat
    BY <1>0, <1>1, <1>2, SMT
<1>5. CASE g \in Cron
    BY <1>0, <1>1, <1>3, <1>4, <1>5 DEF NextFire, q, n
<1>6. CASE g \notin Cron
    BY <1>0, <1>6 DEF NextFire
<1>7. QED
    BY <1>5, <1>6

\* The initial state is well typed.
LEMMA InitTyped == Init => Typed
  BY RecurringAssumption DEF Init, Typed, PC, NoEntry, NoTask, None

\* ArmFirst and Rearm: the entry is armed for a schedule that waits.
LEMMA ArmTyped ==
    ASSUME Typed, NEW g \in Schedules, ArmFirst(g) \/ Rearm(g)
    PROVE  Typed'
<1>1. NextFire(g) \in Nat
    BY NextFireLater DEF Typed
<1>2. pc[g] # "waiting" /\ g # None
    BY RecurringAssumption DEF ArmFirst, Rearm
<1>3. pc' = [pc EXCEPT ![g] = IF wheelStopped THEN "over" ELSE "waiting"]
      /\ WheelSchedule(g) /\ UNCHANGED <<now, task, cancel>>
    BY DEF ArmFirst, Rearm
<1>4. CASE wheelStopped
    BY <1>2, <1>3, <1>4 DEF Typed, PC, WheelSchedule
<1>5. CASE ~wheelStopped
  <2>1. armed' = [of |-> g, at |-> NextFire(g)]
      BY <1>3, <1>5 DEF WheelSchedule
  <2>2. QED
      BY <1>1, <1>3, <1>5, <2>1 DEF Typed, PC
<1>6. QED
    BY <1>4, <1>5

\* Every step keeps the types.
LEMMA NextTyped ==
    ASSUME Typed, [Next]_vars
    PROVE  Typed'
<1> USE DEF Typed, PC
<1>1. CASE Time
    BY <1>1, RecurringAssumption DEF Time
<1>2. CASE Cancel
    BY <1>2 DEF Cancel
<1>3. CASE CancelUnlink
    BY <1>3 DEF CancelUnlink, NoEntry, None
<1>4. CASE CancelFinish
    BY <1>4 DEF CancelFinish, NoTask, None
<1>5. CASE ShutDown
    BY <1>5 DEF ShutDown
<1>6. CASE StopWheel
    BY <1>6 DEF StopWheel, NoEntry, None
<1>7. ASSUME NEW g \in Schedules, ScheduleTask(g)
      PROVE  Typed'
  <2>1. UNCHANGED <<now, armed, cancel>> /\ pc[g] = "new"
      BY <1>7 DEF ScheduleTask
  <2>2. CASE stopped /\ g \notin Cron
      BY <1>7, <2>1, <2>2 DEF ScheduleTask
  <2>3. CASE ~(stopped /\ g \notin Cron)
    <3>1. pc' = [pc EXCEPT ![g] = "arm"] /\ task' = [of |-> g, cancelled |-> FALSE]
        BY <1>7, <2>3 DEF ScheduleTask
    <3>2. QED
        BY <2>1, <3>1
  <2>4. QED
      BY <2>2, <2>3
<1>8. ASSUME NEW g \in Schedules, ArmFirst(g) \/ Rearm(g)
      PROVE  Typed'
    BY <1>8, ArmTyped
<1>9. ASSUME NEW g \in Schedules, Fire(g)
      PROVE  Typed'
    BY <1>9 DEF Fire, NoEntry, None
<1>10. ASSUME NEW g \in Schedules, TestStopped(g)
       PROVE  Typed'
    BY <1>10 DEF TestStopped
<1>11. ASSUME NEW g \in Schedules, SubmitChild(g)
       PROVE  Typed'
    BY <1>11 DEF SubmitChild
<1>12. CASE UNCHANGED vars
    BY <1>12 DEF vars
<1>13. QED
    BY <1>1, <1>2, <1>3, <1>4, <1>5, <1>6, <1>7, <1>8, <1>9, <1>10, <1>11, <1>12
    DEF Next, callback

\* Typed is an invariant.
LEMMA AlwaysTyped == Spec => []Typed
<1>1. Init => Typed
    BY InitTyped
<1>2. Typed /\ [Next]_vars => Typed'
    BY NextTyped
<1>3. QED
    BY <1>1, <1>2, PTL DEF Spec

\* Every reachable state of every set of schedules is well typed; above all,
\* the wheel never has an entry armed whose callback is under way, so that no
\* two executions of one schedule's callback overlap.
THEOREM TypeCorrect == Spec => []TypeOK
  BY AlwaysTyped, TypedIsTypeOK, PTL

-----------------------------------------------------------------------------
(* The schedule goes on *)

\* Every step keeps ScheduleGoesOn: an entry leaves the wheel when it fires,
\* when a Cancel takes it, when another replaces it or when the wheel stops.
LEMMA NextGoesOn ==
    ASSUME Typed, ScheduleGoesOn, [Next]_vars
    PROVE  ScheduleGoesOn'
<1> USE DEF ScheduleGoesOn, Typed, PC
<1>1. CASE Time
    BY <1>1 DEF Time, calls, ghosts
<1>2. CASE Cancel
    BY <1>2 DEF Cancel, ghosts
<1>3. CASE CancelUnlink
    BY <1>3, RecurringAssumption DEF CancelUnlink, calls
<1>4. CASE CancelFinish
    BY <1>4 DEF CancelFinish, calls
<1>5. CASE ShutDown
    BY <1>5 DEF ShutDown, ghosts
<1>6. CASE StopWheel
    BY <1>6 DEF StopWheel, ghosts
<1>7. ASSUME NEW g \in Schedules, ScheduleTask(g)
      PROVE  ScheduleGoesOn'
    BY <1>7 DEF ScheduleTask, calls, ghosts
<1>8. ASSUME NEW g \in Schedules, ArmFirst(g) \/ Rearm(g)
      PROVE  ScheduleGoesOn'
  <2>1. pc' = [pc EXCEPT ![g] = IF wheelStopped THEN "over" ELSE "waiting"]
        /\ WheelSchedule(g) /\ UNCHANGED wheelStopped
      BY <1>8 DEF ArmFirst, Rearm, calls
  <2>2. CASE wheelStopped
      BY <2>1, <2>2
  <2>3. CASE ~wheelStopped
    <3>1. armed'.of = g /\ unlinked' = (unlinked \ {g}) \union ({armed.of} \ {g, None})
        BY <2>1, <2>3 DEF WheelSchedule
    <3>2. ASSUME NEW h \in Schedules, pc'[h] = "waiting", h \notin unlinked'
          PROVE  h = g
      <4>1. SUFFICES ASSUME h # g
                     PROVE  FALSE
          OBVIOUS
      <4>2. pc[h] = "waiting" /\ h \notin unlinked
          BY <2>1, <3>1, <3>2, <4>1
      <4>3. armed.of = h /\ h # None
          BY <2>3, <4>2, RecurringAssumption
      <4>4. QED
          BY <3>1, <3>2, <4>1, <4>3
    <3>3. QED
        BY <3>1, <3>2
  <2>4. QED
      BY <2>2, <2>3
<1>9. ASSUME NEW g \in Schedules, Fire(g)
      PROVE  ScheduleGoesOn'
    BY <1>9 DEF Fire, calls, ghosts
<1>10. ASSUME NEW g \in Schedules, TestStopped(g)
       PROVE  ScheduleGoesOn'
    BY <1>10 DEF TestStopped, calls, ghosts
<1>11. ASSUME NEW g \in Schedules, SubmitChild(g)
       PROVE  ScheduleGoesOn'
    BY <1>11 DEF SubmitChild
<1>12. CASE UNCHANGED vars
    BY <1>12 DEF vars, calls, ghosts
<1>13. QED
    BY <1>1, <1>2, <1>3, <1>4, <1>5, <1>6, <1>7, <1>8, <1>9, <1>10, <1>11, <1>12
    DEF Next, callback

\* For any number of schedules under the id, refused tasks, Cancels and
\* interleavings of callbacks: a schedule that waits and that nobody has
\* cancelled or replaced is armed in the wheel.
THEOREM NeverForgotten == Spec => []ScheduleGoesOn
<1>1. Init => ScheduleGoesOn
    BY DEF Init, ScheduleGoesOn
<1>2. Typed /\ ScheduleGoesOn /\ [Next]_vars => ScheduleGoesOn'
    BY NextGoesOn
<1>3. QED
    BY <1>1, <1>2, AlwaysTyped, PTL DEF Spec

\* For every calendar, cron spec and search limit, nextExecution returns the
\* first matching minute after the one it is asked in.
THEOREM CronFirstMatch == Spec => []NextIsFirstMatch
<1>1. ASSUME Typed
      PROVE  NextIsFirstMatch
  <2> DEFINE from == now \div Minute
             ahead == {m \in from + 1 .. from + SearchLimit : Listed(m)}
  <2>0. now \in Nat /\ Minute \in Nat \ {0} /\ SearchLimit \in Nat
      BY <1>1, RecurringAssumption DEF Typed
  <2>1. from \in Nat
      BY <2>0, SMT
  <2>2. SUFFICES ASSUME ahead # {}
                 PROVE  /\ nextExecution(from) \in ahead
                        /\ \A m \in ahead : nextExecution(from) <= m
      BY DEF NextIsFirstMatch
  <2> HIDE DEF from
  <2>3. \A m : Listed(m) <=> match(m)
      BY DEF Listed, match, matchField
  <2>4. \A m \in ahead : m - from \in Hits(from, 1)
      BY <2>0, <2>1, <2>3 DEF Hits, match
  <2>5. Hits(from, 1) # {}
      BY <2>2, <2>4
  <2> DEFINE least == Least(Hits(from, 1))
  <2>6. least \in Hits(from, 1) /\ \A j \in Hits(from, 1) : least <= j
      BY <2>1, <2>5, LeastHit
  <2>7. nextExecution(from) = from + least
      BY <2>1, <2>5, NextExecutionFinds DEF Found
  <2> HIDE DEF least
  <2>8. least \in 1 .. SearchLimit /\ match(from + least)
      BY <2>6 DEF Hits
  <2>9. from + least \in ahead
    <3>1. Listed(from + least)
        BY <2>3, <2>8, Zenon
    <3>2. from + least \in from + 1 .. from + SearchLimit
        BY <2>0, <2>1, <2>8
    <3>3. QED
        BY <3>1, <3>2, Zenon
  <2>10. ASSUME NEW m \in ahead
         PROVE  from + least <= m
      BY <2>0, <2>1, <2>4, <2>6, <2>8
  <2>11. QED
      BY <2>7, <2>9, <2>10
<1>2. QED
    BY <1>1, AlwaysTyped, PTL

=============================================================================
