----------------------------- MODULE WheelProofs -----------------------------
(***************************************************************************)
(* The timing wheel, for every number of entries, levels and buckets,      *)
(* every tick and every interleaving of Schedule, Cancel and tickLoop.  It *)
(* loses no entry and sleeps past no bucket; each entry is in one place,   *)
(* so that it is launched once; a live entry can be cancelled; and every   *)
(* step of the wheel is a step of WheelContract or none.                   *)
(***************************************************************************)
EXTENDS TimingWheel, TLAPS

\* tickLoop inserts only while it drains a bucket that is not empty yet.
LoopInserts == ipc[Loop] # "idle" => tpc = "drain" /\ pending # <<>>

\* No entry is in a bucket, or in tickLoop's hands, before its Schedule call
\* has set its deadline: what Target computes does not move.
NotBeforeSchedule ==
    \A e \in Ents : ipc[e] = "new" =>
        /\ \A i \in DOMAIN pending : pending[i] # e
        /\ \A b \in Buckets : \A i \in DOMAIN list[b] : list[b][i] # e

\* A bucket with entries has an expiration.
ArmedHasExpiration == \A b \in Buckets : list[b] # <<>> => expiration[b] # NoTime

\* Somebody answers for b: the heap, tickLoop or an inserter.
Covered(b) ==
    \/ heap[b] # Off
    \/ tpc \in {"load", "advance", "flush"} /\ tb = b
    \/ \E p \in Procs : ipc[p] = "offer" /\ Target(p) = b

\* A bucket with an expiration is answered for.
ExpirationCovered == \A b \in Buckets : expiration[b] # NoTime => Covered(b)

Typed == TypeOK /\ LoopInserts

\* The inductive invariant.
WheelInv == Typed /\ NotBeforeSchedule /\ ArmedHasExpiration /\ ExpirationCovered

-----------------------------------------------------------------------------
(* Arithmetic *)

\* A remainder is below the divisor.
LEMMA ModRange ==
    ASSUME NEW a \in Nat, NEW k \in Nat \ {0}
    PROVE  a % k \in 0 .. k - 1
  BY SMT

\* Quotient and remainder.
LEMMA DivMod ==
    ASSUME NEW a \in Nat, NEW k \in Nat \ {0}
    PROVE  a \div k \in Nat /\ a = k * (a \div k) + (a % k)
  BY SMT

\* A multiple leaves no remainder.
LEMMA MultMod ==
    ASSUME NEW q \in Nat, NEW k \in Nat \ {0}
    PROVE  (k * q) % k = 0
  BY SMT

\* Rounding down to a multiple.
LEMMA RoundDown ==
    ASSUME NEW a \in Nat, NEW k \in Nat \ {0}
    PROVE  /\ (a \div k) * k \in 0 .. a
           /\ a - (a % k) \in 0 .. a /\ (a - (a % k)) % k = 0
  BY DivMod, ModRange, MultMod

\* A level's ticks.
LEMMA LevelFacts ==
    /\ MaxTime \in Nat /\ 0 \in Levels /\ 0 \in Times /\ Times \subseteq Nat
    /\ \A l \in Levels : TickMs[l] \in Nat \ {0}
    /\ Loop \in Procs /\ Loop \notin Ents /\ Ents \subseteq Procs
    /\ <<0, 0>> \in Buckets
  BY WheelAssumption DEF Levels, Times, Loop, Procs, Buckets

\* Floor rounds a time down to the tick of its level.
LEMMA FloorTime ==
    ASSUME NEW t \in Times, NEW l \in Levels
    PROVE  Floor(t, l) \in Times /\ Floor(t, l) % TickMs[l] = 0
<1> DEFINE k == TickMs[l]
<1>1. t \in Nat /\ k \in Nat \ {0} /\ MaxTime \in Nat /\ t <= MaxTime
  BY LevelFacts DEF Times
<1> HIDE DEF k
<1>2. t - (t % k) \in 0 .. t /\ (t - (t % k)) % k = 0
  BY <1>1, RoundDown
<1>3. t - (t % k) \in 0 .. MaxTime
  BY <1>1, <1>2
<1> QED
  BY <1>2, <1>3 DEF Floor, Times, k

\* An inserter past its first steps has an entry, and a bucket to aim at.
LEMMA Aims ==
    ASSUME Typed, NEW p \in Procs, p \in Ents \/ ipc[p] # "idle"
    PROVE  /\ Ent(p) \in Ents /\ Target(p) \in Buckets
           /\ BucketExp(Ent(p), lv[p]) \in Times
<1>1. Ent(p) \in Ents
  <2>1. CASE p = Loop
    <3>1. pending \in Seq(Ents) /\ pending # <<>>
      BY <2>1, LevelFacts DEF Typed, TypeOK, LoopInserts
    <3> QED
      BY <2>1, <3>1 DEF Ent
  <2>2. CASE p # Loop
    BY <2>2 DEF Ent, Procs
  <2> QED
    BY <2>1, <2>2
<1> DEFINE d == deadline[Ent(p)]
           k == TickMs[lv[p]]
<1>2. lv[p] \in Levels /\ d \in Times
  BY <1>1 DEF Typed, TypeOK
<1>3. /\ d \in Nat /\ d <= MaxTime /\ MaxTime \in Nat
      /\ k \in Nat \ {0} /\ Size \in Nat \ {0}
  BY <1>2, LevelFacts, WheelAssumption DEF Times
<1>4. BucketExp(Ent(p), lv[p]) = (d \div k) * k /\ Target(p) = <<lv[p], (d \div k) % Size>>
  BY DEF BucketExp, Target, BucketOf
<1> HIDE DEF d, k
<1>5. (d \div k) * k \in 0 .. d /\ d \div k \in Nat
  BY <1>3, RoundDown, DivMod
<1>6. (d \div k) * k \in Times
  BY <1>3, <1>5 DEF Times
<1>7. (d \div k) % Size \in 0 .. Size - 1
  BY <1>3, <1>5, ModRange
<1> QED
  BY <1>1, <1>2, <1>4, <1>6, <1>7 DEF Buckets

-----------------------------------------------------------------------------
(* Types *)

\* The state an inserter moves stays typed when it goes on ...
LEMMA StepTyped ==
    ASSUME Typed, NEW p \in Procs, NEW pc \in InsertPC, Step(p, pc),
           p # Loop \/ ipc[p] # "idle", UNCHANGED <<pending, tpc>>
    PROVE  ipc' \in [Procs -> InsertPC] /\ LoopInserts'
  BY LevelFacts DEF Typed, TypeOK, LoopInserts, Step

\* ... and when its insert returns.
LEMMA ReturnTyped ==
    ASSUME Typed, NEW p \in Procs, ipc[p] # "idle", Return(p), UNCHANGED tpc
    PROVE  /\ ipc' \in [Procs -> InsertPC] /\ lv' \in [Procs -> Levels]
           /\ pending' \in Seq(Ents) /\ LoopInserts'
<1>1. "idle" \in InsertPC /\ ipc' \in [Procs -> InsertPC]
  BY DEF Typed, TypeOK, Return, Step, InsertPC
<1>2. lv' \in [Procs -> Levels]
  BY LevelFacts DEF Typed, TypeOK, Return
<1>3. pending' \in Seq(Ents) /\ LoopInserts'
  BY LevelFacts DEF Typed, TypeOK, Return, Step, LoopInserts
<1> QED
  BY <1>1, <1>2, <1>3

\* The new wheel is typed.
LEMMA InitTyped == Init => Typed
<1> SUFFICES ASSUME Init PROVE Typed
  OBVIOUS
<1>1. /\ Start \in Times /\ \A l \in Levels : 0 % TickMs[l] = 0
      /\ Floor(Start, 0) \in Times /\ Floor(Start, 0) % TickMs[0] = 0
  <2>1. Start \in Times
    BY WheelAssumption DEF Times
  <2>2. \A l \in Levels : 0 % TickMs[l] = 0
    BY LevelFacts
  <2> QED
    BY <2>1, <2>2, LevelFacts, FloorTime
<1>2. currentTime \in [Levels -> Times] /\ \A l \in Levels : currentTime[l] % TickMs[l] = 0
  BY <1>1, LevelFacts DEF Init
<1>3. ipc \in [Procs -> InsertPC] /\ LoopInserts
  BY LevelFacts DEF Init, InsertPC, LoopInserts
<1>4. /\ now \in Times /\ top \in Levels /\ wake \in BOOLEAN /\ stopped \in BOOLEAN
      /\ tpc \in LoopPC /\ tb \in Buckets /\ tt \in Times \union {NoTime} /\ tl \in Levels
  BY <1>1, LevelFacts DEF Init, LoopPC
<1>5. /\ list \in [Buckets -> Seq(Ents)] /\ pending \in Seq(Ents)
      /\ expiration \in [Buckets -> Times \union {NoTime}]
      /\ heap \in [Buckets -> Times \union {NoTime, Off}]
  BY DEF Init
<1>6. /\ entries \in [Ids -> Ents \union {Nil}] /\ holds \in [Ids -> Ents \union {Nil}]
      /\ cancelled \in [Ents -> BOOLEAN] /\ deadline \in [Ents -> Times]
      /\ fired \in [Ents -> Nat] /\ lv \in [Procs -> Levels] /\ curr \in [Procs -> Times]
  BY LevelFacts DEF Init
<1> QED
  BY <1>2, <1>3, <1>4, <1>5, <1>6 DEF Typed, TypeOK

\* Schedule, Cancel, Stop and the clock.
LEMMA CallsTyped ==
    ASSUME Typed,
           \/ Time \/ Stop
           \/ \E e \in Ents : ScheduleCall(e) \/ Register(e)
           \/ \E i \in Ids : CancelTake(i) \/ CancelMark(i)
    PROVE  Typed'
<1>1. CASE Time
  <2>1. now' \in Times
    BY <1>1, LevelFacts DEF Typed, TypeOK, Time, Times
  <2> QED
    BY <1>1, <2>1 DEF Typed, TypeOK, LoopInserts, Time, clocks, buckets, loop
<1>2. CASE Stop
  BY <1>2 DEF Typed, TypeOK, LoopInserts, Stop, clocks, buckets, loop
<1>3. ASSUME NEW e \in Ents, ScheduleCall(e) PROVE Typed'
  <2>1. deadline' \in [Ents -> Times]
    BY <1>3, WheelAssumption DEF Typed, TypeOK, ScheduleCall, Times
  <2>2. ipc' \in [Procs -> InsertPC] /\ LoopInserts'
    BY <1>3, LevelFacts DEF Typed, TypeOK, LoopInserts, ScheduleCall, InsertPC, loop
  <2> QED
    BY <1>3, <2>1, <2>2 DEF Typed, TypeOK, ScheduleCall, clocks, buckets, loop
<1>4. ASSUME NEW e \in Ents, Register(e) PROVE Typed'
  <2>1. cancelled' \in [Ents -> BOOLEAN]
    BY <1>4 DEF Typed, TypeOK, Register, Replace
  <2>2. ipc' \in [Procs -> InsertPC] /\ LoopInserts'
    BY <1>4, LevelFacts DEF Typed, TypeOK, LoopInserts, Register, InsertPC, loop
  <2>3. entries' \in [Ids -> Ents \union {Nil}]
    BY <1>4 DEF Typed, TypeOK, Register
  <2> QED
    BY <1>4, <2>1, <2>2, <2>3 DEF Typed, TypeOK, Register, clocks, buckets, loop
<1>5. ASSUME NEW i \in Ids, CancelTake(i) PROVE Typed'
  BY <1>5 DEF Typed, TypeOK, LoopInserts, CancelTake, clocks, buckets, loop
<1>6. ASSUME NEW i \in Ids, CancelMark(i) PROVE Typed'
  BY <1>6 DEF Typed, TypeOK, LoopInserts, CancelMark, clocks, buckets, loop
<1> QED
  BY <1>1, <1>2, <1>3, <1>4, <1>5, <1>6

\* insert and add.
LEMMA InsertTyped ==
    ASSUME Typed, NEW p \in Procs, Insert(p)
    PROVE  Typed'
<1>1. CASE Add(p)
  <2> DEFINE c == currentTime[lv[p]]
  <2>1. ipc[p] # "idle" /\ c \in Times /\ UNCHANGED tpc
    BY <1>1 DEF Add, Typed, TypeOK, loop
  <2>2. /\ ipc' \in [Procs -> InsertPC] /\ lv' \in [Procs -> Levels]
        /\ curr' \in [Procs -> Times] /\ pending' \in Seq(Ents) /\ LoopInserts'
    <3>1. CASE Return(p) /\ UNCHANGED curr
      BY <2>1, <3>1, ReturnTyped DEF Typed, TypeOK
    <3>2. CASE /\ \E pc \in {"due", "link", "escalate"} : Step(p, pc)
               /\ curr' = curr \/ curr' = [curr EXCEPT ![p] = c]
               /\ UNCHANGED <<lv, pending>>
      <4>1. curr' \in [Procs -> Times]
        BY <2>1, <3>2 DEF Typed, TypeOK
      <4> QED
        BY <2>1, <3>2, <4>1, StepTyped DEF Typed, TypeOK, InsertPC
    <3> QED
      BY <1>1, <3>1, <3>2 DEF Add
  <2> QED
    BY <1>1, <2>2 DEF Add, Typed, TypeOK, clocks, buckets, loop
<1>2. CASE Escalate(p)
  <2> DEFINE up == lv[p] + 1
  <2>1. ipc[p] # "idle" /\ up \in Levels /\ curr[p] \in Times
    BY <1>2 DEF Escalate, Typed, TypeOK
  <2>2. ipc' \in [Procs -> InsertPC] /\ LoopInserts'
    BY <1>2, <2>1, StepTyped DEF Escalate, InsertPC, loop
  <2>3. /\ currentTime' \in [Levels -> Times] /\ top' \in Levels
        /\ \A l \in Levels : currentTime'[l] % TickMs[l] = 0
    <3>1. CASE UNCHANGED clocks
      BY <3>1 DEF Typed, TypeOK, clocks
    <3>2. CASE top' = up /\ currentTime' = [currentTime EXCEPT ![up] = Floor(curr[p], up)]
      <4>1. Floor(curr[p], up) \in Times /\ Floor(curr[p], up) % TickMs[up] = 0
        BY <2>1, FloorTime
      <4> HIDE DEF up
      <4> QED
        BY <2>1, <3>2, <4>1 DEF Typed, TypeOK
    <3> QED
      BY <1>2, <3>1, <3>2 DEF Escalate
  <2>4. lv' \in [Procs -> Levels] /\ curr' \in [Procs -> Times]
    BY <1>2, <2>1, LevelFacts DEF Escalate, Typed, TypeOK
  <2> QED
    BY <1>2, <2>2, <2>3, <2>4 DEF Escalate, Typed, TypeOK, buckets, loop
<1>3. CASE Link(p)
  <2>1. ipc[p] # "idle" /\ UNCHANGED tpc
    BY <1>3 DEF Link, loop
  <2>2. /\ Ent(p) \in Ents /\ Target(p) \in Buckets
        /\ BucketExp(Ent(p), lv[p]) \in Times
    BY <2>1, Aims
  <2>3. /\ list' \in [Buckets -> Seq(Ents)]
        /\ expiration' \in [Buckets -> Times \union {NoTime}]
    BY <1>3, <2>2 DEF Link, Typed, TypeOK
  <2>4. /\ ipc' \in [Procs -> InsertPC] /\ lv' \in [Procs -> Levels]
        /\ pending' \in Seq(Ents) /\ LoopInserts'
    <3>1. CASE Return(p)
      BY <2>1, <3>1, ReturnTyped
    <3>2. CASE Step(p, "offer") /\ UNCHANGED <<lv, pending>>
      BY <2>1, <3>2, StepTyped DEF Typed, TypeOK, InsertPC
    <3> QED
      BY <1>3, <3>1, <3>2 DEF Link
  <2> QED
    BY <1>3, <2>3, <2>4 DEF Link, Typed, TypeOK, clocks, loop
<1>4. CASE Offer(p)
  <2>1. ipc[p] # "idle" /\ UNCHANGED <<tpc, pending>>
    BY <1>4 DEF Offer, loop
  <2>2. expiration[Target(p)] \in Times \union {NoTime}
    BY <2>1, Aims DEF Typed, TypeOK
  <2>3. heap' \in [Buckets -> Times \union {NoTime, Off}]
    BY <1>4, <2>2 DEF Offer, Typed, TypeOK
  <2>4. ipc' \in [Procs -> InsertPC] /\ LoopInserts'
    BY <1>4, <2>1, StepTyped DEF Offer, InsertPC
  <2> QED
    BY <1>4, <2>3, <2>4 DEF Offer, Typed, TypeOK, clocks, buckets, loop
<1>5. CASE Wake(p)
  <2>1. /\ ipc' \in [Procs -> InsertPC] /\ lv' \in [Procs -> Levels]
        /\ pending' \in Seq(Ents) /\ LoopInserts'
    BY <1>5, ReturnTyped DEF Wake, loop
  <2> QED
    BY <1>5, <2>1 DEF Wake, Signal, Typed, TypeOK, clocks, buckets, loop
<1>6. CASE Due(p)
  <2>1. ipc[p] # "idle" /\ UNCHANGED tpc
    BY <1>6 DEF Due, loop
  <2>2. /\ ipc' \in [Procs -> InsertPC] /\ lv' \in [Procs -> Levels]
        /\ pending' \in Seq(Ents) /\ LoopInserts'
    <3>1. CASE Return(p)
      BY <2>1, <3>1, ReturnTyped
    <3>2. CASE Step(p, "launch") /\ UNCHANGED <<lv, pending>>
      BY <2>1, <3>2, StepTyped DEF Typed, TypeOK, InsertPC
    <3> QED
      BY <1>6, <3>1, <3>2 DEF Due
  <2> QED
    BY <1>6, <2>2 DEF Due, Typed, TypeOK, clocks, buckets, loop
<1>7. CASE Launch(p)
  <2>1. /\ ipc' \in [Procs -> InsertPC] /\ lv' \in [Procs -> Levels]
        /\ pending' \in Seq(Ents) /\ LoopInserts'
    BY <1>7, ReturnTyped DEF Launch, loop
  <2>2. Ent(p) \in Ents
    BY <1>7, Aims DEF Launch
  <2>3. fired' \in [Ents -> Nat]
    BY <1>7, <2>2 DEF Launch, Typed, TypeOK
  <2>4. entries' \in [Ids -> Ents \union {Nil}]
    BY <1>7 DEF Launch, RemoveFromIndex, Typed, TypeOK
  <2> QED
    BY <1>7, <2>1, <2>3, <2>4 DEF Launch, Typed, TypeOK, clocks, buckets, loop
<1> QED
  BY <1>1, <1>2, <1>3, <1>4, <1>5, <1>6, <1>7 DEF Insert

\* tickLoop.
LEMMA TickLoopTyped ==
    ASSUME Typed, TickLoop
    PROVE  Typed'
<1>1. CASE Poll
  <2>1. /\ heap' \in [Buckets -> Times \union {NoTime, Off}]
        /\ tb' \in Buckets /\ tt' \in Times \union {NoTime}
        /\ tpc' \in LoopPC /\ LoopInserts'
    <3>1. ipc[Loop] = "idle" /\ UNCHANGED ipc
      BY <1>1 DEF Poll, Typed, LoopInserts
    <3>2. CASE tpc' = "sleep" /\ tt' = NoTime /\ UNCHANGED <<heap, tb>>
      BY <3>1, <3>2 DEF Typed, TypeOK, LoopPC, LoopInserts
    <3>3. ASSUME NEW b \in Buckets, tb' = b, tpc' = "load", UNCHANGED tt,
                 heap' = [heap EXCEPT ![b] = Off]
          PROVE  <2>1!:
      BY <3>1, <3>3 DEF Typed, TypeOK, LoopPC, LoopInserts
    <3>4. ASSUME NEW b \in Buckets, tpc' = "sleep", tt' = expiration[b], UNCHANGED <<heap, tb>>
          PROVE  <2>1!:
      BY <3>1, <3>4 DEF Typed, TypeOK, LoopPC, LoopInserts
    <3> QED
      BY <1>1, <3>2, <3>3, <3>4 DEF Poll, Tops, OnHeap
  <2> QED
    BY <1>1, <2>1 DEF Poll, Typed, TypeOK, clocks, buckets
<1>2. CASE Awake
  BY <1>2 DEF Awake, Typed, TypeOK, LoopInserts, LoopPC, clocks, buckets
<1>3. CASE LoadExpiration
  <2>1. tt' \in Times \union {NoTime} /\ tpc' \in LoopPC /\ LoopInserts'
    BY <1>3 DEF LoadExpiration, Typed, TypeOK, LoopInserts, LoopPC
  <2> QED
    BY <1>3, <2>1 DEF LoadExpiration, Typed, TypeOK, clocks, buckets
<1>4. CASE AdvanceClock
  <2> DEFINE ticks == tt >= currentTime[tl] + TickMs[tl]
  <2>1. ticks => tt \in Times
    BY LevelFacts DEF Typed, TypeOK, NoTime, Times
  <2>2. ticks => Floor(tt, tl) \in Times /\ Floor(tt, tl) % TickMs[tl] = 0
    BY <2>1, FloorTime DEF Typed, TypeOK
  <2>3. /\ currentTime' \in [Levels -> Times]
        /\ \A l \in Levels : currentTime'[l] % TickMs[l] = 0
    <3>1. CASE ticks
      BY <1>4, <2>2, <3>1 DEF AdvanceClock, Typed, TypeOK
    <3>2. CASE ~ticks
      BY <1>4, <3>2 DEF AdvanceClock, Typed, TypeOK
    <3> QED
      BY <3>1, <3>2
  <2>4. tl' \in Levels /\ tt' \in Times \union {NoTime} /\ tpc' \in LoopPC
    <3>1. CASE ticks /\ tl < top /\ tl' = tl + 1 /\ tt' = Floor(tt, tl) /\ UNCHANGED tpc
      BY <2>2, <3>1, WheelAssumption DEF Typed, TypeOK, Levels
    <3>2. CASE tl' = 0 /\ tt' = NoTime /\ tpc' = "flush"
      BY <3>2, LevelFacts DEF LoopPC
    <3> QED
      BY <1>4, <3>1, <3>2 DEF AdvanceClock
  <2>5. LoopInserts'
    BY <1>4 DEF AdvanceClock, Typed, LoopInserts
  <2> QED
    BY <1>4, <2>3, <2>4, <2>5 DEF AdvanceClock, Typed, TypeOK, buckets
<1>5. CASE Flush
  <2>1. /\ list' \in [Buckets -> Seq(Ents)] /\ pending' \in Seq(Ents)
        /\ expiration' \in [Buckets -> Times \union {NoTime}]
    BY <1>5 DEF Flush, Detach, Reset, Typed, TypeOK
  <2>2. tpc' \in LoopPC /\ LoopInserts'
    BY <1>5 DEF Flush, Typed, LoopInserts, LoopPC
  <2> QED
    BY <1>5, <2>1, <2>2 DEF Flush, Typed, TypeOK, clocks
<1>6. CASE Drain
  <2>1. ipc' \in [Procs -> InsertPC] /\ tpc' \in LoopPC /\ tb' \in Buckets /\ LoopInserts'
    BY <1>6, LevelFacts DEF Drain, Step, Typed, TypeOK, LoopInserts, LoopPC, InsertPC
  <2> QED
    BY <1>6, <2>1 DEF Drain, Typed, TypeOK, clocks, buckets
<1> QED
  BY <1>1, <1>2, <1>3, <1>4, <1>5, <1>6 DEF TickLoop

\* Typed is inductive.
LEMMA TypedStep == Typed /\ [Next]_vars => Typed'
<1> SUFFICES ASSUME Typed, [Next]_vars PROVE Typed'
  OBVIOUS
<1>1. CASE UNCHANGED vars
  BY <1>1 DEF vars, clocks, buckets, loop, Typed, TypeOK, LoopInserts
<1>2. CASE Next
  BY <1>2, CallsTyped, InsertTyped, TickLoopTyped DEF Next
<1> QED
  BY <1>1, <1>2

\* Every reachable state of every wheel is well typed: the clocks of the levels
\* stay multiples of their ticks, and an inserter never aims past the buckets.
THEOREM TypeCorrect == Spec => []TypeOK
<1>1. Typed => TypeOK
  BY DEF Typed
<1> QED
  BY InitTyped, TypedStep, <1>1, PTL DEF Spec

-----------------------------------------------------------------------------
(* No entry is lost *)

\* What a step has to leave alone for b to stay covered.
LEMMA StaysCovered ==
    ASSUME NEW b \in Buckets, Covered(b),
           heap[b] # Off => heap'[b] # Off,
           tpc \in {"load", "advance", "flush"} /\ tb = b
              => tpc' \in {"load", "advance", "flush"} /\ tb' = b,
           \A q \in Procs : ipc[q] = "offer" => ipc'[q] = "offer" /\ Target(q)' = Target(q)
    PROVE  Covered(b)'
  BY DEF Covered

\* A step of an inserter that is not at its offer, returning or going on, takes
\* no offer away and moves no other target.
LEMMA OffersStay ==
    ASSUME Typed, NEW p \in Procs, ipc[p] # "offer", UNCHANGED deadline,
           \E pc \in InsertPC : Step(p, pc),
           \A q \in Procs \ {p} : lv'[q] = lv[q],
           p # Loop => UNCHANGED pending
    PROVE  \A q \in Procs : ipc[q] = "offer" => ipc'[q] = "offer" /\ Target(q)' = Target(q)
<1> SUFFICES ASSUME NEW q \in Procs, ipc[q] = "offer"
             PROVE  ipc'[q] = "offer" /\ Target(q)' = Target(q)
  OBVIOUS
<1>1. q # p /\ ipc'[q] = "offer" /\ lv'[q] = lv[q]
  BY DEF Step, Typed, TypeOK
<1>2. q = Loop => UNCHANGED pending
  BY <1>1
<1> QED
  BY <1>1, <1>2 DEF Target, BucketOf, Ent

\* Nothing enters a bucket or tickLoop's hands that was not in one already.
LEMMA NothingEnters ==
    ASSUME Typed, NotBeforeSchedule,
           \A e \in Ents : ipc'[e] = "new" => ipc[e] = "new",
           pending' = pending \/ (pending # <<>> /\ pending' = Tail(pending)),
           UNCHANGED list
    PROVE  NotBeforeSchedule'
<1>1. pending \in Seq(Ents)
  BY DEF Typed, TypeOK
<1>2. \A i \in DOMAIN pending' : \E j \in DOMAIN pending : pending'[i] = pending[j]
  <2>1. CASE pending # <<>> /\ pending' = Tail(pending)
    <3>1. \A i \in 1 .. Len(pending) - 1 : i + 1 \in 1 .. Len(pending) /\ pending'[i] = pending[i + 1]
      BY <1>1, <2>1
    <3> QED
      BY <1>1, <2>1, <3>1
  <2> QED
    BY <2>1
<1> QED
  BY <1>2 DEF NotBeforeSchedule

\* A step that changes no bucket keeps the invariant if it keeps its cover.
LEMMA BucketsAlone ==
    ASSUME WheelInv, Typed', UNCHANGED buckets, NotBeforeSchedule',
           \A b \in Buckets : heap[b] # Off => heap'[b] # Off,
           \A b \in Buckets : tpc \in {"load", "advance", "flush"} /\ tb = b
              => tpc' \in {"load", "advance", "flush"} /\ tb' = b,
           \A q \in Procs : ipc[q] = "offer" => ipc'[q] = "offer" /\ Target(q)' = Target(q)
    PROVE  WheelInv'
<1>1. ArmedHasExpiration'
  BY DEF WheelInv, ArmedHasExpiration, buckets
<1>2. ExpirationCovered'
  <2> SUFFICES ASSUME NEW b \in Buckets, expiration'[b] # NoTime PROVE Covered(b)'
    BY DEF ExpirationCovered
  <2>1. Covered(b)
    BY DEF WheelInv, ExpirationCovered, buckets
  <2> QED
    BY <2>1, StaysCovered
<1> QED
  BY <1>1, <1>2 DEF WheelInv

\* The new wheel has empty buckets and nobody at an offer.
LEMMA InitWheel == Init => WheelInv
<1> SUFFICES ASSUME Init PROVE WheelInv
  OBVIOUS
<1>1. Typed
  BY InitTyped
<1>2. NotBeforeSchedule
  BY DEF Init, NotBeforeSchedule
<1>3. ArmedHasExpiration /\ ExpirationCovered
  BY DEF Init, ArmedHasExpiration, ExpirationCovered
<1> QED
  BY <1>1, <1>2, <1>3 DEF WheelInv

\* The target of an inserter at its offer does not move when a Schedule call
\* sets its deadline: the entry is another one.
LEMMA DeadlineMovesNoTarget ==
    ASSUME WheelInv, NEW e \in Ents, ScheduleCall(e), NEW q \in Procs, ipc[q] = "offer"
    PROVE  Target(q)' = Target(q)
<1>1. Ent(q) \in Ents
  BY Aims DEF WheelInv
<1>2. Ent(q) # e
  <2>1. CASE q = Loop
    <3>1. pending \in Seq(Ents) /\ pending # <<>>
      BY <2>1 DEF WheelInv, Typed, TypeOK, LoopInserts
    <3>2. 1 \in DOMAIN pending /\ Head(pending) = pending[1]
      BY <3>1
    <3> QED
      BY <2>1, <3>2 DEF WheelInv, NotBeforeSchedule, ScheduleCall, Ent
  <2>2. CASE q # Loop
    BY <2>2 DEF Ent, ScheduleCall
  <2> QED
    BY <2>1, <2>2
<1>3. deadline'[Ent(q)] = deadline[Ent(q)]
  BY <1>1, <1>2 DEF ScheduleCall, WheelInv, Typed, TypeOK
<1>4. UNCHANGED <<lv, pending>>
  BY DEF ScheduleCall
<1> QED
  BY <1>3, <1>4 DEF Target, BucketOf, Ent

\* Schedule, Cancel, Stop and the clock change no bucket and no target.
LEMMA CallsWheel ==
    ASSUME WheelInv,
           \/ Time \/ Stop
           \/ \E e \in Ents : ScheduleCall(e) \/ Register(e)
           \/ \E i \in Ids : CancelTake(i) \/ CancelMark(i)
    PROVE  WheelInv'
<1>1. Typed'
  BY CallsTyped DEF WheelInv
<1>2. UNCHANGED <<buckets, heap, tpc, tb, pending, lv>> /\ UNCHANGED list
  BY DEF Time, Stop, ScheduleCall, Register, CancelTake, CancelMark, loop, buckets
<1>3. /\ \A e \in Ents : ipc'[e] = "new" => ipc[e] = "new"
      /\ \A q \in Procs : ipc[q] = "offer" => ipc'[q] = "offer"
  <2>1. CASE UNCHANGED ipc
    BY <2>1
  <2>2. ASSUME NEW e \in Ents, ScheduleCall(e) \/ Register(e) PROVE <1>3!:
    BY <2>2, LevelFacts DEF ScheduleCall, Register, WheelInv, Typed, TypeOK
  <2> QED
    BY <2>1, <2>2 DEF Time, Stop, CancelTake, CancelMark
<1>4. NotBeforeSchedule'
  BY <1>2, <1>3, NothingEnters DEF WheelInv
<1>5. \A q \in Procs : ipc[q] = "offer" => Target(q)' = Target(q)
  <2>1. CASE UNCHANGED deadline
    BY <1>2, <2>1 DEF Target, BucketOf, Ent
  <2>2. CASE \E e \in Ents : ScheduleCall(e)
    BY <2>2, DeadlineMovesNoTarget
  <2> QED
    BY <2>1, <2>2 DEF Time, Stop, Register, CancelTake, CancelMark
<1> QED
  BY <1>1, <1>2, <1>3, <1>4, <1>5, BucketsAlone

\* insert returns or goes on, and has linked and offered nothing.
Continues(p) ==
    /\ ipc[p] \notin {"offer", "idle"}
    /\ \E pc \in InsertPC \ {"new"} : Step(p, pc)
    /\ Return(p) \/ (UNCHANGED pending /\ \A q \in Procs \ {p} : lv'[q] = lv[q])
    /\ UNCHANGED <<buckets, heap, deadline, tpc, tb, tt>>
    /\ wake' = TRUE \/ (ipc[p] # "wake" /\ UNCHANGED wake)

\* All that insert and add do, then, is to link, to offer, or to continue.
LEMMA InsertSteps ==
    ASSUME Typed, NEW p \in Procs, Insert(p)
    PROVE  Continues(p) \/ Link(p) \/ Offer(p)
<1>1. CASE Add(p)
  <2>1. ipc[p] = "add" /\ UNCHANGED <<buckets, heap, deadline, tpc, tb, tt, wake>>
    BY <1>1 DEF Add, loop
  <2>2. \/ Return(p)
        \/ (\E pc \in {"due", "link", "escalate"} : Step(p, pc)) /\ UNCHANGED <<lv, pending>>
    BY <1>1 DEF Add
  <2>3. \E pc \in InsertPC \ {"new"} : Step(p, pc)
    BY <2>2 DEF Return, InsertPC
  <2> QED
    BY <2>1, <2>2, <2>3 DEF Continues
<1>2. CASE Escalate(p)
  <2>1. /\ ipc[p] = "escalate" /\ Step(p, "add")
        /\ UNCHANGED <<buckets, heap, deadline, tpc, tb, tt, wake, pending>>
    BY <1>2 DEF Escalate, loop
  <2>2. \A q \in Procs \ {p} : lv'[q] = lv[q]
    BY <1>2 DEF Escalate, Typed, TypeOK
  <2> QED
    BY <2>1, <2>2 DEF Continues, InsertPC
<1>3. CASE Wake(p)
  <2>1. /\ ipc[p] = "wake" /\ Return(p) /\ wake' = TRUE
        /\ UNCHANGED <<buckets, heap, deadline, tpc, tb, tt>>
    BY <1>3 DEF Wake, Signal, loop
  <2> QED
    BY <2>1 DEF Continues, Return, InsertPC
<1>4. CASE Due(p)
  <2>1. ipc[p] = "due" /\ UNCHANGED <<buckets, heap, deadline, tpc, tb, tt, wake>>
    BY <1>4 DEF Due, loop
  <2>2. Return(p) \/ (Step(p, "launch") /\ UNCHANGED <<lv, pending>>)
    BY <1>4 DEF Due
  <2>3. \E pc \in InsertPC \ {"new"} : Step(p, pc)
    BY <2>2 DEF Return, InsertPC
  <2> QED
    BY <2>1, <2>2, <2>3 DEF Continues
<1>5. CASE Launch(p)
  <2>1. /\ ipc[p] = "launch" /\ Return(p)
        /\ UNCHANGED <<buckets, heap, deadline, tpc, tb, tt, wake>>
    BY <1>5 DEF Launch, loop
  <2> QED
    BY <2>1 DEF Continues, Return, InsertPC
<1> QED
  BY <1>1, <1>2, <1>3, <1>4, <1>5 DEF Insert

\* A step that continues an insert leaves the offers of others alone.
LEMMA ContinuesOffers ==
    ASSUME Typed, NEW p \in Procs, Continues(p)
    PROVE  \A q \in Procs : ipc[q] = "offer" => ipc'[q] = "offer" /\ Target(q)' = Target(q)
<1>1. /\ \A q \in Procs \ {p} : lv'[q] = lv[q]
      /\ p # Loop => UNCHANGED pending
  BY DEF Continues, Return, Typed, TypeOK
<1> QED
  BY <1>1, OffersStay DEF Continues

\* Nor does it disturb the invariant.
LEMMA ContinuesWheel ==
    ASSUME WheelInv, Typed', NEW p \in Procs, Continues(p)
    PROVE  WheelInv'
<1>1. ipc[p] # "idle" /\ UNCHANGED <<buckets, heap, tpc, tb, list>>
  BY DEF Continues, buckets
<1>2. \A q \in Procs : ipc[q] = "offer" => ipc'[q] = "offer" /\ Target(q)' = Target(q)
  BY ContinuesOffers DEF WheelInv
<1>3. \A e \in Ents : ipc'[e] = "new" => ipc[e] = "new"
  BY LevelFacts DEF Continues, Step, WheelInv, Typed, TypeOK
<1>4. pending' = pending \/ (pending # <<>> /\ pending' = Tail(pending))
  BY <1>1 DEF Continues, Return, WheelInv, Typed, LoopInserts
<1>5. NotBeforeSchedule'
  BY <1>1, <1>3, <1>4, NothingEnters DEF WheelInv
<1> QED
  BY <1>1, <1>2, <1>5, BucketsAlone

\* bucket.add: an inserter that changes the expiration of its bucket goes on
\* to offer it.
LEMMA LinkFacts ==
    ASSUME Typed, NEW p \in Procs, Link(p)
    PROVE  /\ UNCHANGED <<heap, tpc, tb, tt, wake>>
           /\ \A q \in Procs : ipc[q] = "offer" => ipc'[q] = "offer" /\ Target(q)' = Target(q)
           /\ \A b \in Buckets : expiration'[b] # expiration[b] =>
                 ipc'[p] = "offer" /\ Target(p)' = b
<1>1. ipc[p] = "link" /\ UNCHANGED <<heap, deadline, tpc, tb, tt, wake>>
  BY DEF Link, loop
<1> DEFINE t == Target(p)
           x == BucketExp(Ent(p), lv[p])
<1>2. t \in Buckets
  BY <1>1, Aims
<1>3. expiration' = [expiration EXCEPT ![t] = x]
  BY DEF Link
<1>4. \/ expiration[t] # x /\ Step(p, "offer") /\ UNCHANGED <<lv, pending>>
      \/ expiration[t] = x /\ Return(p)
  BY DEF Link
<1>5. /\ \A q \in Procs \ {p} : lv'[q] = lv[q]
      /\ p # Loop => UNCHANGED pending
      /\ \E pc \in {"offer", "idle"} : Step(p, pc)
  BY <1>4 DEF Return, Typed, TypeOK
<1>6. \A q \in Procs : ipc[q] = "offer" => ipc'[q] = "offer" /\ Target(q)' = Target(q)
  BY <1>1, <1>5, OffersStay DEF InsertPC
<1>7. expiration[t] # x => ipc'[p] = "offer" /\ Target(p)' = t
  <2> SUFFICES ASSUME expiration[t] # x
               PROVE  ipc'[p] = "offer" /\ Target(p)' = Target(p)
    OBVIOUS
  <2>1. Step(p, "offer") /\ UNCHANGED <<lv, pending, deadline>>
    BY <1>1, <1>4
  <2> QED
    BY <2>1 DEF Step, Target, BucketOf, Ent, Typed, TypeOK
<1>8. \A b \in Buckets : expiration'[b] # expiration[b] => b = t /\ expiration[t] # x
  BY <1>2, <1>3 DEF Typed, TypeOK
<1> QED
  BY <1>1, <1>6, <1>7, <1>8

\* The bucket's expiration is new, and the inserter goes on to offer it, or is
\* the one it had, and whoever answered for it still does.
LEMMA LinkWheel ==
    ASSUME WheelInv, Typed', NEW p \in Procs, Link(p)
    PROVE  WheelInv'
<1> DEFINE b == Target(p)
           x == BucketExp(Ent(p), lv[p])
<1>1. ipc[p] = "link" /\ UNCHANGED tpc
  BY DEF Link, loop
<1>2. Ent(p) \in Ents /\ b \in Buckets /\ x \in Times /\ x # NoTime
  BY <1>1, Aims, LevelFacts DEF WheelInv, NoTime
<1>3. /\ list' = [list EXCEPT ![b] = Append(@, Ent(p))]
      /\ expiration' = [expiration EXCEPT ![b] = x]
  BY DEF Link
<1>4. (Step(p, "offer") /\ UNCHANGED pending) \/ Return(p)
  BY DEF Link
<1>5. \E pc \in {"offer", "idle"} : Step(p, pc)
  BY <1>4 DEF Return
<1>6. ipc[Ent(p)] # "new"
  <2>1. CASE p = Loop
    <3>1. pending \in Seq(Ents) /\ pending # <<>>
      BY <1>1, <2>1 DEF WheelInv, Typed, TypeOK, LoopInserts
    <3>2. 1 \in DOMAIN pending /\ Head(pending) = pending[1]
      BY <3>1
    <3> QED
      BY <1>2, <2>1, <3>2 DEF WheelInv, NotBeforeSchedule, Ent
  <2>2. CASE p # Loop
    BY <1>1, <2>2 DEF Ent
  <2> QED
    BY <2>1, <2>2
<1>7. list \in [Buckets -> Seq(Ents)] /\ expiration \in [Buckets -> Times \union {NoTime}]
  BY DEF WheelInv, Typed, TypeOK
<1> HIDE DEF b, x
<1>8. NotBeforeSchedule'
  <2> SUFFICES ASSUME NEW e \in Ents, ipc'[e] = "new"
               PROVE  /\ \A i \in DOMAIN pending' : pending'[i] # e
                      /\ \A c \in Buckets : \A i \in DOMAIN list'[c] : list'[c][i] # e
    BY DEF NotBeforeSchedule
  <2>1. ipc[e] = "new" /\ e # Ent(p)
    BY <1>5, <1>6, LevelFacts DEF Step, WheelInv, Typed, TypeOK
  <2>2. \A i \in DOMAIN pending' : pending'[i] # e
    <3>1. pending \in Seq(Ents) /\ \A i \in DOMAIN pending : pending[i] # e
      BY <2>1 DEF WheelInv, NotBeforeSchedule, Typed, TypeOK
    <3>2. pending' = pending \/ (pending # <<>> /\ pending' = Tail(pending))
      BY <1>1, <1>4 DEF Return, WheelInv, Typed, LoopInserts
    <3>3. CASE pending # <<>> /\ pending' = Tail(pending)
      <4>1. \A i \in 1 .. Len(pending) - 1 :
               i + 1 \in DOMAIN pending /\ pending'[i] = pending[i + 1]
        BY <3>1, <3>3
      <4> QED
        BY <3>1, <3>3, <4>1
    <3> QED
      BY <3>1, <3>2, <3>3
  <2>3. ASSUME NEW c \in Buckets, NEW i \in DOMAIN list'[c] PROVE list'[c][i] # e
    <3>1. \A j \in DOMAIN list[c] : list[c][j] # e
      BY <2>1 DEF WheelInv, NotBeforeSchedule
    <3>2. CASE c = b
      <4>1. list'[c] = Append(list[c], Ent(p)) /\ list[c] \in Seq(Ents)
        BY <1>2, <1>3, <1>7, <3>2
      <4> QED
        BY <1>2, <2>1, <2>3, <3>1, <4>1
    <3>3. CASE c # b
      <4>1. list'[c] = list[c]
        BY <1>2, <1>3, <1>7, <3>3
      <4> QED
        BY <2>3, <3>1, <4>1
    <3> QED
      BY <3>2, <3>3
  <2> QED
    BY <2>2, <2>3
<1>9. ArmedHasExpiration'
  BY <1>2, <1>3, <1>7 DEF WheelInv, ArmedHasExpiration
<1>10. ExpirationCovered'
  <2> SUFFICES ASSUME NEW c \in Buckets, expiration'[c] # NoTime PROVE Covered(c)'
    BY DEF ExpirationCovered
  <2>1. CASE expiration'[c] # expiration[c]
    BY <2>1, LinkFacts DEF WheelInv, Covered
  <2>2. CASE expiration'[c] = expiration[c]
    <3>1. Covered(c)
      BY <2>2 DEF WheelInv, ExpirationCovered
    <3> QED
      BY <3>1, LinkFacts, StaysCovered DEF WheelInv
  <2> QED
    BY <2>1, <2>2
<1> QED
  BY <1>8, <1>9, <1>10 DEF WheelInv

\* delayQueue.offer: the inserter hands the bucket over to the heap.
LEMMA OfferWheel ==
    ASSUME WheelInv, Typed', NEW p \in Procs, Offer(p)
    PROVE  WheelInv'
<1>1. /\ ipc[p] = "offer" /\ ipc' = [ipc EXCEPT ![p] = "wake"]
      /\ UNCHANGED <<list, expiration, deadline, lv, pending, tpc, tb>>
  BY DEF Offer, Step, loop, buckets
<1>2. Target(p) \in Buckets /\ expiration[Target(p)] \in Times \union {NoTime}
  BY <1>1, Aims DEF WheelInv, Typed, TypeOK
<1>3. expiration[Target(p)] # Off
  BY <1>2, LevelFacts DEF Off, NoTime
<1>4. /\ heap'[Target(p)] # Off
      /\ \A b \in Buckets : heap[b] # Off => heap'[b] # Off
  BY <1>2, <1>3 DEF Offer, WheelInv, Typed, TypeOK
<1>5. NotBeforeSchedule'
  <2>1. \A e \in Ents : ipc'[e] = "new" => ipc[e] = "new"
    BY <1>1, LevelFacts DEF WheelInv, Typed, TypeOK
  <2> QED
    BY <1>1, <2>1, NothingEnters DEF WheelInv
<1>6. ArmedHasExpiration'
  BY <1>1 DEF WheelInv, ArmedHasExpiration
<1>7. ExpirationCovered'
  <2> SUFFICES ASSUME NEW b \in Buckets, expiration'[b] # NoTime, heap'[b] = Off
               PROVE  Covered(b)'
    BY DEF ExpirationCovered, Covered
  <2>1. b # Target(p) /\ heap[b] = Off
    BY <1>4
  <2>2. Covered(b)
    BY <1>1 DEF WheelInv, ExpirationCovered
  <2>3. CASE tpc \in {"load", "advance", "flush"} /\ tb = b
    BY <1>1, <2>3 DEF Covered
  <2>4. ASSUME NEW q \in Procs, ipc[q] = "offer", Target(q) = b PROVE Covered(b)'
    <3>1. q # p /\ ipc'[q] = "offer"
      BY <1>1, <2>1, <2>4 DEF WheelInv, Typed, TypeOK
    <3>2. Target(q)' = Target(q)
      BY <1>1 DEF Target, BucketOf, Ent
    <3> QED
      BY <2>4, <3>1, <3>2 DEF Covered
  <2> QED
    BY <2>1, <2>2, <2>3, <2>4 DEF Covered
<1> QED
  BY <1>5, <1>6, <1>7 DEF WheelInv

\* insert and add.
LEMMA InsertWheel ==
    ASSUME WheelInv, NEW p \in Procs, Insert(p)
    PROVE  WheelInv'
<1>1. Typed'
  BY InsertTyped DEF WheelInv
<1> QED
  BY <1>1, InsertSteps, ContinuesWheel, LinkWheel, OfferWheel DEF WheelInv

\* tickLoop pops a bucket and answers for it until it has flushed it.
LEMMA TickLoopWheel ==
    ASSUME WheelInv, TickLoop
    PROVE  WheelInv'
<1>1. Typed' /\ UNCHANGED <<deadline, lv>>
  BY TickLoopTyped
     DEF WheelInv, TickLoop, Poll, Awake, LoadExpiration, AdvanceClock, Flush, Drain
<1>2. ASSUME UNCHANGED <<ipc, pending>>
      PROVE  \A q \in Procs : ipc[q] = "offer" => ipc'[q] = "offer" /\ Target(q)' = Target(q)
  BY <1>1, <1>2 DEF Target, BucketOf, Ent
<1>3. ASSUME UNCHANGED <<ipc, pending, list>> PROVE NotBeforeSchedule'
  BY <1>3 DEF WheelInv, NotBeforeSchedule
<1>4. CASE Awake \/ LoadExpiration \/ AdvanceClock
  <2>1. /\ UNCHANGED <<ipc, pending, buckets, list, heap>>
        /\ tpc \in {"load", "advance", "flush"}
              => tpc' \in {"load", "advance", "flush"} /\ UNCHANGED tb
    BY <1>4 DEF Awake, LoadExpiration, AdvanceClock, buckets
  <2>2. NotBeforeSchedule'
    BY <1>3, <2>1
  <2> QED
    BY <1>1, <1>2, <2>1, <2>2, BucketsAlone
<1>5. CASE Poll
  <2>1. UNCHANGED <<ipc, pending, buckets, list, expiration>> /\ tpc = "poll"
    BY <1>5 DEF Poll, buckets
  <2>2. NotBeforeSchedule'
    BY <1>3, <2>1
  <2>3. CASE UNCHANGED <<heap, tb>>
    BY <1>1, <1>2, <2>1, <2>2, <2>3, BucketsAlone
  <2>4. ASSUME NEW b \in Buckets, heap' = [heap EXCEPT ![b] = Off], tb' = b, tpc' = "load"
        PROVE  WheelInv'
    <3>1. ArmedHasExpiration'
      BY <2>1 DEF WheelInv, ArmedHasExpiration
    <3>2. ASSUME NEW c \in Buckets, expiration'[c] # NoTime, c # b PROVE Covered(c)'
      <4>1. Covered(c) /\ heap'[c] = heap[c]
        BY <2>1, <2>4, <3>2 DEF WheelInv, ExpirationCovered, Typed, TypeOK
      <4> QED
        BY <1>2, <2>1, <4>1, StaysCovered
    <3>3. Covered(b)'
      BY <2>4 DEF Covered
    <3>4. ExpirationCovered'
      BY <3>2, <3>3 DEF ExpirationCovered
    <3> QED
      BY <1>1, <2>2, <3>1, <3>4 DEF WheelInv
  <2> QED
    BY <1>5, <2>3, <2>4 DEF Poll, Tops, OnHeap
<1>6. CASE Flush
  <2>1. /\ tpc = "flush" /\ pending' = list[tb] /\ tb \in Buckets
        /\ list' = [list EXCEPT ![tb] = <<>>]
        /\ expiration' = [expiration EXCEPT ![tb] = NoTime]
        /\ UNCHANGED <<ipc, heap, tb>>
    BY <1>6 DEF Flush, Detach, Reset, WheelInv, Typed, TypeOK
  <2>2. ipc[Loop] = "idle"
    BY <2>1 DEF WheelInv, Typed, LoopInserts
  <2>3. \A b \in Buckets \ {tb} : list'[b] = list[b] /\ expiration'[b] = expiration[b]
    BY <2>1 DEF WheelInv, Typed, TypeOK
  <2>4. list'[tb] = <<>> /\ expiration'[tb] = NoTime
    BY <2>1 DEF WheelInv, Typed, TypeOK
  <2>5. NotBeforeSchedule'
    <3> SUFFICES ASSUME NEW e \in Ents, ipc'[e] = "new"
                 PROVE  /\ \A i \in DOMAIN pending' : pending'[i] # e
                        /\ \A c \in Buckets : \A i \in DOMAIN list'[c] : list'[c][i] # e
      BY DEF NotBeforeSchedule
    <3>1. \A c \in Buckets : \A i \in DOMAIN list[c] : list[c][i] # e
      BY <2>1 DEF WheelInv, NotBeforeSchedule
    <3>2. \A i \in DOMAIN pending' : pending'[i] # e
      BY <2>1, <3>1
    <3>3. \A c \in Buckets : \A i \in DOMAIN list'[c] : list'[c][i] # e
      BY <2>3, <2>4, <3>1
    <3> QED
      BY <3>2, <3>3
  <2>6. ArmedHasExpiration'
    BY <2>3, <2>4 DEF WheelInv, ArmedHasExpiration
  <2>7. ExpirationCovered'
    <3> SUFFICES ASSUME NEW b \in Buckets, expiration'[b] # NoTime PROVE Covered(b)'
      BY DEF ExpirationCovered
    <3>1. b # tb /\ Covered(b)
      BY <2>3, <2>4 DEF WheelInv, ExpirationCovered
    <3>2. \A q \in Procs : ipc[q] = "offer" => ipc'[q] = "offer" /\ Target(q)' = Target(q)
      BY <1>1, <2>1, <2>2 DEF Target, BucketOf, Ent
    <3> QED
      BY <2>1, <3>1, <3>2, StaysCovered
  <2> QED
    BY <1>1, <2>5, <2>6, <2>7 DEF WheelInv
<1>7. CASE Drain
  <2>1. /\ tpc = "drain" /\ ipc[Loop] = "idle" /\ UNCHANGED <<buckets, list, heap, pending>>
        /\ ipc' = ipc \/ ipc' = [ipc EXCEPT ![Loop] = "add"]
    BY <1>7 DEF Drain, Step, buckets
  <2>2. /\ \A e \in Ents : ipc'[e] = "new" => ipc[e] = "new"
        /\ \A q \in Procs : ipc[q] = "offer" => ipc'[q] = "offer"
    BY <2>1, LevelFacts DEF WheelInv, Typed, TypeOK
  <2>3. NotBeforeSchedule'
    BY <2>1, <2>2, NothingEnters DEF WheelInv
  <2>4. \A q \in Procs : Target(q)' = Target(q)
    BY <1>1, <2>1 DEF Target, BucketOf, Ent
  <2> QED
    BY <1>1, <2>1, <2>2, <2>3, <2>4, BucketsAlone
<1> QED
  BY <1>4, <1>5, <1>6, <1>7 DEF TickLoop

\* The invariant is inductive.
LEMMA WheelStep == WheelInv /\ [Next]_vars => WheelInv'
<1> SUFFICES ASSUME WheelInv, [Next]_vars PROVE WheelInv'
  OBVIOUS
<1>1. CASE UNCHANGED vars
  BY <1>1 DEF vars, clocks, buckets, loop, WheelInv, Typed, TypeOK, LoopInserts,
              NotBeforeSchedule, ArmedHasExpiration, ExpirationCovered, Covered,
              Target, BucketOf, Ent
<1>2. CASE Next
  BY <1>2, CallsWheel, InsertWheel, TickLoopWheel DEF Next
<1> QED
  BY <1>1, <1>2

\* NoLostEntry for every wheel: whatever the interleaving of inserters with
\* tickLoop, no bucket with entries is left without somebody to flush it.
THEOREM NothingLost == Spec => []NoLostEntry
<1>1. WheelInv => NoLostEntry
  BY DEF WheelInv, NoLostEntry, ArmedHasExpiration, ExpirationCovered, Covered
<1> QED
  BY InitWheel, WheelStep, <1>1, PTL DEF Spec

-----------------------------------------------------------------------------
(* The sleeping poller: the wake-up is sent after the lock of the delay     *)
(* queue is released, and an expiration changes before its bucket is       *)
(* offered.                                                                *)

\* Where the heap's order is not that of a bucket's expiration, the inserter
\* that moved it is about to offer the bucket; a bucket flushed meanwhile has none.
HeapOrdered ==
    \A b \in Buckets : heap[b] # Off =>
        \/ expiration[b] \in {heap[b], NoTime}
        \/ \E p \in Procs : ipc[p] = "offer" /\ Target(p) = b

\* NoLostWakeup, for every bucket with an expiration.
SleepsSafely ==
    tpc = "sleep" =>
        \/ wake \/ \E p \in Procs : ipc[p] \in {"offer", "wake"}
        \/ \A b \in Buckets : expiration[b] # NoTime => tt # NoTime /\ tt <= expiration[b]

\* The inductive invariant of NoLostWakeup.
SleepInv == WheelInv /\ HeapOrdered /\ SleepsSafely

\* A step that changes no order and takes no offer away.
LEMMA OrderStays ==
    ASSUME HeapOrdered,
           \A b \in Buckets : heap'[b] # Off =>
              heap'[b] = heap[b] /\ expiration'[b] \in {expiration[b], NoTime},
           \A q \in Procs : ipc[q] = "offer" => ipc'[q] = "offer" /\ Target(q)' = Target(q)
    PROVE  HeapOrdered'
<1> SUFFICES ASSUME NEW b \in Buckets, heap'[b] # Off
             PROVE  \/ expiration'[b] \in {heap'[b], NoTime}
                    \/ \E p \in Procs : ipc'[p] = "offer" /\ Target(p)' = b
  BY DEF HeapOrdered
<1>1. CASE expiration[b] \in {heap[b], NoTime}
  BY <1>1
<1>2. CASE \E p \in Procs : ipc[p] = "offer" /\ Target(p) = b
  BY <1>2
<1> QED
  BY <1>1, <1>2 DEF HeapOrdered

\* Whoever is at an offer or at a wake-up stays there, or has woken poll.
InsertersKept ==
    \A q \in Procs : ipc[q] \in {"offer", "wake"} => ipc'[q] \in {"offer", "wake"} \/ wake'

\* A sleep that was safe stays safe.
LEMMA SleepStays ==
    ASSUME SleepsSafely, InsertersKept,
           tpc' = "sleep" => tpc = "sleep" /\ tt' = tt /\ (wake => wake'),
           \A b \in Buckets : \/ expiration'[b] \in {expiration[b], NoTime}
                              \/ \E q \in Procs : ipc'[q] \in {"offer", "wake"}
    PROVE  SleepsSafely'
<1> SUFFICES ASSUME tpc' = "sleep", ~wake',
                    ~ \E q \in Procs : ipc'[q] \in {"offer", "wake"},
                    NEW b \in Buckets, expiration'[b] # NoTime
             PROVE  tt' # NoTime /\ tt' <= expiration'[b]
  BY DEF SleepsSafely
<1>1. ~wake /\ ~ \E q \in Procs : ipc[q] \in {"offer", "wake"}
  BY DEF InsertersKept
<1>2. expiration'[b] = expiration[b]
  OBVIOUS
<1> QED
  BY <1>1, <1>2 DEF SleepsSafely

\* Schedule, Cancel, Stop and the clock.
LEMMA CallsSleep ==
    ASSUME SleepInv,
           \/ Time \/ Stop
           \/ \E e \in Ents : ScheduleCall(e) \/ Register(e)
           \/ \E i \in Ids : CancelTake(i) \/ CancelMark(i)
    PROVE  HeapOrdered' /\ SleepsSafely'
<1>1. UNCHANGED <<expiration, heap, tpc, tt, wake, lv, pending>>
  BY DEF Time, Stop, ScheduleCall, Register, CancelTake, CancelMark, loop, buckets
<1>2. \A q \in Procs : ipc[q] \in {"offer", "wake"} => ipc'[q] = ipc[q]
  <2>1. CASE UNCHANGED ipc
    BY <2>1
  <2>2. ASSUME NEW e \in Ents, ScheduleCall(e) \/ Register(e) PROVE <1>2!:
    BY <2>2, LevelFacts DEF ScheduleCall, Register, SleepInv, WheelInv, Typed, TypeOK
  <2> QED
    BY <2>1, <2>2 DEF Time, Stop, CancelTake, CancelMark
<1>3. \A q \in Procs : ipc[q] = "offer" => Target(q)' = Target(q)
  <2>1. CASE UNCHANGED deadline
    BY <1>1, <2>1 DEF Target, BucketOf, Ent
  <2>2. CASE \E e \in Ents : ScheduleCall(e)
    BY <2>2, DeadlineMovesNoTarget DEF SleepInv
  <2> QED
    BY <2>1, <2>2 DEF Time, Stop, Register, CancelTake, CancelMark
<1>4. HeapOrdered'
  BY <1>1, <1>2, <1>3, OrderStays DEF SleepInv
<1>5. InsertersKept
  BY <1>2 DEF InsertersKept
<1>6. SleepsSafely'
  BY <1>1, <1>5, SleepStays DEF SleepInv
<1> QED
  BY <1>4, <1>6

\* insert and add.
LEMMA InsertSleep ==
    ASSUME SleepInv, NEW p \in Procs, Insert(p)
    PROVE  HeapOrdered' /\ SleepsSafely'
<1>1. Typed
  BY DEF SleepInv, WheelInv
<1>2. CASE Continues(p)
  <2>1. UNCHANGED <<expiration, heap, tpc, tt>> /\ (wake => wake')
    BY <1>2 DEF Continues, buckets
  <2>2. HeapOrdered'
    BY <1>1, <1>2, <2>1, ContinuesOffers, OrderStays DEF SleepInv
  <2>3. InsertersKept
    BY <1>1, <1>2 DEF InsertersKept, Continues, Step, Typed, TypeOK
  <2> QED
    BY <2>1, <2>2, <2>3, SleepStays DEF SleepInv
<1>3. CASE Link(p)
  <2>1. UNCHANGED <<heap, tpc, tt, wake>>
    BY <1>1, <1>3, LinkFacts
  <2>2. \A q \in Procs : ipc[q] = "offer" => ipc'[q] = "offer" /\ Target(q)' = Target(q)
    BY <1>1, <1>3, LinkFacts
  <2>3. \A b \in Buckets : expiration'[b] # expiration[b] => ipc'[p] = "offer" /\ Target(p)' = b
    BY <1>1, <1>3, LinkFacts
  <2>4. HeapOrdered'
    <3> SUFFICES ASSUME NEW b \in Buckets, heap'[b] # Off, expiration'[b] = expiration[b]
                 PROVE  \/ expiration'[b] \in {heap'[b], NoTime}
                        \/ \E q \in Procs : ipc'[q] = "offer" /\ Target(q)' = b
      BY <2>3 DEF HeapOrdered
    <3>1. CASE expiration[b] \in {heap[b], NoTime}
      BY <2>1, <3>1
    <3>2. CASE \E q \in Procs : ipc[q] = "offer" /\ Target(q) = b
      BY <2>2, <3>2
    <3> QED
      BY <2>1, <3>1, <3>2 DEF SleepInv, HeapOrdered
  <2>5. InsertersKept
    <3>1. ipc[p] = "link" /\ \E pc \in {"offer", "idle"} : Step(p, pc)
      BY <1>3 DEF Link, Return
    <3> QED
      BY <1>1, <3>1 DEF InsertersKept, Step, Typed, TypeOK
  <2>6. SleepsSafely'
    BY <2>1, <2>3, <2>5, SleepStays DEF SleepInv
  <2> QED
    BY <2>4, <2>6
<1>4. CASE Offer(p)
  <2>1. /\ ipc[p] = "offer" /\ ipc' = [ipc EXCEPT ![p] = "wake"]
        /\ heap' = [heap EXCEPT ![Target(p)] = expiration[Target(p)]]
        /\ UNCHANGED <<expiration, deadline, lv, pending, tpc, tt, wake>>
    BY <1>4 DEF Offer, Step, loop, buckets
  <2>2. Target(p) \in Buckets
    BY <1>1, <2>1, Aims
  <2>3. \A q \in Procs : Target(q)' = Target(q)
    BY <2>1 DEF Target, BucketOf, Ent
  <2>4. HeapOrdered'
    <3> SUFFICES ASSUME NEW b \in Buckets, heap'[b] # Off
                 PROVE  \/ expiration'[b] \in {heap'[b], NoTime}
                        \/ \E q \in Procs : ipc'[q] = "offer" /\ Target(q)' = b
      BY DEF HeapOrdered
    <3>1. CASE b = Target(p)
      BY <1>1, <2>1, <2>2, <3>1 DEF Typed, TypeOK
    <3>2. CASE b # Target(p)
      <4>1. heap'[b] = heap[b]
        BY <1>1, <2>1, <3>2 DEF Typed, TypeOK
      <4>2. ASSUME NEW q \in Procs, ipc[q] = "offer", Target(q) = b
            PROVE  ipc'[q] = "offer" /\ Target(q)' = b
        BY <1>1, <2>1, <2>3, <3>2, <4>2 DEF Typed, TypeOK
      <4> QED
        BY <2>1, <4>1, <4>2 DEF SleepInv, HeapOrdered
    <3> QED
      BY <3>1, <3>2
  <2>5. InsertersKept
    BY <1>1, <2>1 DEF InsertersKept, Typed, TypeOK
  <2>6. SleepsSafely'
    BY <2>1, <2>5, SleepStays DEF SleepInv
  <2> QED
    BY <2>4, <2>6
<1> QED
  BY <1>1, <1>2, <1>3, <1>4, InsertSteps

\* poll goes to sleep on an empty heap, or until the first bucket is due: any
\* other bucket is later, or its inserter is still to offer it.
LEMMA PollSleeps ==
    ASSUME SleepInv, Poll
    PROVE  SleepsSafely'
<1> SUFFICES ASSUME tpc' = "sleep", ~ \E p \in Procs : ipc'[p] \in {"offer", "wake"},
                    NEW c \in Buckets, expiration'[c] # NoTime
             PROVE  tt' # NoTime /\ tt' <= expiration'[c]
  BY DEF SleepsSafely
<1>1. tpc = "poll" /\ UNCHANGED <<ipc, expiration>>
  BY DEF Poll, buckets
<1>2. ~ \E p \in Procs : ipc[p] = "offer"
  BY <1>1
<1>3. c \in OnHeap
  BY <1>1, <1>2 DEF SleepInv, WheelInv, ExpirationCovered, Covered, OnHeap
<1>4. PICK b \in Tops : expiration[b] > now /\ tt' = expiration[b]
  BY <1>3 DEF Poll
<1>5. b \in Buckets /\ b \in OnHeap
  BY DEF Tops, OnHeap
<1>6. expiration[b] \in Times /\ expiration[b] # NoTime
  BY <1>4, <1>5, LevelFacts DEF SleepInv, WheelInv, Typed, TypeOK, NoTime, Times
<1>7. expiration[b] = heap[b] /\ expiration[c] = heap[c]
  BY <1>1, <1>2, <1>3, <1>5, <1>6 DEF SleepInv, HeapOrdered, OnHeap
<1>8. expiration[b] <= expiration[c]
  BY <1>3, <1>7 DEF Tops
<1> QED
  BY <1>1, <1>4, <1>6, <1>8

\* tickLoop.
LEMMA TickLoopSleep ==
    ASSUME SleepInv, TickLoop
    PROVE  HeapOrdered' /\ SleepsSafely'
<1>1. Typed /\ UNCHANGED <<deadline, lv>>
  BY DEF SleepInv, WheelInv, TickLoop, Poll, Awake, LoadExpiration, AdvanceClock, Flush, Drain
<1>2. \A q \in Procs : ipc[q] = "offer" => ipc'[q] = "offer" /\ Target(q)' = Target(q)
  <2>1. CASE UNCHANGED <<ipc, pending>>
    BY <1>1, <2>1 DEF Target, BucketOf, Ent
  <2>2. CASE Flush
    <3>1. ipc[Loop] = "idle" /\ UNCHANGED ipc
      BY <1>1, <2>2 DEF Flush, Typed, LoopInserts
    <3> QED
      BY <1>1, <3>1 DEF Target, BucketOf, Ent
  <2>3. CASE Drain
    <3>1. /\ ipc[Loop] = "idle" /\ UNCHANGED pending
          /\ ipc' = ipc \/ ipc' = [ipc EXCEPT ![Loop] = "add"]
      BY <2>3 DEF Drain, Step
    <3>2. \A q \in Procs : ipc[q] = "offer" => ipc'[q] = "offer"
      BY <1>1, <3>1, LevelFacts DEF Typed, TypeOK
    <3> QED
      BY <1>1, <3>1, <3>2 DEF Target, BucketOf, Ent
  <2> QED
    BY <2>1, <2>2, <2>3 DEF TickLoop, Poll, Awake, LoadExpiration, AdvanceClock
<1>3. \A b \in Buckets : heap'[b] # Off =>
          heap'[b] = heap[b] /\ expiration'[b] \in {expiration[b], NoTime}
  <2>1. CASE UNCHANGED <<heap, expiration>>
    BY <2>1
  <2>2. CASE Poll
    BY <1>1, <2>2 DEF Poll, Tops, OnHeap, buckets, Typed, TypeOK
  <2>3. CASE Flush
    BY <1>1, <2>3 DEF Flush, Reset, Typed, TypeOK
  <2> QED
    BY <2>1, <2>2, <2>3
       DEF TickLoop, Awake, LoadExpiration, AdvanceClock, Drain, buckets
<1>4. HeapOrdered'
  BY <1>2, <1>3, OrderStays DEF SleepInv
<1>5. CASE Poll
  BY <1>4, <1>5, PollSleeps
<1>6. CASE ~Poll
  BY <1>4, <1>6
     DEF TickLoop, Awake, LoadExpiration, AdvanceClock, Flush, Drain, SleepsSafely
<1> QED
  BY <1>5, <1>6

\* NoLostWakeup for every wheel: whatever the interleaving of inserters with
\* poll, tickLoop does not sleep past a bucket without a wake-up on its way.
THEOREM NeverSleptThrough == Spec => []NoLostWakeup
<1>1. Init => SleepInv
  <2> SUFFICES ASSUME Init PROVE SleepInv
    OBVIOUS
  <2>1. HeapOrdered /\ SleepsSafely
    BY DEF Init, HeapOrdered, SleepsSafely
  <2> QED
    BY <2>1, InitWheel DEF SleepInv
<1>2. SleepInv /\ [Next]_vars => SleepInv'
  <2> SUFFICES ASSUME SleepInv, [Next]_vars PROVE SleepInv'
    OBVIOUS
  <2>1. WheelInv'
    BY WheelStep DEF SleepInv
  <2>2. CASE UNCHANGED vars
    BY <2>1, <2>2 DEF vars, clocks, buckets, loop, SleepInv, HeapOrdered, SleepsSafely,
                      Target, BucketOf, Ent
  <2>3. CASE Next
    BY <2>1, <2>3, CallsSleep, InsertSleep, TickLoopSleep DEF Next, SleepInv
  <2> QED
    BY <2>2, <2>3
<1>3. SleepInv => NoLostWakeup
  BY DEF SleepInv, WheelInv, SleepsSafely, NoLostWakeup, ArmedHasExpiration
<1> QED
  BY <1>1, <1>2, <1>3, PTL DEF Spec

-----------------------------------------------------------------------------
(* Every entry is in one place *)

\* Whoever is there still has the entry to link or to launch.
Working == {"add", "escalate", "link", "due", "launch"}

\* Its Schedule call has it.
AtHome(e) == ipc[e] \in {"new", "register"} \union Working

\* It is linked in a bucket.
Linked(e) == \E b \in Buckets : \E i \in DOMAIN list[b] : list[b][i] = e

\* tickLoop has it: the entry at the head is linked again before it is taken
\* off the list.
Handled(i) == i \in DOMAIN pending /\ ~(i = 1 /\ ipc[Loop] \in {"offer", "wake"})
InHand(e) == \E i \in DOMAIN pending : Handled(i) /\ pending[i] = e

OnePlace ==
    /\ \A e \in Ents : AtHome(e) => ~Linked(e) /\ ~InHand(e)
    /\ \A e \in Ents : Linked(e) => ~InHand(e)
    /\ \A b, c \in Buckets : \A i \in DOMAIN list[b], j \in DOMAIN list[c] :
          list[b][i] = list[c][j] => b = c /\ i = j
    /\ \A i, j \in DOMAIN pending : Handled(i) /\ Handled(j) /\ pending[i] = pending[j] => i = j

\* A launch takes the entry out of the last place it is in.
Unfired ==
    \A e \in Ents :
        fired[e] <= 1 /\ (AtHome(e) \/ Linked(e) \/ InHand(e) => fired[e] = 0)

\* A step after which no entry is with a Schedule call or with tickLoop that
\* was not there before.
Fewer ==
    /\ \A e \in Ents : AtHome(e)' => AtHome(e)
    /\ \E k \in {0, 1} : \A i \in DOMAIN pending' :
          Handled(i)' => /\ i + k \in DOMAIN pending /\ Handled(i + k)
                         /\ pending'[i] = pending[i + k]

\* What Fewer says of tickLoop's list.
LEMMA FewerInHand ==
    ASSUME Fewer, pending' \in Seq(Ents)
    PROVE  /\ \A e \in Ents : InHand(e)' => InHand(e)
           /\ OnePlace => \A i, j \in DOMAIN pending' :
                 Handled(i)' /\ Handled(j)' /\ pending'[i] = pending'[j] => i = j
<1>1. PICK k \in {0, 1} : \A i \in DOMAIN pending' :
          Handled(i)' => /\ i + k \in DOMAIN pending /\ Handled(i + k)
                         /\ pending'[i] = pending[i + k]
  BY DEF Fewer
<1>2. \A e \in Ents : InHand(e)' => InHand(e)
  BY <1>1 DEF InHand
<1>3. DOMAIN pending' \subseteq Nat
  OBVIOUS
<1>4. ASSUME OnePlace, NEW i \in DOMAIN pending', NEW j \in DOMAIN pending',
             Handled(i)', Handled(j)', pending'[i] = pending'[j]
      PROVE  i = j
  <2>1. i + k = j + k
    BY <1>1, <1>4 DEF OnePlace
  <2> QED
    BY <1>3, <2>1
<1> QED
  BY <1>2, <1>4

\* No entry moves, or one is dropped.
LEMMA FewerOnePlace ==
    ASSUME OnePlace, Fewer, pending' \in Seq(Ents), UNCHANGED list
    PROVE  /\ OnePlace'
           /\ \A e \in Ents : AtHome(e)' \/ Linked(e)' \/ InHand(e)'
                            => AtHome(e) \/ Linked(e) \/ InHand(e)
<1>1. \A e \in Ents : AtHome(e)' => AtHome(e)
  BY DEF Fewer
<1>2. \A e \in Ents : Linked(e)' <=> Linked(e)
  BY DEF Linked
<1>3. \A e \in Ents : InHand(e)' => InHand(e)
  BY FewerInHand
<1>4. \A i, j \in DOMAIN pending' :
          Handled(i)' /\ Handled(j)' /\ pending'[i] = pending'[j] => i = j
  BY FewerInHand
<1>5. OnePlace'
  BY <1>1, <1>2, <1>3, <1>4 DEF OnePlace
<1> QED
  BY <1>1, <1>2, <1>3, <1>5

\* No callback is launched either.
LEMMA FewerPlaces ==
    ASSUME OnePlace, Unfired, Fewer, pending' \in Seq(Ents), UNCHANGED <<list, fired>>
    PROVE  OnePlace' /\ Unfired'
  BY FewerOnePlace DEF Unfired

\* The entry an inserter works on is with it.
LEMMA InserterHas ==
    ASSUME Typed, NEW p \in Procs, ipc[p] \in Working
    PROVE  /\ Ent(p) \in Ents
           /\ \/ p = Ent(p) /\ AtHome(Ent(p))
              \/ p = Loop /\ Handled(1) /\ pending[1] = Ent(p) /\ InHand(Ent(p))
<1>1. CASE p = Loop
  <2>1. pending \in Seq(Ents) /\ pending # <<>>
    BY <1>1 DEF Typed, TypeOK, LoopInserts, Working
  <2>2. Ent(p) = pending[1] /\ 1 \in DOMAIN pending /\ pending[1] \in Ents
    BY <1>1, <2>1 DEF Ent
  <2>3. Handled(1)
    BY <1>1, <2>2 DEF Handled, Working
  <2> QED
    BY <1>1, <2>2, <2>3 DEF InHand
<1>2. CASE p # Loop
  BY <1>2 DEF Procs, Ent, AtHome
<1> QED
  BY <1>1, <1>2

\* An inserter goes from one step of insert to another, or returns.
LEMMA InserterFewer ==
    ASSUME Typed, NEW p \in Procs, ipc[p] \in Working \union {"offer", "wake"},
           \/ \E pc \in Working \union {"offer", "wake"} :
                 /\ Step(p, pc) /\ UNCHANGED pending
                 /\ pc \in Working => ipc[p] \in Working
           \/ Return(p)
    PROVE  Fewer
<1>0. ipc \in [Procs -> InsertPC] /\ pending \in Seq(Ents) /\ Loop \in Procs /\ Ents \subseteq Procs
      /\ Loop \notin Ents
  BY LevelFacts DEF Typed, TypeOK
<1>1. CASE \E pc \in Working \union {"offer", "wake"} :
              /\ Step(p, pc) /\ UNCHANGED pending
              /\ pc \in Working => ipc[p] \in Working
  <2>1. PICK pc \in Working \union {"offer", "wake"} :
              /\ Step(p, pc) /\ UNCHANGED pending
              /\ pc \in Working => ipc[p] \in Working
    BY <1>1
  <2>2. \A e \in Ents : AtHome(e)' => AtHome(e)
    BY <1>0, <2>1 DEF Step, AtHome, Working
  <2>3. ipc[Loop] \in {"offer", "wake"} => ipc'[Loop] \in {"offer", "wake"}
    BY <1>0, <2>1 DEF Step, Working
  <2>4. \A i \in DOMAIN pending' : Handled(i)' => /\ i + 0 \in DOMAIN pending /\ Handled(i + 0)
                                                  /\ pending'[i] = pending[i + 0]
    BY <1>0, <2>1, <2>3 DEF Handled
  <2> QED
    BY <2>2, <2>4 DEF Fewer
<1>2. CASE Return(p)
  <2>1. \A e \in Ents : AtHome(e)' => AtHome(e)
    BY <1>0, <1>2 DEF Return, Step, AtHome, Working
  <2>2. CASE p = Loop
    <3>1. pending # <<>> /\ pending' = Tail(pending)
      BY <1>2, <2>2 DEF Return, Typed, LoopInserts, Working
    <3>2. \A i \in DOMAIN pending' : /\ i + 1 \in DOMAIN pending /\ i + 1 # 1
                                     /\ pending'[i] = pending[i + 1]
      BY <1>0, <3>1
    <3>3. \A i \in DOMAIN pending' : Handled(i)' => /\ i + 1 \in DOMAIN pending /\ Handled(i + 1)
                                                    /\ pending'[i] = pending[i + 1]
      BY <3>2 DEF Handled
    <3> QED
      BY <2>1, <3>3 DEF Fewer
  <2>3. CASE p # Loop
    <3>1. UNCHANGED pending /\ ipc'[Loop] = ipc[Loop]
      BY <1>0, <1>2, <2>3 DEF Return, Step
    <3>2. \A i \in DOMAIN pending' : Handled(i)' => /\ i + 0 \in DOMAIN pending /\ Handled(i + 0)
                                                    /\ pending'[i] = pending[i + 0]
      BY <1>0, <3>1 DEF Handled
    <3> QED
      BY <2>1, <3>2 DEF Fewer
  <2> QED
    BY <2>2, <2>3
<1> QED
  BY <1>1, <1>2

\* Whoever has linked or launched its entry lets go of it.
LEMMA LetGo ==
    ASSUME Typed, OnePlace, NEW p \in Procs, ipc[p] \in Working, Typed',
           (Step(p, "offer") /\ UNCHANGED pending) \/ Return(p),
           NEW e \in Ents, e = Ent(p)
    PROVE  ~AtHome(e)' /\ ~InHand(e)'
<1>0. /\ ipc \in [Procs -> InsertPC] /\ pending \in Seq(Ents) /\ pending' \in Seq(Ents)
      /\ Loop \in Procs /\ Ents \subseteq Procs /\ Loop \notin Ents
  BY LevelFacts DEF Typed, TypeOK
<1>1. \/ p = e /\ AtHome(e)
      \/ p = Loop /\ Handled(1) /\ pending[1] = e /\ InHand(e)
  BY InserterHas
<1>2. Fewer
  BY InserterFewer DEF Working
<1>3. CASE p = e /\ AtHome(e)
  <2>1. ipc'[e] \in {"offer", "idle"}
    BY <1>0, <1>3 DEF Return, Step
  <2>2. ~InHand(e)
    BY <1>3 DEF OnePlace
  <2>3. ~InHand(e)'
    BY <1>0, <1>2, <2>2, FewerInHand
  <2> QED
    BY <2>1, <2>3 DEF AtHome, Working
<1>4. CASE p = Loop /\ Handled(1) /\ pending[1] = e /\ InHand(e)
  <2>1. ~AtHome(e)'
    BY <1>2, <1>4 DEF OnePlace, Fewer
  <2>2. \A i \in DOMAIN pending : i # 1 => Handled(i) /\ pending[i] # e
    BY <1>4 DEF OnePlace, Handled
  <2>3. ASSUME NEW i \in DOMAIN pending', Handled(i)' PROVE pending'[i] # e
    <3>1. CASE Step(p, "offer") /\ UNCHANGED pending
      <4>1. ipc'[Loop] = "offer"
        BY <1>0, <1>4, <3>1 DEF Step
      <4>2. i # 1
        BY <2>3, <4>1 DEF Handled
      <4> QED
        BY <2>2, <3>1, <4>2
    <3>2. CASE Return(p)
      <4>1. pending # <<>> /\ pending' = Tail(pending)
        BY <1>4, <3>2 DEF Return, Typed, LoopInserts, Working
      <4>2. i + 1 \in DOMAIN pending /\ i + 1 # 1 /\ pending'[i] = pending[i + 1]
        BY <1>0, <4>1
      <4> QED
        BY <2>2, <4>2
    <3> QED
      BY <3>1, <3>2
  <2> QED
    BY <2>1, <2>3 DEF InHand
<1> QED
  BY <1>1, <1>3, <1>4

\* bucket.add moves the entry from its inserter into the bucket.
LEMMA LinkPlace ==
    ASSUME Typed, Typed', OnePlace, Unfired, NEW p \in Procs, Link(p)
    PROVE  OnePlace' /\ Unfired'
<1>1. /\ ipc[p] = "link" /\ UNCHANGED fired
      /\ (Step(p, "offer") /\ UNCHANGED pending) \/ Return(p)
      /\ list' = [list EXCEPT ![Target(p)] = Append(@, Ent(p))]
  BY DEF Link
<1>2. PICK e \in Ents : e = Ent(p)
  BY <1>1, InserterHas DEF Working
<1>3. PICK b \in Buckets : b = Target(p)
  BY <1>1, Aims
<1>4. list \in [Buckets -> Seq(Ents)] /\ pending' \in Seq(Ents)
  BY DEF Typed, TypeOK
<1>5. ~Linked(e) /\ fired[e] = 0
  BY <1>1, <1>2, InserterHas DEF Working, OnePlace, Unfired
<1>6. Fewer /\ ~AtHome(e)' /\ ~InHand(e)'
  BY <1>1, <1>2, LetGo, InserterFewer DEF Working
<1>7. \A f \in Ents : (AtHome(f)' => AtHome(f)) /\ (InHand(f)' => InHand(f))
  BY <1>4, <1>6, FewerInHand DEF Fewer
<1>8. list' = [list EXCEPT ![b] = Append(list[b], e)]
  BY <1>1, <1>2, <1>3, <1>4
<1>9. /\ \A c \in Buckets : c # b => list'[c] = list[c]
      /\ DOMAIN list'[b] = 1 .. Len(list[b]) + 1 /\ DOMAIN list[b] = 1 .. Len(list[b])
      /\ \A i \in DOMAIN list[b] : list'[b][i] = list[b][i]
      /\ list'[b][Len(list[b]) + 1] = e /\ Len(list[b]) \in Nat
  BY <1>4, <1>8
<1>10. ASSUME NEW c \in Buckets, NEW i \in DOMAIN list'[c]
       PROVE  \/ i \in DOMAIN list[c] /\ list'[c][i] = list[c][i] /\ list[c][i] # e
              \/ c = b /\ i = Len(list[b]) + 1 /\ list'[c][i] = e
  <2>1. CASE c # b
    BY <1>5, <1>9, <2>1 DEF Linked
  <2>2. CASE c = b
    <3>1. i \in DOMAIN list[b] \/ i = Len(list[b]) + 1
      BY <1>9, <2>2
    <3> QED
      BY <1>5, <1>9, <2>2, <3>1 DEF Linked
  <2> QED
    BY <2>1, <2>2
<1>11. \A f \in Ents : Linked(f)' => Linked(f) \/ f = e
  BY <1>10 DEF Linked
<1>12. ASSUME NEW c \in Buckets, NEW d \in Buckets, NEW i \in DOMAIN list'[c],
              NEW j \in DOMAIN list'[d], list'[c][i] = list'[d][j]
       PROVE  c = d /\ i = j
  BY <1>10, <1>12 DEF OnePlace
<1>13. \A i, j \in DOMAIN pending' :
          Handled(i)' /\ Handled(j)' /\ pending'[i] = pending'[j] => i = j
  BY <1>4, <1>6, FewerInHand
<1>14. OnePlace'
  BY <1>6, <1>7, <1>11, <1>12, <1>13 DEF OnePlace
<1>15. Unfired'
  BY <1>1, <1>5, <1>7, <1>11 DEF Unfired
<1> QED
  BY <1>14, <1>15

\* go e.callback() takes the entry out of its last place.
LEMMA LaunchPlace ==
    ASSUME Typed, Typed', OnePlace, Unfired, NEW p \in Procs, Launch(p)
    PROVE  OnePlace' /\ Unfired'
<1>1. /\ ipc[p] = "launch" /\ Return(p) /\ UNCHANGED list
      /\ fired' = [fired EXCEPT ![Ent(p)] = @ + 1]
  BY DEF Launch, buckets
<1>2. PICK e \in Ents : e = Ent(p)
  BY <1>1, InserterHas DEF Working
<1>3. Fewer /\ ~AtHome(e)' /\ ~InHand(e)'
  BY <1>1, <1>2, LetGo, InserterFewer DEF Working
<1>4. ~Linked(e)' /\ fired[e] = 0
  <2>1. ~Linked(e) /\ fired[e] = 0
    BY <1>1, <1>2, InserterHas DEF Working, OnePlace, Unfired
  <2> QED
    BY <1>1, <2>1 DEF Linked
<1>5. OnePlace' /\ \A f \in Ents : AtHome(f)' \/ Linked(f)' \/ InHand(f)'
                                   => AtHome(f) \/ Linked(f) \/ InHand(f)
  BY <1>1, <1>3, FewerOnePlace DEF Typed, TypeOK
<1>6. fired'[e] = 1 /\ \A f \in Ents \ {e} : fired'[f] = fired[f]
  BY <1>1, <1>2, <1>4 DEF Typed, TypeOK
<1>7. Unfired'
  BY <1>3, <1>4, <1>5, <1>6 DEF Unfired
<1> QED
  BY <1>5, <1>7

\* bucket.flush hands the entries of a bucket to tickLoop, which has none left.
LEMMA FlushPlace ==
    ASSUME Typed, Typed', OnePlace, Unfired, Flush
    PROVE  OnePlace' /\ Unfired'
<1>1. /\ tpc = "flush" /\ pending' = list[tb] /\ list' = [list EXCEPT ![tb] = <<>>]
      /\ UNCHANGED <<ipc, fired>> /\ tb \in Buckets /\ list \in [Buckets -> Seq(Ents)]
  BY DEF Flush, Detach, Typed, TypeOK
<1>2. \A c \in Buckets : c # tb => list'[c] = list[c]
  BY <1>1
<1>3. DOMAIN list'[tb] = {}
  BY <1>1
<1>4. \A f \in Ents : AtHome(f)' <=> AtHome(f)
  BY <1>1 DEF AtHome
<1>5. \A f \in Ents : InHand(f)' => Linked(f)
  BY <1>1 DEF InHand, Linked
<1>6. \A f \in Ents : Linked(f)' => Linked(f) /\ ~InHand(f)'
  BY <1>1, <1>2, <1>3 DEF Linked, InHand, OnePlace
<1>7. \A i, j \in DOMAIN pending' : pending'[i] = pending'[j] => i = j
  BY <1>1 DEF OnePlace
<1>8. \A c, d \in Buckets : \A i \in DOMAIN list'[c], j \in DOMAIN list'[d] :
          list'[c][i] = list'[d][j] => c = d /\ i = j
  BY <1>2, <1>3 DEF OnePlace
<1>9. OnePlace'
  BY <1>4, <1>5, <1>6, <1>7, <1>8 DEF OnePlace
<1>10. Unfired'
  BY <1>1, <1>4, <1>5, <1>6 DEF Unfired
<1> QED
  BY <1>9, <1>10

\* What inserts and what does not: OnePlace and Unfired are inductive.
LEMMA PlaceStep ==
    ASSUME Typed, Typed', OnePlace, Unfired, [Next]_vars
    PROVE  OnePlace' /\ Unfired'
<1>0. /\ ipc \in [Procs -> InsertPC] /\ pending' \in Seq(Ents)
      /\ Loop \in Procs /\ Ents \subseteq Procs /\ Loop \notin Ents
  BY LevelFacts DEF Typed, TypeOK
<1>1. CASE /\ UNCHANGED <<pending, list, fired>>
           /\ \A e \in Ents : AtHome(e)' => AtHome(e)
           /\ ipc'[Loop] = ipc[Loop] \/ ipc[Loop] = "idle"
  <2>1. DOMAIN pending \subseteq Nat
    BY <1>0, <1>1
  <2>2. \A i \in DOMAIN pending' : Handled(i)' => /\ i + 0 \in DOMAIN pending /\ Handled(i + 0)
                                                  /\ pending'[i] = pending[i + 0]
    BY <1>1, <2>1 DEF Handled
  <2>3. Fewer
    BY <1>1, <2>2 DEF Fewer
  <2> QED
    BY <1>0, <1>1, <2>3, FewerPlaces
<1>2. CASE UNCHANGED <<ipc, pending, list, fired>>
  BY <1>1, <1>2 DEF AtHome
<1>3. ASSUME NEW e \in Ents, ScheduleCall(e) \/ Register(e) PROVE OnePlace' /\ Unfired'
  <2>1. /\ UNCHANGED <<pending, list, fired>> /\ AtHome(e)
        /\ \A q \in Procs \ {e} : ipc'[q] = ipc[q]
    BY <1>0, <1>3 DEF ScheduleCall, Register, AtHome, buckets
  <2> QED
    BY <1>0, <1>1, <2>1 DEF AtHome
<1>4. CASE Drain
  <2>1. /\ UNCHANGED <<pending, list, fired>> /\ ipc[Loop] = "idle"
        /\ \A q \in Ents : ipc'[q] = ipc[q]
    BY <1>0, <1>4 DEF Drain, Step, buckets
  <2> QED
    BY <1>1, <2>1 DEF AtHome
<1>5. ASSUME NEW p \in Procs, Insert(p) PROVE OnePlace' /\ Unfired'
  <2>1. CASE Add(p) \/ Escalate(p) \/ Offer(p) \/ Wake(p) \/ Due(p)
    <3>1. UNCHANGED <<list, fired>>
      BY <2>1 DEF Add, Escalate, Offer, Wake, Due, buckets
    <3>2. /\ ipc[p] \in Working \union {"offer", "wake"}
          /\ \/ \E pc \in Working \union {"offer", "wake"} :
                   /\ Step(p, pc) /\ UNCHANGED pending
                   /\ pc \in Working => ipc[p] \in Working
             \/ Return(p)
      BY <2>1 DEF Add, Escalate, Offer, Wake, Due, Working
    <3> QED
      BY <1>0, <3>1, <3>2, InserterFewer, FewerPlaces
  <2> QED
    BY <1>5, <2>1, LinkPlace, LaunchPlace DEF Insert
<1>6. CASE UNCHANGED vars
  BY <1>2, <1>6 DEF vars, buckets
<1>7. CASE TickLoop
  BY <1>2, <1>4, <1>7, FlushPlace
     DEF TickLoop, Poll, Awake, LoadExpiration, AdvanceClock, buckets
<1>8. CASE Time \/ Stop \/ \E i \in Ids : CancelTake(i) \/ CancelMark(i)
  BY <1>2, <1>8 DEF Time, Stop, CancelTake, CancelMark, buckets
<1> QED
  BY <1>3, <1>5, <1>6, <1>7, <1>8 DEF Next

\* In the new wheel every entry is at home.
LEMMA InitPlace == Init => OnePlace /\ Unfired
<1> SUFFICES ASSUME Init PROVE OnePlace /\ Unfired
  OBVIOUS
<1>1. DOMAIN pending = {} /\ \A b \in Buckets : DOMAIN list[b] = {}
  BY DEF Init
<1>2. \A e \in Ents : ~Linked(e) /\ ~InHand(e) /\ fired[e] = 0
  BY <1>1 DEF Init, Linked, InHand
<1> QED
  BY <1>1, <1>2 DEF OnePlace, Unfired

\* FiresOnce for every wheel: an entry is with its Schedule call, in one
\* bucket or with tickLoop, so whatever the interleaving of insert, flush and
\* offer its callback is launched at most once.
THEOREM LaunchedOnce == Spec => []FiresOnce
<1>1. (Typed /\ OnePlace /\ Unfired) /\ [Next]_vars => (Typed /\ OnePlace /\ Unfired)'
  BY TypedStep, PlaceStep
<1>2. Unfired => FiresOnce
  BY DEF Unfired, FiresOnce
<1> QED
  BY InitTyped, InitPlace, <1>1, <1>2, PTL DEF Spec

-----------------------------------------------------------------------------
(* A live entry can be cancelled *)

\* e has been registered.
Registered(e) == ipc[e] \notin {"new", "register"}

\* The index and the Cancel calls hold registered entries, each under its own
\* id, and never the same one.
IndexRight ==
    /\ \A e \in Ents : cancelled[e] => Registered(e)
    /\ \A i \in Ids : entries[i] # Nil => TaskOf[entries[i]] = i /\ Registered(entries[i])
    /\ \A i \in Ids : holds[i] # Nil => /\ TaskOf[holds[i]] = i /\ Registered(holds[i])
                                        /\ entries[i] # holds[i]

\* p decides the launch of its entry.
Decides(p) == Due(p) /\ ~cancelled[Ent(p)]

\* insert starts after Register.
LEMMA InsertMoves ==
    ASSUME NEW p \in Procs, Insert(p)
    PROVE  /\ ipc[p] \notin {"new", "register"}
           /\ \E pc \in InsertPC \ {"new", "register"} : Step(p, pc)
  BY DEF Insert, Add, Escalate, Link, Offer, Wake, Due, Launch, Return, InsertPC

\* Only Register registers an entry.
LEMMA Registration ==
    ASSUME Typed, Next, NEW e \in Ents
    PROVE  /\ Registered(e) => Registered(e)'
           /\ Registered(e)' => Registered(e) \/ Register(e)
<1>0. ipc \in [Procs -> InsertPC] /\ Ents \subseteq Procs /\ Loop \in Procs /\ Loop \notin Ents
  BY LevelFacts DEF Typed, TypeOK
<1>1. CASE UNCHANGED ipc
  BY <1>1 DEF Registered
<1>2. ASSUME NEW f \in Ents, ScheduleCall(f) \/ Register(f)
      PROVE  /\ Registered(e) => Registered(e)'
             /\ Registered(e)' => Registered(e) \/ Register(e)
  <2>1. CASE f = e
    BY <1>0, <1>2, <2>1 DEF ScheduleCall, Register, Registered
  <2>2. CASE f # e
    BY <1>0, <1>2, <2>2 DEF ScheduleCall, Register, Registered
  <2> QED
    BY <2>1, <2>2
<1>3. CASE Drain
  BY <1>0, <1>3 DEF Drain, Step, Registered
<1>4. ASSUME NEW p \in Procs, Insert(p) PROVE Registered(e)' <=> Registered(e)
  <2>1. /\ ipc[p] \notin {"new", "register"}
        /\ \E pc \in InsertPC \ {"new", "register"} : Step(p, pc)
    BY <1>4, InsertMoves
  <2> QED
    BY <1>0, <2>1 DEF Step, Registered
<1>5. CASE Time \/ Stop \/ \E i \in Ids : CancelTake(i) \/ CancelMark(i)
  BY <1>1, <1>5 DEF Time, Stop, CancelTake, CancelMark
<1>6. CASE TickLoop
  BY <1>1, <1>3, <1>6 DEF TickLoop, Poll, Awake, LoadExpiration, AdvanceClock, Flush
<1> QED
  BY <1>2, <1>4, <1>5, <1>6 DEF Next

\* A step that moves nobody to or from the launch, and nobody's entry there.
LEMMA NotDecided ==
    ASSUME UNCHANGED fired, NEW e \in Ents,
           \A q \in Procs : (ipc'[q] = "launch") <=> (ipc[q] = "launch"),
           \A q \in Procs : ipc[q] = "launch" => Ent(q)' = Ent(q)
    PROVE  Decided(e)' <=> Decided(e)
  BY DEF Decided

\* A launch is decided by Due, and carried out.
LEMMA Decisions ==
    ASSUME Typed, Next, NEW e \in Ents
    PROVE  /\ Decided(e) => Decided(e)'
           /\ Decided(e)' => Decided(e) \/ \E p \in Procs : Decides(p) /\ Ent(p) = e
<1>0. /\ ipc \in [Procs -> InsertPC] /\ Ents \subseteq Procs /\ Loop \in Procs /\ Loop \notin Ents
      /\ fired \in [Ents -> Nat]
  BY LevelFacts DEF Typed, TypeOK
<1>1. CASE UNCHANGED <<ipc, fired, pending>>
  BY <1>1, NotDecided DEF Ent
<1>2. ASSUME NEW f \in Ents, ScheduleCall(f) \/ Register(f) PROVE Decided(e)' <=> Decided(e)
  <2>1. /\ UNCHANGED <<fired, pending>>
        /\ \A q \in Procs : (ipc'[q] = "launch") <=> (ipc[q] = "launch")
    BY <1>0, <1>2 DEF ScheduleCall, Register
  <2> QED
    BY <2>1, NotDecided DEF Ent
<1>3. CASE Drain
  <2>1. /\ UNCHANGED <<fired, pending>>
        /\ \A q \in Procs : (ipc'[q] = "launch") <=> (ipc[q] = "launch")
    BY <1>0, <1>3 DEF Drain, Step
  <2> QED
    BY <2>1, NotDecided DEF Ent
<1>4. CASE Flush
  <2>1. UNCHANGED <<fired, ipc>> /\ ipc[Loop] = "idle"
    BY <1>4 DEF Flush, Typed, LoopInserts
  <2>2. \A q \in Procs : ipc[q] = "launch" => Ent(q)' = Ent(q)
    BY <2>1 DEF Ent
  <2> QED
    BY <2>1, <2>2, NotDecided
<1>5. ASSUME NEW p \in Procs, Insert(p), ~Decides(p), ~Launch(p) PROVE Decided(e)' <=> Decided(e)
  <2>1. /\ UNCHANGED fired /\ ipc[p] # "launch"
        /\ \E pc \in InsertPC \ {"launch"} : Step(p, pc)
        /\ p # Loop => UNCHANGED pending
    BY <1>5 DEF Insert, Add, Escalate, Link, Offer, Wake, Due, Decides, Return, InsertPC
  <2>2. \A q \in Procs : (ipc'[q] = "launch") <=> (ipc[q] = "launch")
    BY <1>0, <2>1 DEF Step
  <2>3. \A q \in Procs : ipc[q] = "launch" => Ent(q)' = Ent(q)
    BY <2>1 DEF Ent
  <2> QED
    BY <2>1, <2>2, <2>3, NotDecided
<1>6. ASSUME NEW p \in Procs, Decides(p)
      PROVE  /\ Decided(e) => Decided(e)'
             /\ Decided(e)' => Decided(e) \/ Ent(p) = e
  <2>1. /\ UNCHANGED <<fired, pending>> /\ Step(p, "launch")
    BY <1>6 DEF Decides, Due
  <2>2. \A q \in Procs : Ent(q)' = Ent(q)
    BY <2>1 DEF Ent
  <2>3. \A q \in Procs : (ipc'[q] = "launch") <=> (ipc[q] = "launch" \/ q = p)
    BY <1>0, <2>1 DEF Step
  <2> QED
    BY <2>1, <2>2, <2>3 DEF Decided
<1>7. ASSUME NEW p \in Procs, Launch(p) PROVE Decided(e)' <=> Decided(e)
  <2>1. /\ ipc[p] = "launch" /\ Step(p, "idle") /\ Ent(p) \in Ents
        /\ fired' = [fired EXCEPT ![Ent(p)] = @ + 1]
        /\ p # Loop => UNCHANGED pending
    BY <1>7, InserterHas DEF Launch, Return, Working
  <2>2. CASE Ent(p) = e
    <3>1. fired'[e] > 0
      BY <1>0, <2>1, <2>2
    <3> QED
      BY <2>1, <2>2, <3>1 DEF Decided
  <2>3. CASE Ent(p) # e
    <3>1. fired'[e] = fired[e]
      BY <1>0, <2>1, <2>3
    <3>2. \A q \in Procs \ {p} : ipc'[q] = ipc[q] /\ (ipc[q] = "launch" => Ent(q)' = Ent(q))
      BY <1>0, <2>1 DEF Step, Ent
    <3>3. ipc'[p] # "launch"
      BY <1>0, <2>1 DEF Step
    <3> QED
      BY <2>3, <3>1, <3>2, <3>3 DEF Decided
  <2> QED
    BY <2>2, <2>3
<1>8. CASE Time \/ Stop \/ \E i \in Ids : CancelTake(i) \/ CancelMark(i)
  BY <1>1, <1>8 DEF Time, Stop, CancelTake, CancelMark
<1>9. CASE TickLoop
  BY <1>1, <1>3, <1>4, <1>9 DEF TickLoop, Poll, Awake, LoadExpiration, AdvanceClock
<1> QED
  BY <1>2, <1>5, <1>6, <1>7, <1>8, <1>9 DEF Next

\* The index and the flags are changed by Register, Cancel and removeFromIndex.
LEMMA IndexChanges ==
    ASSUME Next
    PROVE  \/ UNCHANGED <<entries, cancelled, holds>>
           \/ \E e \in Ents : Register(e)
           \/ \E i \in Ids : CancelTake(i) \/ CancelMark(i)
           \/ \E p \in Procs : Launch(p) /\ UNCHANGED <<cancelled, holds>>
<1>1. CASE TickLoop
  BY <1>1 DEF TickLoop, Poll, Awake, LoadExpiration, AdvanceClock, Flush, Drain
<1>2. ASSUME NEW p \in Procs, Insert(p)
      PROVE  UNCHANGED <<entries, cancelled, holds>> \/ (Launch(p) /\ UNCHANGED <<cancelled, holds>>)
  BY <1>2 DEF Insert, Add, Escalate, Link, Offer, Wake, Due, Launch
<1> QED
  BY <1>1, <1>2 DEF Next, Time, Stop, ScheduleCall

\* A flag, once set, stays set.
LEMMA CancelledStays ==
    ASSUME Typed, Next, NEW e \in Ents, cancelled[e]
    PROVE  cancelled'[e]
<1>1. ASSUME NEW f \in Ents, Register(f) PROVE cancelled'[e]
  BY <1>1 DEF Register, Replace
<1>2. ASSUME NEW i \in Ids, CancelTake(i) \/ CancelMark(i) PROVE cancelled'[e]
  BY <1>2 DEF CancelTake, CancelMark, Typed, TypeOK
<1> QED
  BY <1>1, <1>2, IndexChanges

\* IndexRight is inductive.
LEMMA IndexStep ==
    ASSUME Typed, IndexRight, Next
    PROVE  IndexRight'
<1>0. /\ entries \in [Ids -> Ents \union {Nil}] /\ holds \in [Ids -> Ents \union {Nil}]
      /\ cancelled \in [Ents -> BOOLEAN] /\ Nil \notin Ents
      /\ \A f \in Ents : TaskOf[f] \in Ids
  BY WheelAssumption DEF Typed, TypeOK
<1>1. \A f \in Ents : Registered(f) => Registered(f)'
  BY Registration
<1>2. CASE UNCHANGED <<entries, cancelled, holds>>
  BY <1>0, <1>1, <1>2 DEF IndexRight, Registered
<1>3. ASSUME NEW e \in Ents, Register(e) PROVE IndexRight'
  <2>1. /\ entries' = [entries EXCEPT ![TaskOf[e]] = e] /\ UNCHANGED holds
        /\ cancelled' = [f \in Ents |-> cancelled[f] \/ entries[TaskOf[e]] = f]
        /\ ~Registered(e) /\ Registered(e)'
    BY <1>3, LevelFacts DEF Register, Replace, Registered, Typed, TypeOK
  <2>2. \A f \in Ents : cancelled'[f] => Registered(f)'
    BY <1>0, <1>1, <2>1 DEF IndexRight, Registered
  <2>3. \A i \in Ids : entries'[i] = IF i = TaskOf[e] THEN e ELSE entries[i]
    BY <1>0, <2>1
  <2> QED
    BY <1>0, <1>1, <2>1, <2>2, <2>3 DEF IndexRight, Registered
<1>4. ASSUME NEW i \in Ids, CancelTake(i) PROVE IndexRight'
  <2>1. /\ entries[i] # Nil /\ holds[i] = Nil /\ UNCHANGED cancelled
        /\ \A j \in Ids : holds'[j] = IF j = i THEN entries[i] ELSE holds[j]
        /\ \A j \in Ids : entries'[j] = IF j = i THEN Nil ELSE entries[j]
    BY <1>0, <1>4 DEF CancelTake
  <2> QED
    BY <1>0, <1>1, <2>1 DEF IndexRight, Registered
<1>5. ASSUME NEW i \in Ids, CancelMark(i) PROVE IndexRight'
  <2>1. /\ holds[i] # Nil /\ UNCHANGED entries
        /\ \A j \in Ids : holds'[j] = IF j = i THEN Nil ELSE holds[j]
        /\ \A f \in Ents : cancelled'[f] <=> cancelled[f] \/ f = holds[i]
    BY <1>0, <1>5 DEF CancelMark
  <2> QED
    BY <1>0, <1>1, <2>1 DEF IndexRight, Registered
<1>6. ASSUME NEW p \in Procs, Launch(p), UNCHANGED <<cancelled, holds>> PROVE IndexRight'
  <2>1. \A i \in Ids : entries'[i] \in {Nil, entries[i]}
    BY <1>6 DEF Launch, RemoveFromIndex
  <2> QED
    BY <1>0, <1>1, <1>6, <2>1 DEF IndexRight, Registered
<1> QED
  BY <1>2, <1>3, <1>4, <1>5, <1>6, IndexChanges

\* Reachable is inductive: an entry leaves the index when its launch is
\* decided, when it is replaced and so cancelled, or into a Cancel call.
LEMMA ReachableStep ==
    ASSUME Typed, Reachable, Next
    PROVE  Reachable'
<1> SUFFICES ASSUME NEW e \in Ents, Live(e)'
             PROVE  entries'[TaskOf[e]] = e \/ holds'[TaskOf[e]] = e
  BY DEF Reachable
<1>0. /\ entries \in [Ids -> Ents \union {Nil}] /\ holds \in [Ids -> Ents \union {Nil}]
      /\ cancelled \in [Ents -> BOOLEAN] /\ Nil \notin Ents
      /\ \A f \in Ents : TaskOf[f] \in Ids
  BY WheelAssumption DEF Typed, TypeOK
<1>1. Registered(e)' /\ ~cancelled'[e] /\ ~Decided(e)'
  BY DEF Live, Registered
<1>2. CASE Register(e)
  BY <1>0, <1>2 DEF Register
<1>3. CASE ~Register(e)
  <2>1. Registered(e) /\ ~cancelled[e] /\ ~Decided(e)
    BY <1>1, <1>3, Registration, CancelledStays, Decisions
  <2>2. entries[TaskOf[e]] = e \/ holds[TaskOf[e]] = e
    BY <2>1 DEF Reachable, Live, Registered
  <2>3. ASSUME NEW f \in Ents, Register(f)
        PROVE  entries'[TaskOf[e]] = e \/ holds'[TaskOf[e]] = e
    <3>1. /\ entries' = [entries EXCEPT ![TaskOf[f]] = f] /\ UNCHANGED holds
          /\ cancelled' = [g \in Ents |-> cancelled[g] \/ entries[TaskOf[f]] = g]
      BY <2>3 DEF Register, Replace
    <3>2. entries[TaskOf[f]] # e
      BY <1>1, <3>1
    <3> QED
      BY <1>0, <2>2, <3>1, <3>2
  <2>4. ASSUME NEW i \in Ids, CancelTake(i)
        PROVE  entries'[TaskOf[e]] = e \/ holds'[TaskOf[e]] = e
    BY <1>0, <2>2, <2>4 DEF CancelTake
  <2>5. ASSUME NEW i \in Ids, CancelMark(i)
        PROVE  entries'[TaskOf[e]] = e \/ holds'[TaskOf[e]] = e
    <3>1. holds[i] # e
      BY <1>0, <1>1, <2>5 DEF CancelMark
    <3> QED
      BY <1>0, <2>2, <2>5, <3>1 DEF CancelMark
  <2>6. ASSUME NEW p \in Procs, Launch(p), UNCHANGED <<cancelled, holds>>
        PROVE  entries'[TaskOf[e]] = e \/ holds'[TaskOf[e]] = e
    <3>1. Ent(p) # e
      BY <2>1, <2>6 DEF Launch, Decided
    <3> QED
      BY <1>0, <2>2, <2>6, <3>1 DEF Launch, RemoveFromIndex
  <2> QED
    BY <2>2, <2>3, <2>4, <2>5, <2>6, IndexChanges
<1> QED
  BY <1>2, <1>3

\* The invariant of the wheel's contract.
ContractInv == Typed /\ OnePlace /\ Unfired /\ IndexRight /\ Reachable

\* The new wheel.
LEMMA InitContract == Init => ContractInv
<1> SUFFICES ASSUME Init PROVE ContractInv
  OBVIOUS
<1>1. OnePlace /\ Unfired
  BY InitPlace
<1>2. \A e \in Ents : ipc[e] = "new" /\ ~cancelled[e]
  BY LevelFacts DEF Init
<1>3. IndexRight /\ Reachable
  BY <1>2 DEF Init, IndexRight, Reachable, Live
<1> QED
  BY InitTyped, <1>1, <1>3 DEF ContractInv

\* ContractInv is inductive.
LEMMA ContractStep == ContractInv /\ [Next]_vars => ContractInv'
<1> SUFFICES ASSUME ContractInv, [Next]_vars PROVE ContractInv'
  OBVIOUS
<1>1. Typed' /\ OnePlace' /\ Unfired'
  BY TypedStep, PlaceStep DEF ContractInv
<1>2. CASE Next
  BY <1>1, <1>2, IndexStep, ReachableStep DEF ContractInv
<1>3. CASE UNCHANGED vars
  BY <1>1, <1>3 DEF vars, ContractInv, IndexRight, Registered, Reachable, Live, Decided, Ent
<1> QED
  BY <1>2, <1>3

\* Reachable for every wheel: an entry that is registered, not cancelled and
\* not about to be launched is the one Cancel finds under its id, or a Cancel
\* call has taken it, however Schedule, Cancel and removeFromIndex interleave.
THEOREM LiveIsCancellable == Spec => []Reachable
<1>1. ContractInv => Reachable
  BY DEF ContractInv
<1> QED
  BY InitContract, ContractStep, <1>1, PTL DEF Spec

-----------------------------------------------------------------------------
(* The refinement *)

\* What the callers see of an entry, case by case.
LEMMA Seen ==
    ASSUME NEW e \in Ents
    PROVE  /\ ~Registered(e) => Resolution[e] = "new"
           /\ Registered(e) /\ Decided(e) => Resolution[e] = "fired"
           /\ Registered(e) /\ ~Decided(e) /\ cancelled[e] => Resolution[e] = "cancelled"
           /\ Registered(e) /\ ~Decided(e) /\ ~cancelled[e] /\ holds[TaskOf[e]] = e
                 => Resolution[e] = "doomed"
           /\ Registered(e) /\ ~Decided(e) /\ ~cancelled[e] /\ holds[TaskOf[e]] # e
                 => Resolution[e] = "armed"
  BY DEF Resolution, Registered

\* The same after the step.
LEMMA SeenNext ==
    ASSUME NEW e \in Ents
    PROVE  /\ ~Registered(e)' => Resolution'[e] = "new"
           /\ Registered(e)' /\ Decided(e)' => Resolution'[e] = "fired"
           /\ Registered(e)' /\ ~Decided(e)' /\ cancelled'[e] => Resolution'[e] = "cancelled"
           /\ Registered(e)' /\ ~Decided(e)' /\ ~cancelled'[e] /\ holds'[TaskOf[e]] = e
                 => Resolution'[e] = "doomed"
           /\ Registered(e)' /\ ~Decided(e)' /\ ~cancelled'[e] /\ holds'[TaskOf[e]] # e
                 => Resolution'[e] = "armed"
  BY DEF Resolution, Registered

\* An entry the step does not touch looks the same.
LEMMA SeenSame ==
    ASSUME NEW e \in Ents, Registered(e)' <=> Registered(e), Decided(e)' <=> Decided(e),
           cancelled'[e] <=> cancelled[e],
           (holds'[TaskOf[e]] = e) <=> (holds[TaskOf[e]] = e)
    PROVE  Resolution'[e] = Resolution[e]
  BY Seen, SeenNext

\* Resolution is a function, and so determined by its values.
LEMMA SeenAll ==
    /\ Resolution = [e \in Ents |-> Resolution[e]]
    /\ Resolution' = [e \in Ents |-> Resolution'[e]]
  BY DEF Resolution

\* A step that changes one entry only.
LEMMA SeenOne ==
    ASSUME NEW e \in Ents, \A f \in Ents \ {e} : Resolution'[f] = Resolution[f]
    PROVE  Resolution' = [Resolution EXCEPT ![e] = Resolution'[e]]
  BY SeenAll

\* Schedule's critical section arms e and cancels the entry armed before it:
\* that one is in the index, by Reachable, and no Cancel call has it.
LEMMA RegisterArms ==
    ASSUME ContractInv, Next, NEW e \in Ents, Register(e)
    PROVE  Contract!Schedule(e)
<1>0. /\ entries \in [Ids -> Ents \union {Nil}] /\ cancelled \in [Ents -> BOOLEAN]
      /\ Nil \notin Ents /\ Typed /\ \A f \in Ents : TaskOf[f] \in Ids
  BY WheelAssumption DEF ContractInv, Typed, TypeOK
<1>1. /\ \A f \in Ents : cancelled'[f] <=> cancelled[f] \/ entries[TaskOf[e]] = f
      /\ UNCHANGED holds /\ ~Registered(e) /\ Registered(e)' /\ AtHome(e) /\ ipc[e] # "launch"
  BY <1>0, LevelFacts DEF Register, Replace, Registered, AtHome, Typed, TypeOK
<1>2. \A f \in Ents : Decided(f)' <=> Decided(f)
  <2>1. \A p \in Procs : ~Decides(p)
    <3> SUFFICES ASSUME NEW p \in Procs, Decides(p) PROVE FALSE
      OBVIOUS
    <3>1. ipc[p] = "due" /\ Step(p, "launch")
      BY DEF Decides, Due
    <3> QED
      BY <1>0, <3>1, LevelFacts DEF Register, Step, Typed, TypeOK
  <2> QED
    BY <1>0, <2>1, Decisions
<1>3. \A f \in Ents \ {e} : Registered(f)' <=> Registered(f)
  BY <1>0, LevelFacts DEF Register, Registered, Typed, TypeOK
<1>4. ~Decided(e)
  <2>1. ~InHand(e) /\ fired[e] = 0
    BY <1>1 DEF ContractInv, OnePlace, Unfired
  <2> QED
    BY <1>0, <1>1, <2>1, InserterHas DEF Decided, Working
<1>5. Resolution[e] = "new"
  BY <1>1, Seen
<1>6. Resolution'[e] = "armed"
  <2>1. ~cancelled[e] /\ entries[TaskOf[e]] # e /\ holds[TaskOf[e]] # e
    BY <1>0, <1>1 DEF ContractInv, IndexRight
  <2> QED
    BY <1>1, <1>2, <1>4, <2>1, SeenNext
<1>7. ASSUME NEW f \in Ents \ {e}, TaskOf[f] = TaskOf[e], Resolution[f] = "armed"
      PROVE  Resolution'[f] = "cancelled"
  <2>1. Registered(f) /\ ~Decided(f) /\ ~cancelled[f] /\ holds[TaskOf[f]] # f
    BY <1>7, Seen
  <2>2. entries[TaskOf[f]] = f
    BY <2>1 DEF ContractInv, Reachable, Live, Registered
  <2> QED
    BY <1>1, <1>2, <1>3, <1>7, <2>1, <2>2, SeenNext
<1>8. ASSUME NEW f \in Ents \ {e}, ~(TaskOf[f] = TaskOf[e] /\ Resolution[f] = "armed")
      PROVE  Resolution'[f] = Resolution[f]
  <2>1. CASE entries[TaskOf[e]] = f
    <3>1. TaskOf[f] = TaskOf[e] /\ Registered(f) /\ holds[TaskOf[f]] # f
      BY <1>0, <2>1 DEF ContractInv, IndexRight
    <3>2. Decided(f) \/ cancelled[f]
      BY <1>8, <3>1, Seen
    <3> QED
      BY <1>1, <1>2, <1>3, <3>1, <3>2, Seen, SeenNext
  <2>2. CASE entries[TaskOf[e]] # f
    BY <1>1, <1>2, <1>3, <2>2, SeenSame
  <2> QED
    BY <2>1, <2>2
<1>9. Resolution' = [f \in Ents |-> IF f = e THEN "armed"
                        ELSE IF f # e /\ TaskOf[f] = TaskOf[e] /\ Resolution[f] = "armed"
                             THEN "cancelled" ELSE Resolution[f]]
  BY <1>6, <1>7, <1>8, SeenAll
<1> QED
  BY <1>5, <1>9 DEF Contract!Schedule, Contract!Armed

\* Steps that register nothing and decide nothing.
LEMMA OnlyFlags ==
    ASSUME Typed, Next, NEW i \in Ids, CancelTake(i) \/ CancelMark(i), NEW f \in Ents
    PROVE  (Registered(f)' <=> Registered(f)) /\ (Decided(f)' <=> Decided(f))
  BY DEF CancelTake, CancelMark, Registered, Decided, Ent

\* Cancel takes the entry from the index: it is armed, or already resolved.
LEMMA CancelTakes ==
    ASSUME ContractInv, Next, NEW i \in Ids, CancelTake(i)
    PROVE  (\E e \in Ents : Contract!CancelBegin(e)) \/ UNCHANGED Resolution
<1>0. /\ entries \in [Ids -> Ents \union {Nil}] /\ holds \in [Ids -> Ents \union {Nil}]
      /\ Nil \notin Ents /\ Typed /\ \A f \in Ents : TaskOf[f] \in Ids
  BY WheelAssumption DEF ContractInv, Typed, TypeOK
<1>1. /\ entries[i] # Nil /\ holds[i] = Nil /\ UNCHANGED cancelled
      /\ holds' = [holds EXCEPT ![i] = entries[i]]
  BY DEF CancelTake
<1>2. PICK e \in Ents : e = entries[i]
  BY <1>0, <1>1
<1>3. TaskOf[e] = i /\ Registered(e) /\ holds[i] # e /\ holds'[i] = e
  BY <1>0, <1>1, <1>2 DEF ContractInv, IndexRight
<1>4. \A f \in Ents : (Registered(f)' <=> Registered(f)) /\ (Decided(f)' <=> Decided(f))
  BY <1>0, OnlyFlags
<1>5. ASSUME NEW f \in Ents \ {e} PROVE Resolution'[f] = Resolution[f]
  <2>1. (holds'[TaskOf[f]] = f) <=> (holds[TaskOf[f]] = f)
    BY <1>0, <1>1, <1>2
  <2> QED
    BY <1>1, <1>4, <2>1, SeenSame
<1>6. CASE Decided(e) \/ cancelled[e]
  <2>1. Resolution'[e] = Resolution[e]
    BY <1>1, <1>3, <1>4, <1>6, Seen, SeenNext
  <2> QED
    BY <1>5, <2>1, SeenAll
<1>7. CASE ~Decided(e) /\ ~cancelled[e]
  <2>1. Resolution[e] = "armed" /\ Resolution'[e] = "doomed"
    BY <1>1, <1>3, <1>4, <1>7, Seen, SeenNext
  <2>2. Resolution' = [Resolution EXCEPT ![e] = "doomed"]
    BY <1>5, <2>1, SeenOne
  <2> QED
    BY <2>1, <2>2 DEF Contract!CancelBegin
<1> QED
  BY <1>6, <1>7

\* Cancel marks the entry it has taken, unless a launch came first.
LEMMA CancelMarks ==
    ASSUME ContractInv, Next, NEW i \in Ids, CancelMark(i)
    PROVE  (\E e \in Ents : Contract!CancelEnd(e)) \/ UNCHANGED Resolution
<1>0. /\ holds \in [Ids -> Ents \union {Nil}] /\ cancelled \in [Ents -> BOOLEAN]
      /\ Nil \notin Ents /\ Typed /\ \A f \in Ents : TaskOf[f] \in Ids
  BY WheelAssumption DEF ContractInv, Typed, TypeOK
<1>1. /\ holds[i] # Nil /\ holds' = [holds EXCEPT ![i] = Nil]
      /\ cancelled' = [cancelled EXCEPT ![holds[i]] = TRUE]
  BY DEF CancelMark
<1>2. PICK e \in Ents : e = holds[i]
  BY <1>0, <1>1
<1>3. TaskOf[e] = i /\ Registered(e) /\ cancelled'[e]
  BY <1>0, <1>1, <1>2 DEF ContractInv, IndexRight
<1>4. \A f \in Ents : (Registered(f)' <=> Registered(f)) /\ (Decided(f)' <=> Decided(f))
  BY <1>0, OnlyFlags
<1>5. ASSUME NEW f \in Ents \ {e} PROVE Resolution'[f] = Resolution[f]
  <2>1. (holds'[TaskOf[f]] = f) <=> (holds[TaskOf[f]] = f)
    BY <1>0, <1>1, <1>2
  <2>2. cancelled'[f] <=> cancelled[f]
    BY <1>0, <1>1, <1>2
  <2> QED
    BY <1>4, <2>1, <2>2, SeenSame
<1>6. CASE Decided(e) \/ cancelled[e]
  <2>1. Resolution'[e] = Resolution[e]
    BY <1>3, <1>4, <1>6, Seen, SeenNext
  <2> QED
    BY <1>5, <2>1, SeenAll
<1>7. CASE ~Decided(e) /\ ~cancelled[e]
  <2>1. Resolution[e] = "doomed" /\ Resolution'[e] = "cancelled"
    BY <1>2, <1>3, <1>4, <1>7, Seen, SeenNext
  <2>2. Resolution' = [Resolution EXCEPT ![e] = "cancelled"]
    BY <1>5, <2>1, SeenOne
  <2> QED
    BY <2>1, <2>2 DEF Contract!CancelEnd
<1> QED
  BY <1>6, <1>7

\* insert decides to launch an entry that nobody has cancelled, and that nobody
\* else launches: it is in one place.
LEMMA DecidesFires ==
    ASSUME ContractInv, Next, NEW p \in Procs, Decides(p)
    PROVE  \E e \in Ents : Contract!Fire(e)
<1>0. Typed /\ OnePlace /\ Unfired /\ cancelled \in [Ents -> BOOLEAN] /\ Ents \subseteq Procs
      /\ ipc \in [Procs -> InsertPC] /\ Loop \notin Ents
  BY LevelFacts DEF ContractInv, Typed, TypeOK
<1>1. ipc[p] = "due" /\ Step(p, "launch") /\ UNCHANGED <<fired, pending, cancelled, holds>>
  BY DEF Decides, Due
<1>2. PICK e \in Ents : e = Ent(p)
  BY <1>0, <1>1, InserterHas DEF Working
<1>3. \/ p = e /\ AtHome(e) /\ ~InHand(e)
      \/ p = Loop /\ InHand(e) /\ ~AtHome(e)
  BY <1>0, <1>1, <1>2, InserterHas DEF Working, OnePlace
<1>4. Registered(e) /\ ~cancelled[e]
  BY <1>0, <1>1, <1>2, <1>3 DEF Registered, AtHome, Decides
<1>5. ~Decided(e)
  <2>1. fired[e] = 0
    BY <1>0, <1>3 DEF Unfired
  <2>2. ASSUME NEW q \in Procs, ipc[q] = "launch", Ent(q) = e PROVE FALSE
    <3>1. \/ q = e /\ AtHome(e)
          \/ q = Loop /\ InHand(e)
      BY <1>0, <2>2, InserterHas DEF Working
    <3>2. q # p
      BY <1>1, <2>2
    <3> QED
      BY <1>3, <3>1, <3>2
  <2> QED
    BY <2>1, <2>2 DEF Decided
<1>6. Decided(e)' /\ ipc'[p] = "launch"
  <2>1. ipc'[p] = "launch" /\ Ent(p)' = Ent(p)
    BY <1>0, <1>1 DEF Step, Ent
  <2> QED
    BY <1>2, <2>1 DEF Decided
<1>7. \A f \in Ents : Registered(f)' <=> Registered(f)
  BY <1>0, <1>1 DEF Step, Registered
<1>8. ASSUME NEW f \in Ents \ {e} PROVE Resolution'[f] = Resolution[f]
  <2>1. ASSUME NEW q \in Procs, Decides(q) PROVE Ent(q) # f
    <3>1. ipc'[q] = "launch" /\ ipc[q] = "due"
      BY <1>0, <2>1 DEF Decides, Due, Step
    <3>2. q = p
      BY <1>0, <1>1, <3>1 DEF Step
    <3> QED
      BY <1>2, <3>2
  <2>2. Decided(f)' <=> Decided(f)
    BY <1>0, <2>1, Decisions
  <2> QED
    BY <1>1, <1>7, <2>2, SeenSame
<1>9. Resolution[e] \in {"armed", "doomed"} /\ Resolution'[e] = "fired"
  BY <1>4, <1>5, <1>6, <1>7, Seen, SeenNext
<1>10. Resolution' = [Resolution EXCEPT ![e] = "fired"]
  BY <1>8, <1>9, SeenOne
<1> QED
  BY <1>9, <1>10 DEF Contract!Fire

\* Every other step leaves what the callers see alone.
LEMMA OthersHidden ==
    ASSUME ContractInv, Next, ~ \E e \in Ents : Register(e),
           ~ \E i \in Ids : CancelTake(i) \/ CancelMark(i), ~ \E p \in Procs : Decides(p)
    PROVE  UNCHANGED Resolution
<1>1. Typed /\ UNCHANGED <<cancelled, holds>>
  BY IndexChanges DEF ContractInv
<1>2. ASSUME NEW f \in Ents PROVE Resolution'[f] = Resolution[f]
  <2>1. (Registered(f)' <=> Registered(f)) /\ (Decided(f)' <=> Decided(f))
    BY <1>1, Registration, Decisions
  <2> QED
    BY <1>1, <2>1, SeenSame
<1> QED
  BY <1>2, SeenAll

\* The wheel implements its contract, for every wheel and every interleaving:
\* each entry is armed by Schedule, which replaces the one armed before it, and
\* resolved once, by its launch, by Cancel in two steps or by a replacement.
THEOREM WheelImplementsContract == Spec => KeepsContract
<1>1. Init => Contract!Init
  <2> SUFFICES ASSUME Init PROVE Contract!Init
    OBVIOUS
  <2>1. \A e \in Ents : Resolution[e] = "new"
    BY LevelFacts, Seen DEF Init, Registered
  <2> QED
    BY <2>1, SeenAll DEF Contract!Init
<1>2. ContractInv /\ [Next]_vars => [Contract!Next]_Resolution
  <2> SUFFICES ASSUME ContractInv, [Next]_vars PROVE Contract!Next \/ UNCHANGED Resolution
    OBVIOUS
  <2>1. CASE UNCHANGED vars
    BY <2>1 DEF vars, Resolution, Decided, Ent
  <2>2. CASE Next
    <3>1. ASSUME NEW e \in Ents, Register(e) PROVE Contract!Next
      BY <2>2, <3>1, RegisterArms DEF Contract!Next
    <3>2. ASSUME NEW i \in Ids, CancelTake(i) \/ CancelMark(i)
          PROVE  Contract!Next \/ UNCHANGED Resolution
      BY <2>2, <3>2, CancelTakes, CancelMarks DEF Contract!Next
    <3>3. ASSUME NEW p \in Procs, Decides(p) PROVE Contract!Next
      BY <2>2, <3>3, DecidesFires DEF Contract!Next
    <3> QED
      BY <2>2, <3>1, <3>2, <3>3, OthersHidden
  <2> QED
    BY <2>1, <2>2
<1> QED
  BY InitContract, ContractStep, <1>1, <1>2, PTL DEF Spec, KeepsContract, Contract!Spec
===============================================================================
