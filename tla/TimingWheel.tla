----------------------------- MODULE TimingWheel -----------------------------
(***************************************************************************)
(* The hierarchical timing wheel (timing_wheel.go): the goroutines of any  *)
(* number of Schedule and Cancel calls against the one tickLoop.  An       *)
(* action is one atomic load or store, or one critical section of tw.mu,   *)
(* of a bucket's mutex or of the delay queue's mutex.                      *)
(*                                                                         *)
(* Times are milliseconds counted from some origin.  The heap of buckets   *)
(* is a set with, for each bucket, the expiration it was last ordered by;  *)
(* a bucket whose expiration has moved since may or may not have surfaced. *)
(***************************************************************************)
EXTENDS Integers, Sequences

CONSTANTS
    Ents,        \* wheelEntry objects, one for each Schedule call
    Ids,         \* task ids
    TaskOf,      \* TaskOf[e]: the id e is scheduled under
    Nil,         \* no entry
    TickMs,      \* TickMs[l]: tickMs of level l
    Size,        \* wheelSize
    MaxLevel,    \* bound: levels above the bottom one
    Start,       \* the time the wheel is made
    MaxTime,     \* bound: the clock stops here
    Deadlines,   \* the fireAt values Schedule may be given
    Cancellable, \* the ids Cancel is called for
    MayStop      \* whether Stop is called

Levels == 0 .. MaxLevel

\* The span of a level, and the tick of the next one.
Interval(l) == TickMs[l] * Size

\* Mutant: the time is not rounded down to the level's tick.
FloorForgotten(t, l) == t

Floor(t, l) == t - (t % TickMs[l])

ASSUME WheelAssumption ==
    /\ Size \in Nat /\ Size >= 2 /\ MaxLevel \in Nat
    /\ TickMs \in [Levels -> Nat \ {0}]
    /\ \A l \in Levels \ {0} : TickMs[l] = Interval(l - 1)
    /\ MaxTime \in Nat /\ Start \in 0 .. MaxTime
    /\ MayStop \in BOOLEAN
    /\ Deadlines \subseteq 0 .. MaxTime /\ MaxTime < Interval(MaxLevel)
    /\ TaskOf \in [Ents -> Ids] /\ Cancellable \subseteq Ids
    /\ Nil \notin Ents

\* The goroutines that insert: the caller of each Schedule, and tickLoop.
Loop == Nil
Procs == Ents \union {Loop}

Buckets == Levels \X (0 .. Size - 1)
NoTime == -1
Off == -2

VARIABLES
    now,        \* the wall clock
    currentTime,\* currentTime[l] of each level
    top,        \* the highest level allocated so far
    list,       \* the entries linked in each bucket
    expiration, \* its expiration, NoTime when it has none
    heap,       \* the expiration it was last ordered by in the heap, or Off
    wake,       \* the one-slot wake channel
    entries,    \* tw.entries: id -> entry or Nil
    cancelled,  \* e.cancelled
    deadline,   \* e.expirationMs
    fired,      \* observer: launches of e.callback
    ipc,        \* where each inserter is
    lv, curr,   \* its level, and the currentTime it loaded there
    tpc,        \* where tickLoop is
    tb,         \* the bucket it polled
    tt,         \* poll's timer; then the time to advance the clocks to
    tl,         \* the level advanceClock is at
    pending,    \* the flushed entries it still has to insert
    holds,      \* the entry the Cancel call of each id has taken
    stopped     \* tw.stopped, and tw.stop closed

clocks  == <<currentTime, top>>
buckets == <<list, expiration>>
loop    == <<tpc, tb, tt, tl>>
vars == <<now, clocks, buckets, heap, wake, entries, cancelled, deadline, fired,
          ipc, lv, curr, loop, pending, holds, stopped>>

InsertPC == {"new", "register", "add", "escalate", "link", "offer", "wake", "due",
             "launch", "idle"}
LoopPC == {"poll", "sleep", "load", "advance", "flush", "drain", "exited"}
Times == 0 .. MaxTime

TypeOK ==
    /\ now \in Times
    /\ currentTime \in [Levels -> Times]
    /\ \A l \in Levels : currentTime[l] % TickMs[l] = 0
    /\ top \in Levels
    /\ list \in [Buckets -> Seq(Ents)]
    /\ expiration \in [Buckets -> Times \union {NoTime}]
    /\ heap \in [Buckets -> Times \union {NoTime, Off}]
    /\ wake \in BOOLEAN
    /\ entries \in [Ids -> Ents \union {Nil}]
    /\ cancelled \in [Ents -> BOOLEAN]
    /\ deadline \in [Ents -> Times]
    /\ fired \in [Ents -> Nat]
    /\ ipc \in [Procs -> InsertPC]
    /\ lv \in [Procs -> Levels]
    /\ curr \in [Procs -> Times]
    /\ tpc \in LoopPC
    /\ tb \in Buckets
    /\ tt \in Times \union {NoTime}
    /\ tl \in Levels
    /\ pending \in Seq(Ents)
    /\ holds \in [Ids -> Ents \union {Nil}]
    /\ stopped \in BOOLEAN

Init ==
    /\ now = Start /\ stopped = FALSE /\ wake = FALSE
    /\ currentTime = [l \in Levels |-> IF l = 0 THEN Floor(Start, 0) ELSE 0]
    /\ top = 0
    /\ list = [b \in Buckets |-> <<>>]
    /\ expiration = [b \in Buckets |-> NoTime]
    /\ heap = [b \in Buckets |-> Off]
    /\ entries = [i \in Ids |-> Nil]
    /\ cancelled = [e \in Ents |-> FALSE]
    /\ deadline = [e \in Ents |-> 0]
    /\ fired = [e \in Ents |-> 0]
    /\ ipc = [p \in Procs |-> IF p = Loop THEN "idle" ELSE "new"]
    /\ lv = [p \in Procs |-> 0]
    /\ curr = [p \in Procs |-> 0]
    /\ tpc = "poll" /\ tb = <<0, 0>> /\ tt = NoTime /\ tl = 0
    /\ pending = <<>>
    /\ holds = [i \in Ids |-> Nil]

\* The wall clock.
Time ==
    /\ now < MaxTime
    /\ now' = now + 1
    /\ UNCHANGED <<clocks, buckets, heap, wake, entries, cancelled, deadline,
                   fired, ipc, lv, curr, loop, pending, holds, stopped>>

-----------------------------------------------------------------------------
(* Schedule and Cancel *)

\* Schedule passes its checks; a stopped wheel refuses.
ScheduleCall(e) ==
    /\ ipc[e] = "new" /\ ~stopped
    /\ \E d \in Deadlines : deadline' = [deadline EXCEPT ![e] = d]
    /\ ipc' = [ipc EXCEPT ![e] = "register"]
    /\ UNCHANGED <<now, clocks, buckets, heap, wake, entries, cancelled, fired,
                   lv, curr, loop, pending, holds, stopped>>

\* Mutant: the entry it replaces stays armed.
ReplaceKeepsOld(e) == UNCHANGED cancelled

\* The entry indexed under the same id is cancelled.
Replace(e) ==
    cancelled' = [f \in Ents |-> cancelled[f] \/ entries[TaskOf[e]] = f]

\* Its critical section; then insert(e).
Register(e) ==
    /\ ipc[e] = "register"
    /\ Replace(e)
    /\ entries' = [entries EXCEPT ![TaskOf[e]] = e]
    /\ ipc' = [ipc EXCEPT ![e] = "add"]
    /\ UNCHANGED <<now, clocks, buckets, heap, wake, deadline, fired, lv, curr,
                   loop, pending, holds, stopped>>

\* Cancel takes the entry out of the index ...
CancelTake(i) ==
    /\ i \in Cancellable /\ entries[i] # Nil /\ holds[i] = Nil
    /\ holds' = [holds EXCEPT ![i] = entries[i]]
    /\ entries' = [entries EXCEPT ![i] = Nil]
    /\ UNCHANGED <<now, clocks, buckets, heap, wake, cancelled, deadline, fired,
                   ipc, lv, curr, loop, pending, stopped>>

\* ... and sets its flag after it has released tw.mu.
CancelMark(i) ==
    /\ holds[i] # Nil
    /\ cancelled' = [cancelled EXCEPT ![holds[i]] = TRUE]
    /\ holds' = [holds EXCEPT ![i] = Nil]
    /\ UNCHANGED <<now, clocks, buckets, heap, wake, entries, deadline, fired,
                   ipc, lv, curr, loop, pending, stopped>>

\* Stop closes tw.stop and waits for tickLoop.
Stop ==
    /\ MayStop /\ ~stopped
    /\ stopped' = TRUE
    /\ UNCHANGED <<now, clocks, buckets, heap, wake, entries, cancelled, deadline,
                   fired, ipc, lv, curr, loop, pending, holds>>

-----------------------------------------------------------------------------
(* insert(e) and timingWheel.add, run by a Schedule call or by tickLoop *)

Ent(p) == IF p = Loop THEN Head(pending) ELSE p

BucketOf(e, l) == <<l, (deadline[e] \div TickMs[l]) % Size>>
BucketExp(e, l) == (deadline[e] \div TickMs[l]) * TickMs[l]
Target(p) == BucketOf(Ent(p), lv[p])

Step(p, pc) == ipc' = [ipc EXCEPT ![p] = pc]

\* insert returns: tickLoop goes on with its list.
Return(p) ==
    /\ Step(p, "idle")
    /\ lv' = [lv EXCEPT ![p] = 0]
    /\ pending' = IF p = Loop THEN Tail(pending) ELSE pending

\* add: a cancelled entry is dropped; else the level's currentTime, loaded
\* once, decides.
Add(p) ==
    LET e == Ent(p)
        c == currentTime[lv[p]]
    IN  /\ ipc[p] = "add"
        /\ \/ cancelled[e] /\ Return(p) /\ UNCHANGED curr
           \/ /\ ~cancelled[e] /\ deadline[e] < c + TickMs[lv[p]]
              /\ Step(p, "due")
              /\ UNCHANGED <<lv, curr, pending>>
           \/ /\ ~cancelled[e] /\ deadline[e] >= c + TickMs[lv[p]]
              /\ deadline[e] < c + Interval(lv[p])
              /\ Step(p, "link")
              /\ UNCHANGED <<lv, curr, pending>>
           \/ /\ ~cancelled[e] /\ deadline[e] >= c + Interval(lv[p])
              /\ Step(p, "escalate")
              /\ curr' = [curr EXCEPT ![p] = c]
              /\ UNCHANGED <<lv, pending>>
        /\ UNCHANGED <<now, clocks, buckets, heap, wake, entries, cancelled,
                       deadline, fired, loop, holds, stopped>>

\* The overflow level, allocated by whoever needs it first, from the time that
\* inserter loaded below.
Escalate(p) ==
    LET up == lv[p] + 1
    IN  /\ ipc[p] = "escalate" /\ up \in Levels
        /\ \/ up <= top /\ UNCHANGED clocks
           \/ /\ up > top
              /\ top' = up
              /\ currentTime' = [currentTime EXCEPT ![up] = Floor(curr[p], up)]
        /\ lv' = [lv EXCEPT ![p] = up]
        /\ curr' = [curr EXCEPT ![p] = 0]
        /\ Step(p, "add")
        /\ UNCHANGED <<now, buckets, heap, wake, entries, cancelled, deadline,
                       fired, loop, pending, holds, stopped>>

\* bucket.add; the bucket is offered when its expiration has changed.
Link(p) ==
    LET b == Target(p)
        x == BucketExp(Ent(p), lv[p])
    IN  /\ ipc[p] = "link"
        /\ list' = [list EXCEPT ![b] = Append(@, Ent(p))]
        /\ expiration' = [expiration EXCEPT ![b] = x]
        /\ \/ expiration[b] # x /\ Step(p, "offer") /\ UNCHANGED <<lv, pending>>
           \/ expiration[b] = x /\ Return(p)
        /\ UNCHANGED <<now, clocks, heap, wake, entries, cancelled, deadline,
                       fired, curr, loop, holds, stopped>>

\* delayQueue.offer: heap.Push or heap.Fix ...
Offer(p) ==
    /\ ipc[p] = "offer"
    /\ heap' = [heap EXCEPT ![Target(p)] = expiration[Target(p)]]
    /\ Step(p, "wake")
    /\ UNCHANGED <<now, clocks, buckets, wake, entries, cancelled, deadline,
                   fired, lv, curr, loop, pending, holds, stopped>>

\* Mutant: poll is not woken.
SignalForgotten == UNCHANGED wake

\* A non-blocking send.
Signal == wake' = TRUE

\* ... then the wake-up, after the queue's lock is released.
Wake(p) ==
    /\ ipc[p] = "wake"
    /\ Signal
    /\ Return(p)
    /\ UNCHANGED <<now, clocks, buckets, heap, entries, cancelled, deadline,
                   fired, curr, loop, holds, stopped>>

\* insert, when add answered "already due": the flag is checked once more.
Due(p) ==
    /\ ipc[p] = "due"
    /\ \/ cancelled[Ent(p)] /\ Return(p)
       \/ ~cancelled[Ent(p)] /\ Step(p, "launch") /\ UNCHANGED <<lv, pending>>
    /\ UNCHANGED <<now, clocks, buckets, heap, wake, entries, cancelled, deadline,
                   fired, curr, loop, holds, stopped>>

\* Mutant: whatever is indexed under the id is removed.
RemoveFromIndexBlindly(e) == entries' = [entries EXCEPT ![TaskOf[e]] = Nil]

\* Only the entry itself is removed: Schedule may have replaced it.
RemoveFromIndex(e) ==
    entries' = [i \in Ids |-> IF entries[i] = e THEN Nil ELSE entries[i]]

\* removeFromIndex, and go e.callback().
Launch(p) ==
    /\ ipc[p] = "launch"
    /\ RemoveFromIndex(Ent(p))
    /\ fired' = [fired EXCEPT ![Ent(p)] = @ + 1]
    /\ Return(p)
    /\ UNCHANGED <<now, clocks, buckets, heap, wake, cancelled, deadline, curr,
                   loop, holds, stopped>>

-----------------------------------------------------------------------------
(* tickLoop and delayQueue.poll *)

OnHeap == {b \in Buckets : heap[b] # Off}

\* h[0]: the least bucket, by the order of the last Push or Fix or, where an
\* expiration has moved since, by its present one.
Tops == {b \in OnHeap : \/ \A c \in OnHeap : heap[b] <= heap[c]
                        \/ \A c \in OnHeap : expiration[b] <= expiration[c]}

\* poll pops the first bucket if it is due, or goes to sleep until it is.
Poll ==
    /\ tpc = "poll"
    /\ \/ /\ OnHeap = {}
          /\ tpc' = "sleep" /\ tt' = NoTime
          /\ UNCHANGED <<heap, tb>>
       \/ \E b \in Tops :
             \/ /\ expiration[b] <= now
                /\ heap' = [heap EXCEPT ![b] = Off]
                /\ tb' = b /\ tpc' = "load"
                /\ UNCHANGED tt
             \/ /\ expiration[b] > now
                /\ tpc' = "sleep" /\ tt' = expiration[b]
                /\ UNCHANGED <<heap, tb>>
    /\ UNCHANGED <<now, clocks, buckets, wake, entries, cancelled, deadline,
                   fired, ipc, lv, curr, tl, pending, holds, stopped>>

\* Mutant: stop is only looked at when the timer is set.
StopClosedWithTimer == stopped /\ tt # NoTime

StopClosed == stopped

\* The select of poll: a wake-up, the timer, or stop.
Awake ==
    /\ tpc = "sleep"
    /\ \/ wake /\ wake' = FALSE /\ tpc' = "poll"
       \/ tt # NoTime /\ tt <= now /\ tpc' = "poll" /\ UNCHANGED wake
       \/ StopClosed /\ tpc' = "exited" /\ UNCHANGED wake
    /\ tt' = NoTime
    /\ UNCHANGED <<now, clocks, buckets, heap, entries, cancelled, deadline,
                   fired, ipc, lv, curr, tb, tl, pending, holds, stopped>>

\* tickLoop loads the expiration of the bucket it got.
LoadExpiration ==
    /\ tpc = "load"
    /\ \/ expiration[tb] >= 0 /\ tpc' = "advance" /\ tt' = expiration[tb]
       \/ expiration[tb] < 0 /\ tpc' = "flush" /\ UNCHANGED tt
    /\ UNCHANGED <<now, clocks, buckets, heap, wake, entries, cancelled, deadline,
                   fired, ipc, lv, curr, tb, tl, pending, holds, stopped>>

\* advanceClock, one level at a time, while a level has a tick to go.
AdvanceClock ==
    /\ tpc = "advance"
    /\ LET ticks == tt >= currentTime[tl] + TickMs[tl]
           more  == ticks /\ tl < top
       IN  /\ currentTime' = IF ticks THEN [currentTime EXCEPT ![tl] = Floor(tt, tl)]
                             ELSE currentTime
           /\ \/ more /\ tl' = tl + 1 /\ tt' = Floor(tt, tl) /\ UNCHANGED tpc
              \/ ~more /\ tl' = 0 /\ tt' = NoTime /\ tpc' = "flush"
    /\ UNCHANGED <<now, top, buckets, heap, wake, entries, cancelled, deadline,
                   fired, ipc, lv, curr, tb, pending, holds, stopped>>

\* Mutant: the expiration of a flushed bucket is not reset.
ResetForgotten == UNCHANGED expiration

Reset == expiration' = [expiration EXCEPT ![tb] = NoTime]

\* Mutant: the entries stay linked.
DetachForgotten == UNCHANGED list

Detach == list' = [list EXCEPT ![tb] = <<>>]

\* bucket.flush.
Flush ==
    /\ tpc = "flush"
    /\ pending' = list[tb]
    /\ Detach
    /\ Reset
    /\ tpc' = "drain"
    /\ UNCHANGED <<now, clocks, heap, wake, entries, cancelled, deadline, fired,
                   ipc, lv, curr, tb, tt, tl, holds, stopped>>

\* The next flushed entry is inserted; after the last one poll is called.
Drain ==
    /\ tpc = "drain" /\ ipc[Loop] = "idle"
    /\ \/ pending # <<>> /\ Step(Loop, "add") /\ UNCHANGED <<tpc, tb>>
       \/ pending = <<>> /\ tpc' = "poll" /\ tb' = <<0, 0>> /\ UNCHANGED ipc
    /\ UNCHANGED <<now, clocks, buckets, heap, wake, entries, cancelled, deadline,
                   fired, lv, curr, tt, tl, pending, holds, stopped>>

-----------------------------------------------------------------------------

Insert(p) == Add(p) \/ Escalate(p) \/ Link(p) \/ Offer(p) \/ Wake(p) \/ Due(p) \/ Launch(p)

TickLoop == Poll \/ Awake \/ LoadExpiration \/ AdvanceClock \/ Flush \/ Drain

Next ==
    \/ Time \/ Stop \/ TickLoop
    \/ \E e \in Ents : ScheduleCall(e) \/ Register(e)
    \/ \E i \in Ids : CancelTake(i) \/ CancelMark(i)
    \/ \E p \in Procs : Insert(p)

Spec == Init /\ [][Next]_vars

\* Goroutines that can go on do, and time passes.  Nobody has to call
\* Schedule, Cancel or Stop.
FairSpec ==
    /\ Spec
    /\ WF_vars(Time) /\ WF_vars(TickLoop \/ Insert(Loop))
    /\ \A e \in Ents : WF_vars(Register(e) \/ Insert(e))
    /\ \A i \in Ids : WF_vars(CancelMark(i))

-----------------------------------------------------------------------------
(* Properties *)

\* A bucket with entries will be flushed: it is on the heap, tickLoop has
\* popped it and not yet flushed it, or the inserter that changed its
\* expiration is about to offer it.  This is what add's answer "changed" has to
\* guarantee against the poller.
NoLostEntry ==
    \A b \in Buckets : list[b] # <<>> =>
        \/ heap[b] # Off
        \/ tpc \in {"load", "advance", "flush"} /\ tb = b
        \/ \E p \in Procs : ipc[p] = "offer" /\ Target(p) = b

\* While poll sleeps, its timer is set for the earliest bucket with entries or
\* a wake-up is on its way: no insert is slept through.
NoLostWakeup ==
    tpc = "sleep" =>
        \/ wake \/ \E p \in Procs : ipc[p] \in {"offer", "wake"}
        \/ \A b \in Buckets : list[b] # <<>> => tt # NoTime /\ tt <= expiration[b]

\* The callback of an entry is launched at most once, although Schedule's
\* goroutine may still be in offer while tickLoop inserts the entry again.
FiresOnce == \A e \in Ents : fired[e] <= 1

\* An entry on which a launch is not decided yet, registered and not cancelled.
Decided(e) == fired[e] > 0 \/ \E p \in Procs : ipc[p] = "launch" /\ Ent(p) = e
Live(e) == ipc[e] \notin {"new", "register"} /\ ~cancelled[e] /\ ~Decided(e)

\* Every live entry can be cancelled: it is the one indexed under its id, or a
\* Cancel call has just taken it.
Reachable ==
    \A e \in Ents : Live(e) => entries[TaskOf[e]] = e \/ holds[TaskOf[e]] = e

\* Every entry Schedule has registered is fired or cancelled, unless Stop
\* comes first.
EveryEntryResolved ==
    <>[](\A e \in Ents : ipc[e] = "new" \/ cancelled[e] \/ fired[e] > 0 \/ stopped)

\* Stop returns: tickLoop leaves, whatever is due meanwhile.
StopReturns == <>[](stopped => tpc = "exited")

\* The wheel as its callers see it: an entry is fired once its launch is decided.
Resolution ==
    [e \in Ents |->
        IF ipc[e] \in {"new", "register"} THEN "new"
        ELSE IF Decided(e) THEN "fired"
        ELSE IF cancelled[e] THEN "cancelled"
        ELSE IF holds[TaskOf[e]] = e THEN "doomed" ELSE "armed"]

Contract == INSTANCE WheelContract WITH st <- Resolution

\* The wheel implements its contract.
KeepsContract == Contract!Spec

=============================================================================
