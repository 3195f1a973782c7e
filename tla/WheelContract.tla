---------------------------- MODULE WheelContract ----------------------------
(***************************************************************************)
(* What the TimingWheel promises its callers, whatever their goroutines    *)
(* and the tick loop do: every armed entry is resolved exactly once, by    *)
(* launching its callback or by being cancelled; a task id has at most one *)
(* armed entry, and Schedule replaces it atomically; a Cancel that has     *)
(* taken the entry still loses to a launch decided before it is done.      *)
(* Module Scheduler uses the wheel through these transitions.              *)
(***************************************************************************)
CONSTANTS Ents,    \* the entries, one for each Schedule call
          TaskOf   \* TaskOf[e]: the task id it is scheduled under

VARIABLE st        \* st[e]: the state of the entry

TypeOK == st \in [Ents -> {"new", "armed", "doomed", "cancelled", "fired"}]

Init == st = [e \in Ents |-> "new"]

Armed(e, f) == f # e /\ TaskOf[f] = TaskOf[e] /\ st[f] = "armed"

\* Schedule arms e; the entry armed under the same id, if any, is cancelled.
Schedule(e) ==
    /\ st[e] = "new"
    /\ st' = [f \in Ents |-> IF f = e THEN "armed"
                             ELSE IF Armed(e, f) THEN "cancelled" ELSE st[f]]

\* Cancel takes the armed entry from the index ...
CancelBegin(e) == st[e] = "armed" /\ st' = [st EXCEPT ![e] = "doomed"]

\* ... and marks it.
CancelEnd(e) == st[e] = "doomed" /\ st' = [st EXCEPT ![e] = "cancelled"]

\* The entry is due and unmarked: its callback will run.
Fire(e) == st[e] \in {"armed", "doomed"} /\ st' = [st EXCEPT ![e] = "fired"]

Next == \E e \in Ents : Schedule(e) \/ CancelBegin(e) \/ CancelEnd(e) \/ Fire(e)

Spec == Init /\ [][Next]_st

=============================================================================
