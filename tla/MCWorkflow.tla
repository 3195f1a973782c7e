----------------------------- MODULE MCWorkflow ------------------------------
(***************************************************************************)
(* A small graph: c needs the failure of a and the success of b, and d,    *)
(* which has a key, the success of a.                                      *)
(***************************************************************************)
EXTENDS Workflow

Dep(p, s) == [parent |-> p, trigger |-> s]

MCTasks == {"a", "b", "c", "d"}
MCDeps ==
    [t \in MCTasks |->
        CASE t = "c" -> <<Dep("a", "Failed"), Dep("b", "Succeeded")>>
          [] t = "d" -> <<Dep("a", "Succeeded")>>
          [] OTHER -> <<>>]

MCEnds ==
    [t \in MCTasks |->
        IF t = "a" THEN Outcomes ELSE {"Succeeded"}]

=============================================================================
