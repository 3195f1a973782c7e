---------------------------- MODULE MCTimingWheel ----------------------------
(***************************************************************************)
(* Small wheels for TLC: the entries in Shared are scheduled under one id, *)
(* every other entry under an id of its own.                               *)
(***************************************************************************)
EXTENDS TimingWheel, TLC

CONSTANTS Shared, MayCancel

\* A bottom tick of 2.
MCTickMs == [l \in Levels |-> 2 * Size ^ l]

MCTaskOf == [e \in Ents |-> IF e \in Shared THEN "shared" ELSE e]
MCIds == {MCTaskOf[e] : e \in Ents}
MCCancellable == IF MayCancel THEN MCIds ELSE {}

=============================================================================
