----------------------------- MODULE MCScheduler -----------------------------
(***************************************************************************)
(* Small instances of Scheduler for TLC.  A configuration lists the ids    *)
(* that have a key, retries, or the high priority; the functions the       *)
(* specification takes are built from those lists.                         *)
(***************************************************************************)
EXTENDS Scheduler, TLC

CONSTANTS
    Keyed,        \* ids submitted WithKey("k")
    Urgent,       \* ids of the higher priority
    Retried,      \* ids with a retry strategy
    RetryCap,     \* their WithMaxRetries
    StrategyCap   \* the MaxAttempts of their strategy

MCKeys == {"k"}
MCKeyOf == [i \in Ids |-> IF i \in Keyed THEN "k" ELSE Nil]
MCPrio == [i \in Ids |-> IF i \in Urgent THEN 10 ELSE 1]
MCMaxRetries == [i \in Ids |-> IF i \in Retried THEN RetryCap ELSE 0]
MCStrategyMax == [i \in Ids |-> IF i \in Retried THEN StrategyCap ELSE 0]

\* Workers are interchangeable (safety runs only).
WorkerSymmetry == Permutations(Workers)

=============================================================================
