------------------------------- MODULE MCPools -------------------------------
(***************************************************************************)
(* The default pool and a pool "io" that the options give two workers.     *)
(***************************************************************************)
EXTENDS Pools

MCConfigured == [p \in Pools |-> IF p = "io" THEN 2 ELSE None]

=============================================================================
