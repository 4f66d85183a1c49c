------------------------ MODULE MCServiceController ------------------------
(***************************************************************************)
(* TLC instances of ServiceController: two callers, and enough identifiers *)
(* that spawn_service and start() seldom run out of free ones.             *)
(***************************************************************************)
EXTENDS ServiceController, TLC

Interchangeable == Permutations(Callers)
=============================================================================
