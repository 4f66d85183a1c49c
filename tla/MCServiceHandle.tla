--------------------------- MODULE MCServiceHandle ---------------------------
(***************************************************************************)
(* TLC instances of ServiceHandle: three tasks (helpers or sibling         *)
(* sections of one run) and two concurrent wait_stop calls.                *)
(***************************************************************************)
EXTENDS ServiceHandle, TLC

=============================================================================
