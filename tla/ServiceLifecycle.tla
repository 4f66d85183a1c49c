-------------------------- MODULE ServiceLifecycle --------------------------
(***************************************************************************)
(* What one service run promises to everybody who holds its handle         *)
(* (landscape-common/src/service/mod.rs, the documentation of              *)
(* ServiceHandle): a run goes idle -> active -> draining -> over and never  *)
(* back, wait_stop answers only when the run is over and no task of it is   *)
(* left, and no task is added after the first answer.                       *)
(***************************************************************************)
CONSTANT Waiters        \* the callers of wait_stop

VARIABLES phase,        \* what the run is doing, from the outside
          busy,         \* some task of the run still exists
          answered      \* the callers whose wait_stop has returned

vars == <<phase, busy, answered>>

Phases == {"idle", "active", "draining", "over"}

TypeOK == /\ phase \in Phases
          /\ busy \in BOOLEAN
          /\ answered \subseteq Waiters

\* A handle that is never started (the placeholder a registry entry is created
\* with) is over from the beginning.
Init == /\ phase \in {"idle", "over"}
        /\ busy = FALSE
        /\ answered = {}

Start == /\ phase = "idle"
         /\ phase' \in {"active", "over"}
         /\ UNCHANGED <<busy, answered>>

TaskStarts == /\ phase # "idle"
              /\ answered = {}
              /\ busy' = TRUE
              /\ UNCHANGED <<phase, answered>>

TasksEnd == /\ busy
            /\ busy' = FALSE
            /\ UNCHANGED <<phase, answered>>

Drain == /\ phase = "active"
         /\ phase' = "draining"
         /\ UNCHANGED <<busy, answered>>

Finish == /\ phase \in {"active", "draining"}
          /\ phase' = "over"
          /\ UNCHANGED <<busy, answered>>

Answer(w) == /\ phase = "over"
             /\ ~busy
             /\ answered' = answered \cup {w}
             /\ UNCHANGED <<phase, busy>>

Next == \/ Start \/ TaskStarts \/ TasksEnd \/ Drain \/ Finish
        \/ \E w \in Waiters : Answer(w)

Spec == Init /\ [][Next]_vars
=============================================================================
