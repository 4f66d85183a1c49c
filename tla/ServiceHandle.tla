---------------------------- MODULE ServiceHandle ----------------------------
(***************************************************************************)
(* One service run: landscape-common/src/service/mod.rs.                   *)
(*                                                                         *)
(* A ServiceHandle is a status cell (a status behind an RwLock and a       *)
(* CancellationToken) and a TaskTracker.  Four kinds of threads share it:  *)
(*                                                                         *)
(*   Starter   the ServiceStarterTrait::start call that creates the run;   *)
(*   Tasks     the tracked tasks of the run, which report their status and *)
(*             may end at any point (return, early return, panic);         *)
(*   Watcher   the death watch that supervise_lifecycle spawns;            *)
(*   Waiters   the callers of wait_stop.                                   *)
(*                                                                         *)
(* just_change_status and request_stop write the status under the write    *)
(* lock, drop the lock, and only then cancel the token: a thread between   *)
(* the two is in the set "cancelling".  Everything else is interleaved at  *)
(* the granularity of one lock acquisition or one tracker call.            *)
(***************************************************************************)
EXTENDS FiniteSets

CONSTANTS Tasks,        \* the tasks a run can spawn
          Waiters,      \* the callers of wait_stop
          Starter,      \* the start() call
          Watcher       \* the death watch task

ASSUME ThreadsDistinct ==
    /\ Starter # Watcher
    /\ {Starter, Watcher} \cap (Tasks \cup Waiters) = {}
    /\ Tasks \cap Waiters = {}

VARIABLES status,       \* ServiceStatusCell.status
          cancelled,    \* ServiceStatusCell.stop has been cancelled
          cancelling,   \* threads past the status write, before stop.cancel()
          closed,       \* HandleInner.tracker has been closed
          spc,          \* where the Starter is
          tpc,          \* where each task is; "fresh" and "run" are tracked
          dpc,          \* where the death watch is
          wpc           \* where each wait_stop call is

vars == <<status, cancelled, cancelling, closed, spc, tpc, dpc, wpc>>
cell == <<status, cancelling>>

Threads == Tasks \cup Waiters \cup {Starter, Watcher}

ServiceStatus == {"Staring", "Running", "Stopping", "Stop", "Disabled", "Failed"}

(***************************************************************************)
(* The transition matrix and the status predicates.                        *)
(***************************************************************************)
\* Mutant: a late Running report is accepted after a stop request.
can_transition_to_late_running(from, to) ==
    \/ from = "Stop"     /\ to \in {"Staring", "Disabled"}
    \/ from = "Staring"  /\ to \in {"Running", "Stopping", "Stop", "Failed"}
    \/ from = "Running"  /\ to \in {"Stopping", "Stop", "Failed"}
    \/ from = "Stopping" /\ to \in {"Running", "Stop", "Failed"}
    \/ from = "Failed"   /\ to \in {"Staring", "Stop"}

can_transition_to(from, to) ==
    \/ from = "Stop"     /\ to \in {"Staring", "Disabled"}
    \/ from = "Staring"  /\ to \in {"Running", "Stopping", "Stop", "Failed"}
    \/ from = "Running"  /\ to \in {"Stopping", "Stop", "Failed"}
    \/ from = "Stopping" /\ to \in {"Stop", "Failed"}
    \/ from = "Failed"   /\ to \in {"Staring", "Stop"}

is_exit_state(s) == s \in {"Stopping", "Stop", "Disabled", "Failed"}
is_active(s)     == s \in {"Staring", "Running"}
is_stop(s)       == s \in {"Stop", "Disabled", "Failed"}

live == {t \in Tasks : tpc[t] \in {"fresh", "run"}}

(***************************************************************************)
(* The two ways to write the cell.  A report of the current status is a    *)
(* no-op that still cancels for an exit state; an illegal one is refused.  *)
(***************************************************************************)
just_change_status(th, new) ==
    /\ status' = IF can_transition_to(status, new) THEN new ELSE status
    /\ cancelling' =
         IF is_exit_state(new) /\ (status = new \/ can_transition_to(status, new))
         THEN cancelling \cup {th} ELSE cancelling

request_stop(th) ==
    /\ status' = IF is_active(status) THEN "Stopping" ELSE status
    /\ cancelling' = cancelling \cup {th}

\* The second half of both writers: self.stop.cancel() after the lock is gone.
Cancel(th) ==
    /\ th \in cancelling
    /\ cancelled' = TRUE
    /\ cancelling' = cancelling \ {th}
    /\ UNCHANGED <<status, closed, spc, tpc, dpc, wpc>>

(***************************************************************************)
(* The Starter.  Its contract: on return the status is Staring or a        *)
(* terminal status it reported, and every long-lived task is tracked.      *)
(* Services either spawn one main task, which may repeat Staring as its    *)
(* first act, or (the WAN link) several tasks and report Running at once.  *)
(***************************************************************************)
StartDisabled ==
    /\ spc = "new"
    /\ just_change_status(Starter, "Disabled")
    /\ spc' = "return"
    /\ UNCHANGED <<cancelled, closed, tpc, dpc, wpc>>

StartStaring ==
    /\ spc = "new"
    /\ just_change_status(Starter, "Staring")
    /\ spc' = "staring"
    /\ UNCHANGED <<cancelled, closed, tpc, dpc, wpc>>

\* The interface is missing: Staring, then Failed, and no task.
StartFailed ==
    /\ spc = "staring"
    /\ \A t \in Tasks : tpc[t] = "none"
    /\ just_change_status(Starter, "Failed")
    /\ spc' = "return"
    /\ UNCHANGED <<cancelled, closed, tpc, dpc, wpc>>

SpawnMain(t) ==
    /\ spc = "staring"
    /\ \A u \in Tasks : tpc[u] = "none"
    /\ tpc' = [tpc EXCEPT ![t] = "fresh"]
    /\ spc' = "return"
    /\ UNCHANGED <<status, cancelled, cancelling, closed, dpc, wpc>>

SpawnSection(t) ==
    /\ spc = "staring"
    /\ tpc[t] = "none"
    /\ tpc' = [tpc EXCEPT ![t] = "run"]
    /\ UNCHANGED <<status, cancelled, cancelling, closed, spc, dpc, wpc>>

StartRunning ==
    /\ spc = "staring"
    /\ \E t \in Tasks : tpc[t] # "none"
    /\ just_change_status(Starter, "Running")
    /\ spc' = "return"
    /\ UNCHANGED <<cancelled, closed, tpc, dpc, wpc>>

\* start() has returned: the manager closes the tracker and hangs up the death
\* watch before anybody else can see the handle.
supervise_lifecycle ==
    /\ spc = "return"
    /\ Starter \notin cancelling
    /\ closed' = TRUE
    /\ dpc' = "wait"
    /\ spc' = "published"
    /\ UNCHANGED <<status, cancelled, cancelling, tpc, wpc>>

(***************************************************************************)
(* The tracked tasks.                                                      *)
(***************************************************************************)
TaskBegins(t) ==
    /\ tpc[t] = "fresh"
    /\ \/ just_change_status(t, "Staring")
       \/ UNCHANGED cell
    /\ tpc' = [tpc EXCEPT ![t] = "run"]
    /\ UNCHANGED <<cancelled, closed, spc, dpc, wpc>>

TaskReports(t, new) ==
    /\ tpc[t] = "run"
    /\ t \notin cancelling
    /\ just_change_status(t, new)
    /\ UNCHANGED <<cancelled, closed, spc, tpc, dpc, wpc>>

\* close() does not refuse later spawns: a running task may add helpers.
TaskSpawns(t, u) ==
    /\ tpc[t] = "run"
    /\ t \notin cancelling
    /\ tpc[u] = "none"
    /\ tpc' = [tpc EXCEPT ![u] = "run"]
    /\ UNCHANGED <<status, cancelled, cancelling, closed, spc, dpc, wpc>>

TaskEnds(t) ==
    /\ t \in live
    /\ t \notin cancelling
    /\ tpc' = [tpc EXCEPT ![t] = "done"]
    /\ UNCHANGED <<status, cancelled, cancelling, closed, spc, dpc, wpc>>

(***************************************************************************)
(* The death watch: tracker.wait(), read the status, and mark the run      *)
(* Failed if it died without saying so.  Read and write are two locks.     *)
(***************************************************************************)
\* Mutant: the wait ends as soon as the tracker is closed.
TrackerDrained_closed == closed

TrackerDrained == closed /\ live = {}

WatchWakes ==
    /\ dpc = "wait"
    /\ TrackerDrained
    /\ dpc' = "read"
    /\ UNCHANGED <<status, cancelled, cancelling, closed, spc, tpc, wpc>>

\* Mutant: only a Running service is considered to have died.
WatchReads_running ==
    /\ dpc = "read"
    /\ dpc' = IF status = "Running" THEN "fail" ELSE "done"
    /\ UNCHANGED <<status, cancelled, cancelling, closed, spc, tpc, wpc>>

WatchReads ==
    /\ dpc = "read"
    /\ dpc' = IF is_active(status) THEN "fail" ELSE "done"
    /\ UNCHANGED <<status, cancelled, cancelling, closed, spc, tpc, wpc>>

WatchFails ==
    /\ dpc = "fail"
    /\ just_change_status(Watcher, "Failed")
    /\ dpc' = "done"
    /\ UNCHANGED <<cancelled, closed, spc, tpc, wpc>>

(***************************************************************************)
(* wait_stop: request the stop, close the tracker, wait for it to drain,   *)
(* and mark the run Failed if it is not in a terminal status.              *)
(***************************************************************************)
WaitRequests(w) ==
    /\ wpc[w] = "idle"
    /\ spc \in {"published", "placeholder"}
    /\ request_stop(w)
    /\ wpc' = [wpc EXCEPT ![w] = "close"]
    /\ UNCHANGED <<cancelled, closed, spc, tpc, dpc>>

\* Mutant: wait_stop relies on supervise_lifecycle to close the tracker.
WaitCloses_open(w) ==
    /\ wpc[w] = "close"
    /\ w \notin cancelling
    /\ wpc' = [wpc EXCEPT ![w] = "wait"]
    /\ UNCHANGED <<status, cancelled, cancelling, closed, spc, tpc, dpc>>

WaitCloses(w) ==
    /\ wpc[w] = "close"
    /\ w \notin cancelling
    /\ closed' = TRUE
    /\ wpc' = [wpc EXCEPT ![w] = "wait"]
    /\ UNCHANGED <<status, cancelled, cancelling, spc, tpc, dpc>>

WaitWakes(w) ==
    /\ wpc[w] = "wait"
    /\ TrackerDrained
    /\ wpc' = [wpc EXCEPT ![w] = "check"]
    /\ UNCHANGED <<status, cancelled, cancelling, closed, spc, tpc, dpc>>

\* Mutant: the status the service reported is trusted.
WaitChecks_trusting(w) ==
    /\ wpc[w] = "check"
    /\ wpc' = [wpc EXCEPT ![w] = "done"]
    /\ UNCHANGED <<status, cancelled, cancelling, closed, spc, tpc, dpc>>

WaitChecks(w) ==
    /\ wpc[w] = "check"
    /\ wpc' = [wpc EXCEPT ![w] = IF is_stop(status) THEN "done" ELSE "fail"]
    /\ UNCHANGED <<status, cancelled, cancelling, closed, spc, tpc, dpc>>

WaitFails(w) ==
    /\ wpc[w] = "fail"
    /\ just_change_status(w, "Failed")
    /\ wpc' = [wpc EXCEPT ![w] = "done"]
    /\ UNCHANGED <<cancelled, closed, spc, tpc, dpc>>

(***************************************************************************)
(* ServiceHandle::new(), for a run about to be started or for the          *)
(* placeholder that spawn_service puts into the registry.                  *)
(***************************************************************************)
Init ==
    /\ status = "Stop"
    /\ cancelled = FALSE
    /\ cancelling = {}
    /\ closed = FALSE
    /\ spc \in {"new", "placeholder"}
    /\ tpc = [t \in Tasks |-> "none"]
    /\ dpc = "none"
    /\ wpc = [w \in Waiters |-> "idle"]

Start == \/ StartDisabled \/ StartStaring \/ StartFailed \/ StartRunning
         \/ \E t \in Tasks : SpawnMain(t) \/ SpawnSection(t)
         \/ supervise_lifecycle

\* The statuses the services' tasks report once they run.  None reports
\* Stopping: that one is only written by request_stop.
ReportedByTasks == {"Running", "Stop", "Failed"}

Task(t) == \/ TaskBegins(t) \/ TaskEnds(t)
           \/ \E new \in ReportedByTasks : TaskReports(t, new)
           \/ \E u \in Tasks : TaskSpawns(t, u)

Watch == WatchWakes \/ WatchReads \/ WatchFails

Wait(w) == WaitRequests(w) \/ WaitCloses(w) \/ WaitWakes(w)
           \/ WaitChecks(w) \/ WaitFails(w)

Next == \/ Start
        \/ \E t \in Tasks : Task(t)
        \/ Watch
        \/ \E w \in Waiters : Wait(w)
        \/ \E th \in Threads : Cancel(th)

(***************************************************************************)
(* Fairness: every spawned future is polled (tokio), the manager           *)
(* supervises what start() returned, and a task that has been cancelled    *)
(* ends (the contract of stop_token).                                      *)
(* Nothing makes a healthy task end, report or spawn, nor anybody call     *)
(* wait_stop.                                                              *)
(***************************************************************************)
CancelledTaskEnds(t) == cancelled /\ TaskEnds(t)

Fairness ==
    /\ WF_vars(supervise_lifecycle)
    /\ WF_vars(Watch)
    /\ \A w \in Waiters : WF_vars(WaitCloses(w) \/ WaitWakes(w) \/ WaitChecks(w) \/ WaitFails(w))
    /\ \A th \in Threads : WF_vars(Cancel(th))
    /\ \A t \in Tasks : SF_vars(CancelledTaskEnds(t))

Spec == Init /\ [][Next]_vars
FairSpec == Spec /\ Fairness

-----------------------------------------------------------------------------

\* Types, and where a thread that still owes a cancel() can be.
TypeOK ==
    /\ status \in ServiceStatus
    /\ cancelled \in BOOLEAN
    /\ cancelling \subseteq Threads
    /\ closed \in BOOLEAN
    /\ spc \in {"new", "placeholder", "staring", "return", "published"}
    /\ tpc \in [Tasks -> {"none", "fresh", "run", "done"}]
    /\ dpc \in {"none", "wait", "read", "fail", "done"}
    /\ wpc \in [Waiters -> {"idle", "close", "wait", "check", "fail", "done"}]
    /\ Starter \in cancelling => spc = "return"
    /\ Watcher \in cancelling => dpc = "done"
    /\ \A t \in Tasks : t \in cancelling => tpc[t] = "run"
    /\ \A w \in Waiters : w \in cancelling => wpc[w] \in {"close", "done"}

\* The status has been written at least once (the initial Stop has not).
Written == spc \notin {"new", "placeholder"}

(***************************************************************************)
(* No write path reaches an exit state without the token being cancelled   *)
(* (the invariant stated on ServiceStatusCell), up to the window between   *)
(* dropping the lock and calling cancel(), in which some thread is still   *)
(* about to do it.                                                         *)
(***************************************************************************)
ExitCancelsToken ==
    Written /\ is_exit_state(status) => cancelled \/ cancelling # {}

(***************************************************************************)
(* When wait_stop returns, the run is over: no tracked task is left and    *)
(* the status is terminal, whatever the tasks reported and however many    *)
(* callers and the death watch raced.  It stays so.                        *)
(***************************************************************************)
WaitStopIsFinal ==
    \A w \in Waiters : wpc[w] = "done" => live = {} /\ is_stop(status)

(***************************************************************************)
(* A stopped run is never resurrected: once the token is cancelled, no     *)
(* late report (Staring or Running of a task that has not noticed) makes   *)
(* the status active again.                                                *)
(***************************************************************************)
NoResurrection ==
    [][~ (cancelled /\ ~is_active(status) /\ is_active(status'))]_vars

(***************************************************************************)
(* A Stopping status is never orphaned: as long as it stands, a wait_stop  *)
(* call that will complete it is still in progress (the death watch does   *)
(* not treat Stopping as a death).                                         *)
(***************************************************************************)
StoppingHasOwner ==
    status = "Stopping" => \E w \in Waiters : wpc[w] \in {"close", "wait", "check", "fail"}

\* The status cell, the token and the tracker agree at every step of every
\* thread: an exit status has its token cancelled or about to be, a wait_stop
\* that has returned leaves no task and a final status, and Stopping never
\* outlives the calls that entered it.
HandleInv == TypeOK /\ ExitCancelsToken /\ WaitStopIsFinal /\ StoppingHasOwner

(***************************************************************************)
(* Silent death is detected: a published run whose tasks are all gone      *)
(* reaches a terminal status and its token is cancelled, without anybody   *)
(* calling wait_stop.                                                      *)
(***************************************************************************)
DeathIsReported ==
    (spc = "published" /\ live = {}) ~> (is_stop(status) /\ cancelled)

(***************************************************************************)
(* wait_stop returns, provided that cancelled tasks end.                   *)
(***************************************************************************)
WaitStopReturns ==
    \A w \in Waiters : (wpc[w] # "idle") ~> (wpc[w] = "done")

(***************************************************************************)
(* The run implements the lifecycle its holders rely on.                   *)
(***************************************************************************)
phase == IF spc = "new" THEN "idle"
         ELSE IF is_active(status) THEN "active"
         ELSE IF status = "Stopping" THEN "draining" ELSE "over"

busy == live # {}

answered == {w \in Waiters : wpc[w] = "done" /\ w \notin cancelling}

Lifecycle == INSTANCE ServiceLifecycle
    WITH phase <- phase, busy <- busy, answered <- answered

ImplementsLifecycle == Lifecycle!Spec
=============================================================================
