------------------------ MODULE ServiceHandle_proofs ------------------------
(***************************************************************************)
(* Proofs about ServiceHandle for any number of tasks and any number of    *)
(* concurrent wait_stop calls.                                             *)
(***************************************************************************)
EXTENDS ServiceHandle, TLAPS

(***************************************************************************)
(* The inductive invariant.  Besides the properties themselves it says     *)
(* what the Starter guarantees (nothing has happened before it reports;    *)
(* a placeholder never gets a task; a main task that has not begun is      *)
(* alone and its run is Staring or Stopping) and what a wait_stop call     *)
(* guarantees from its first lock on (the run cannot be active again).     *)
(***************************************************************************)
StarterInv ==
    /\ spc \in {"new", "placeholder"} =>
         status = "Stop" /\ \A t \in Tasks : tpc[t] = "none"
    /\ spc = "new" => ~cancelled /\ cancelling = {}
    /\ spc # "published" => dpc = "none"
    /\ dpc \in {"read", "fail", "done"} => \A t \in Tasks : tpc[t] \in {"none", "done"}
    /\ spc = "staring" /\ (\A t \in Tasks : tpc[t] = "none") => status = "Staring"
    /\ \A t \in Tasks : tpc[t] = "fresh" => status \in {"Staring", "Stopping"}
    /\ \A t, u \in Tasks : tpc[t] = "fresh" /\ u # t => tpc[u] = "none"
    /\ \A t \in Tasks : tpc[t] = "fresh" => spc \in {"return", "published"}

WaiterInv ==
    /\ \A w \in Waiters : wpc[w] # "idle" =>
         spc \in {"published", "placeholder"} /\ ~is_active(status)
    /\ \A w \in Waiters : wpc[w] \in {"check", "fail", "done"} =>
         \A t \in Tasks : tpc[t] \in {"none", "done"}
    /\ \A w \in Waiters : wpc[w] = "done" => is_stop(status)

IInv == TypeOK /\ ExitCancelsToken /\ StoppingHasOwner /\ StarterInv /\ WaiterInv

USE DEF ServiceStatus, Threads, is_exit_state, is_active, is_stop, cell

\* What a status report does, by the transition matrix.
LEMMA ReportLemma ==
    ASSUME NEW th \in Threads, NEW new \in {"Staring", "Running", "Stop", "Disabled", "Failed"},
           TypeOK, just_change_status(th, new)
    PROVE  /\ status' \in ServiceStatus
           /\ cancelling' \subseteq Threads
           /\ cancelling \subseteq cancelling'
           /\ cancelling' \subseteq cancelling \cup {th}
           /\ status' = status \/ status' = new
           /\ status' = status \/ (is_exit_state(new) => cancelling' # {})
           /\ status = new => status' = status
           /\ new \notin {"Stop", "Disabled", "Failed"} => cancelling' = cancelling
           /\ new = "Staring" /\ status' # status => status \in {"Stop", "Failed"}
           /\ new = "Running" /\ status' # status => status = "Staring"
           /\ new = "Stop" /\ status' # status => status \in {"Staring", "Running", "Stopping", "Failed"}
           /\ new = "Failed" /\ status' # status => status \in {"Staring", "Running", "Stopping"}
           /\ new = "Failed" /\ status' = status => status \in {"Stop", "Disabled", "Failed"}
           /\ new = "Staring" /\ status = "Stop" => status' = "Staring"
           /\ new = "Disabled" /\ status = "Stop" => status' = "Disabled"
           /\ new = "Failed" /\ status = "Staring" => status' = "Failed"
  BY DEF TypeOK, just_change_status, can_transition_to

\* A new handle satisfies the inductive invariant.
LEMMA InitIInv == Init => IInv
  BY DEF Init, IInv, TypeOK, ExitCancelsToken, Written, StoppingHasOwner, StarterInv, WaiterInv

\* The steps of the Starter keep the inductive invariant.
LEMMA StarterStep == ASSUME IInv, Start PROVE IInv'
  <1> USE DEF IInv, TypeOK, Written
  <1>1. CASE StartDisabled
    <2>1. status' = "Disabled" /\ cancelling' # {} /\ cancelling' \subseteq Threads
      BY <1>1, ReportLemma DEF StartDisabled, StarterInv, just_change_status, can_transition_to
    <2>2. StarterInv'
      BY <1>1, <2>1 DEF StartDisabled, StarterInv
    <2>9. TypeOK'
      BY <1>1, <2>1, ThreadsDistinct DEF StartDisabled, just_change_status
    <2> QED
      BY <2>9, <1>1, <2>1, <2>2 DEF StartDisabled, StarterInv, WaiterInv, ExitCancelsToken, StoppingHasOwner
  <1>2. CASE StartStaring
    <2>1. status' = "Staring" /\ cancelling' = {}
      BY <1>2, ReportLemma DEF StartStaring, StarterInv, just_change_status, can_transition_to
    <2>2. StarterInv'
      BY <1>2, <2>1 DEF StartStaring, StarterInv
    <2> QED
      BY <1>2, <2>1, <2>2 DEF StartStaring, StarterInv, WaiterInv, ExitCancelsToken, StoppingHasOwner
  <1>3. CASE StartFailed
    <2>1. status = "Staring"
      BY <1>3 DEF StartFailed, StarterInv
    <2>2. status' = "Failed" /\ cancelling' # {} /\ cancelling' \subseteq Threads
      BY <1>3, <2>1 DEF StartFailed, just_change_status, can_transition_to
    <2>3. StarterInv'
      BY <1>3, <2>2 DEF StartFailed, StarterInv
    <2>9. TypeOK'
      BY <1>3, <2>1, ThreadsDistinct DEF StartFailed, just_change_status
    <2> QED
      BY <2>9, <1>3, <2>2, <2>3 DEF StartFailed, WaiterInv, ExitCancelsToken, StoppingHasOwner
  <1>4. CASE StartRunning
    <2>1. \A t \in Tasks : tpc[t] # "fresh"
      BY <1>4 DEF StartRunning, StarterInv
    <2>2. /\ status' \in ServiceStatus /\ cancelling' = cancelling
          /\ status' = status \/ status' = "Running"
      BY <1>4 DEF StartRunning, just_change_status, can_transition_to
    <2>3. StarterInv'
      BY <1>4, <2>1, <2>2 DEF StartRunning, StarterInv
    <2> QED
      BY <1>4, <2>2, <2>3 DEF StartRunning, WaiterInv, ExitCancelsToken, StoppingHasOwner
  <1>5. ASSUME NEW t \in Tasks, SpawnMain(t) PROVE IInv'
    <2>1. status = "Staring"
      BY <1>5 DEF SpawnMain, StarterInv
    <2>2. StarterInv'
      BY <1>5, <2>1 DEF SpawnMain, StarterInv
    <2> QED
      BY <1>5, <2>2 DEF SpawnMain, WaiterInv, ExitCancelsToken, StoppingHasOwner
  <1>6. ASSUME NEW t \in Tasks, SpawnSection(t) PROVE IInv'
    <2>1. \A u \in Tasks : tpc[u] # "fresh"
      BY <1>6 DEF SpawnSection, StarterInv
    <2>2. StarterInv'
      BY <1>6, <2>1 DEF SpawnSection, StarterInv
    <2> QED
      BY <1>6, <2>2 DEF SpawnSection, WaiterInv, ExitCancelsToken, StoppingHasOwner
  <1>7. CASE supervise_lifecycle
    <2>1. StarterInv'
      BY <1>7 DEF supervise_lifecycle, StarterInv
    <2>9. TypeOK'
      BY <1>7 DEF supervise_lifecycle, StarterInv
    <2> QED
      BY <2>9, <1>7, <2>1 DEF supervise_lifecycle, WaiterInv, ExitCancelsToken, StoppingHasOwner
  <1> QED BY <1>1, <1>2, <1>3, <1>4, <1>5, <1>6, <1>7 DEF Start

\* The steps of the tracked tasks keep the inductive invariant.
LEMMA TaskStep == ASSUME IInv, NEW t \in Tasks, Task(t) PROVE IInv'
  <1> USE DEF IInv, TypeOK, Written
  <1>1. CASE TaskBegins(t)
    <2>1. status' = status /\ cancelling' = cancelling
      BY <1>1 DEF TaskBegins, StarterInv, just_change_status, can_transition_to
    <2>2. StarterInv'
      BY <1>1, <2>1 DEF TaskBegins, StarterInv
    <2> QED
      BY <1>1, <2>1, <2>2 DEF TaskBegins, WaiterInv, ExitCancelsToken, StoppingHasOwner
  <1>2. CASE TaskEnds(t)
    <2>1. StarterInv'
      BY <1>2 DEF TaskEnds, live, StarterInv
    <2>2. WaiterInv'
      BY <1>2 DEF TaskEnds, WaiterInv
    <2> QED
      BY <1>2, <2>1, <2>2 DEF TaskEnds, ExitCancelsToken, StoppingHasOwner
  <1>3. ASSUME NEW new \in ReportedByTasks, TaskReports(t, new) PROVE IInv'
    <2>1. spc \in {"staring", "return", "published"} /\ \A u \in Tasks : tpc[u] # "fresh"
      BY <1>3 DEF TaskReports, StarterInv
    <2>2. /\ new \in {"Staring", "Running", "Stop", "Disabled", "Failed"}
          /\ t \in Threads
          /\ just_change_status(t, new)
      BY <1>3 DEF TaskReports, ReportedByTasks
    <2>3. StarterInv'
      BY <1>3, <2>1 DEF TaskReports, StarterInv
    <2>4. \A w \in Waiters : wpc[w] # "idle" => ~is_active(status')
      BY <2>2, ReportLemma DEF WaiterInv, ReportedByTasks
    <2>5. WaiterInv'
      BY <1>3, <2>1, <2>4 DEF TaskReports, WaiterInv
    <2>6. ExitCancelsToken'
      BY <1>3, <2>1, <2>2, ReportLemma DEF TaskReports, ExitCancelsToken
    <2>7. StoppingHasOwner'
      BY <1>3, <2>2, ReportLemma DEF TaskReports, StoppingHasOwner, ReportedByTasks
    <2>9. TypeOK'
      BY <1>3, <2>2, <2>1, ThreadsDistinct DEF TaskReports, just_change_status
    <2> QED
      BY <2>9, <1>3, <2>2, <2>3, <2>5, <2>6, <2>7, ReportLemma DEF TaskReports
  <1>4. ASSUME NEW u \in Tasks, TaskSpawns(t, u) PROVE IInv'
    <2>1. \A w \in Waiters : wpc[w] \notin {"check", "fail", "done"}
      BY <1>4 DEF TaskSpawns, WaiterInv
    <2>2. StarterInv'
      BY <1>4 DEF TaskSpawns, StarterInv
    <2>3. WaiterInv'
      BY <1>4, <2>1 DEF TaskSpawns, WaiterInv
    <2> QED
      BY <1>4, <2>2, <2>3 DEF TaskSpawns, ExitCancelsToken, StoppingHasOwner
  <1> QED BY <1>1, <1>2, <1>3, <1>4 DEF Task

\* The steps of the death watch keep the inductive invariant.
LEMMA WatchStep == ASSUME IInv, Watch PROVE IInv'
  <1> USE DEF IInv, TypeOK, Written
  <1>1. CASE WatchWakes
    BY <1>1 DEF WatchWakes, TrackerDrained, live, StarterInv, WaiterInv, ExitCancelsToken,
                StoppingHasOwner
  <1>2. CASE WatchReads
    BY <1>2 DEF WatchReads, StarterInv, WaiterInv, ExitCancelsToken, StoppingHasOwner
  <1>3. CASE WatchFails
    <2>1. spc = "published" /\ \A t \in Tasks : tpc[t] # "fresh"
      BY <1>3 DEF WatchFails, StarterInv
    <2>2. Watcher \in Threads /\ just_change_status(Watcher, "Failed")
      BY <1>3 DEF WatchFails
    <2>3. StarterInv'
      BY <1>3, <2>1 DEF WatchFails, StarterInv
    <2>4. WaiterInv'
      BY <1>3, <2>1, <2>2, ReportLemma DEF WatchFails, WaiterInv
    <2>5. ExitCancelsToken' /\ StoppingHasOwner'
      BY <1>3, <2>1, <2>2, ReportLemma DEF WatchFails, ExitCancelsToken, StoppingHasOwner
    <2>9. TypeOK'
      BY <1>3, <2>1, ThreadsDistinct DEF WatchFails, just_change_status
    <2> QED
      BY <2>9, <1>3, <2>2, <2>3, <2>4, <2>5, ReportLemma DEF WatchFails
  <1> QED BY <1>1, <1>2, <1>3 DEF Watch

\* The steps of a wait_stop call keep the inductive invariant.
LEMMA WaitStep == ASSUME IInv, NEW w \in Waiters, Wait(w) PROVE IInv'
  <1> USE DEF IInv, TypeOK, Written
  <1>1. CASE WaitRequests(w)
    <2>1. /\ status' \in ServiceStatus /\ ~is_active(status')
          /\ status' = status \/ status' = "Stopping"
          /\ cancelling' \subseteq Threads /\ cancelling' # {}
          /\ is_stop(status) => status' = status
      BY <1>1 DEF WaitRequests, request_stop
    <2>2. StarterInv'
      BY <1>1, <2>1 DEF WaitRequests, StarterInv
    <2>3. WaiterInv'
      BY <1>1, <2>1 DEF WaitRequests, WaiterInv
    <2>4. StoppingHasOwner'
      BY <1>1 DEF WaitRequests, StoppingHasOwner
    <2>9. TypeOK'
      BY <1>1, <2>1, ThreadsDistinct DEF WaitRequests, request_stop
    <2> QED
      BY <2>9, <1>1, <2>1, <2>2, <2>3, <2>4 DEF WaitRequests, ExitCancelsToken
  <1>2. CASE WaitCloses(w)
    BY <1>2 DEF WaitCloses, StarterInv, WaiterInv, ExitCancelsToken, StoppingHasOwner
  <1>3. CASE WaitWakes(w)
    <2>1. \A t \in Tasks : tpc[t] \in {"none", "done"}
      BY <1>3 DEF WaitWakes, TrackerDrained, live
    <2> QED
      BY <1>3, <2>1 DEF WaitWakes, StarterInv, WaiterInv, ExitCancelsToken, StoppingHasOwner
  <1>4. CASE WaitChecks(w)
    BY <1>4 DEF WaitChecks, StarterInv, WaiterInv, ExitCancelsToken, StoppingHasOwner
  <1>5. CASE WaitFails(w)
    <2>1. /\ spc \in {"published", "placeholder"} /\ ~is_active(status)
          /\ \A t \in Tasks : tpc[t] \in {"none", "done"}
      BY <1>5 DEF WaitFails, WaiterInv
    <2>2. w \in Threads /\ just_change_status(w, "Failed")
      BY <1>5 DEF WaitFails
    <2>3. is_stop(status') /\ (spc = "placeholder" => status' = status)
      BY <2>1, <2>2, ReportLemma DEF StarterInv
    <2>4. StarterInv'
      BY <1>5, <2>1, <2>3 DEF WaitFails, StarterInv
    <2>5. WaiterInv'
      BY <1>5, <2>1, <2>3 DEF WaitFails, WaiterInv
    <2>6. ExitCancelsToken' /\ StoppingHasOwner'
      BY <1>5, <2>2, <2>3, ReportLemma DEF WaitFails, ExitCancelsToken, StoppingHasOwner
    <2>9. TypeOK'
      BY <1>5, <2>1, ThreadsDistinct DEF WaitFails, just_change_status
    <2> QED
      BY <2>9, <1>5, <2>2, <2>4, <2>5, <2>6, ReportLemma DEF WaitFails
  <1> QED BY <1>1, <1>2, <1>3, <1>4, <1>5 DEF Wait

\* Cancelling the token keeps the inductive invariant.
LEMMA CancelStep == ASSUME IInv, NEW th \in Threads, Cancel(th) PROVE IInv'
  BY DEF IInv, TypeOK, Written, Cancel, StarterInv, WaiterInv, ExitCancelsToken, StoppingHasOwner

\* Stuttering keeps it too.
LEMMA StutterStep == ASSUME IInv, UNCHANGED vars PROVE IInv'
  BY DEF IInv, TypeOK, Written, vars, StarterInv, WaiterInv, ExitCancelsToken, StoppingHasOwner

\* The invariant is inductive: one lemma above per group of threads.
LEMMA NextIInv == IInv /\ [Next]_vars => IInv'
  BY StarterStep, TaskStep, WatchStep, WaitStep, CancelStep, StutterStep DEF Next

(***************************************************************************)
(* The inductive invariant holds in every reachable state.                 *)
(***************************************************************************)
THEOREM Invariance == Spec => []IInv
  BY InitIInv, NextIInv, PTL DEF Spec

(***************************************************************************)
(* Type correctness of the status cell, the tracker and the four kinds of  *)
(* threads.                                                                *)
(***************************************************************************)
THEOREM TypeCorrect == Spec => []TypeOK
  BY Invariance, PTL DEF IInv

(***************************************************************************)
(* No write path of ServiceStatusCell can bypass the cancellation.         *)
(***************************************************************************)
THEOREM ExitCancels == Spec => []ExitCancelsToken
  BY Invariance, PTL DEF IInv

(***************************************************************************)
(* wait_stop returns only from a run that is over, for any number of       *)
(* racing callers, tasks and helper tasks.                                 *)
(***************************************************************************)
THEOREM StopIsFinal == Spec => []WaitStopIsFinal
  <1>1. IInv => WaitStopIsFinal
    BY DEF IInv, WaiterInv, WaitStopIsFinal, live
  <1> QED BY <1>1, Invariance, PTL

(***************************************************************************)
(* Every Stopping status has a wait_stop call in progress that resolves    *)
(* it.                                                                     *)
(***************************************************************************)
THEOREM StoppingOwned == Spec => []StoppingHasOwner
  BY Invariance, PTL DEF IInv

\* The four facts together: status cell, token and tracker agree at every step
\* of start, the tasks, the death watch and any number of wait_stop calls.
THEOREM HandleSound == Spec => []HandleInv
  BY TypeCorrect, ExitCancels, StopIsFinal, StoppingOwned, PTL DEF HandleInv

\* No step makes a cancelled run active again.
LEMMA NoResurrectionStep ==
    ASSUME IInv, [Next]_vars
    PROVE  [~ (cancelled /\ ~is_active(status) /\ is_active(status'))]_vars
  <1> SUFFICES ASSUME cancelled, ~is_active(status), is_active(status') PROVE FALSE
    OBVIOUS
  <1>1. CASE Start
    BY <1>1 DEF Start, StartDisabled, StartStaring, StartFailed, StartRunning, SpawnMain,
          SpawnSection, supervise_lifecycle, just_change_status, can_transition_to, IInv, StarterInv
  <1>2. ASSUME NEW t \in Tasks, Task(t) PROVE FALSE
    BY <1>2 DEF Task, TaskBegins, TaskEnds, TaskReports, TaskSpawns, ReportedByTasks,
          just_change_status, can_transition_to, IInv, StarterInv
  <1>3. CASE Watch
    BY <1>3 DEF Watch, WatchWakes, WatchReads, WatchFails, just_change_status, can_transition_to
  <1>4. ASSUME NEW w \in Waiters, Wait(w) PROVE FALSE
    BY <1>4 DEF Wait, WaitRequests, WaitCloses, WaitWakes, WaitChecks, WaitFails,
          request_stop, just_change_status, can_transition_to
  <1>5. ASSUME NEW th \in Threads, Cancel(th) PROVE FALSE
    BY <1>5 DEF Cancel
  <1>6. CASE UNCHANGED vars
    BY <1>6 DEF vars
  <1> QED BY <1>1, <1>2, <1>3, <1>4, <1>5, <1>6 DEF Next

(***************************************************************************)
(* A late report never makes a stopped run active again.                   *)
(***************************************************************************)
THEOREM NeverResurrected == Spec => NoResurrection
  BY Invariance, NoResurrectionStep, PTL DEF Spec, NoResurrection
-----------------------------------------------------------------------------
(***************************************************************************)
(* Refinement: every step of a run is a step of ServiceLifecycle.          *)
(***************************************************************************)
Abstract == Lifecycle!Next \/ UNCHANGED <<phase, busy, answered>>

\* The Starter's steps: idle -> active or over, or a task is added.
LEMMA StarterRefines == ASSUME IInv, Start PROVE Abstract
  <1> USE DEF IInv, TypeOK, phase, busy, answered, live, Abstract, Lifecycle!Next
  <1>0. answered = {} /\ \A w \in Waiters : wpc[w] = "idle" \/ spc \in {"published", "placeholder"}
    BY DEF Start, StartDisabled, StartStaring, StartFailed, StartRunning, SpawnMain,
           SpawnSection, supervise_lifecycle, WaiterInv
  <1>1. CASE StartDisabled
    BY <1>0, <1>1 DEF StartDisabled, just_change_status, can_transition_to, StarterInv, Lifecycle!Start
  <1>2. CASE StartStaring
    BY <1>0, <1>2 DEF StartStaring, just_change_status, can_transition_to, StarterInv, Lifecycle!Start
  <1>3. CASE StartFailed
    BY <1>0, <1>3 DEF StartFailed, just_change_status, can_transition_to, StarterInv, Lifecycle!Finish
  <1>4. CASE StartRunning
    BY <1>0, <1>4 DEF StartRunning, just_change_status, can_transition_to
  <1>5. ASSUME NEW t \in Tasks, SpawnMain(t) PROVE Abstract
    BY <1>0, <1>5 DEF SpawnMain, Lifecycle!TaskStarts
  <1>6. ASSUME NEW t \in Tasks, SpawnSection(t) PROVE Abstract
    BY <1>0, <1>6 DEF SpawnSection, Lifecycle!TaskStarts
  <1>7. CASE supervise_lifecycle
    BY <1>0, <1>7 DEF supervise_lifecycle
  <1> QED BY <1>1, <1>2, <1>3, <1>4, <1>5, <1>6, <1>7 DEF Start

\* A report of a thread that is not a waiter: the run finishes or nothing changes.
LEMMA ReportRefines ==
    ASSUME IInv, NEW th \in Threads \ Waiters, NEW new \in ReportedByTasks,
           just_change_status(th, new), spc \notin {"new", "placeholder"},
           UNCHANGED <<spc, tpc, wpc>>
    PROVE  Abstract
  <1>1. busy' = busy /\ answered' = answered
    BY DEF busy, live, answered, just_change_status
  <1>2. phase' = phase \/ (phase \in {"active", "draining"} /\ phase' = "over")
    BY DEF phase, just_change_status, can_transition_to, ReportedByTasks, IInv, TypeOK
  <1> QED BY <1>1, <1>2 DEF Abstract, Lifecycle!Next, Lifecycle!Finish

\* The tracked tasks' steps.
LEMMA TaskRefines == ASSUME IInv, NEW t \in Tasks, Task(t) PROVE Abstract
  <1>0. t \in Threads \ Waiters
    BY ThreadsDistinct
  <1>1. CASE TaskBegins(t)
    <2>1. status' = status /\ cancelling' = cancelling
      BY <1>1 DEF TaskBegins, StarterInv, IInv, just_change_status, can_transition_to
    <2>2. t \in live /\ t \in live'
      BY <1>1 DEF TaskBegins, live, IInv, TypeOK
    <2> QED BY <1>1, <2>1, <2>2 DEF TaskBegins, phase, busy, answered, Abstract
  <1>2. CASE TaskEnds(t)
    <2>1. busy /\ phase' = phase /\ answered' = answered
      BY <1>2 DEF TaskEnds, busy, phase, answered
    <2> QED BY <2>1 DEF Abstract, Lifecycle!Next, Lifecycle!TasksEnd, busy
  <1>3. ASSUME NEW new \in ReportedByTasks, TaskReports(t, new) PROVE Abstract
    BY <1>0, <1>3, ReportRefines DEF TaskReports, IInv, StarterInv, TypeOK
  <1>4. ASSUME NEW u \in Tasks, TaskSpawns(t, u) PROVE Abstract
    <2>1. t \in live /\ t \in live'
      BY <1>4 DEF TaskSpawns, live, IInv, TypeOK
    <2> QED BY <1>4, <2>1 DEF TaskSpawns, phase, busy, answered, Abstract
  <1> QED BY <1>1, <1>2, <1>3, <1>4 DEF Task

\* The death watch's steps.
LEMMA WatchRefines == ASSUME IInv, Watch PROVE Abstract
  <1>1. CASE WatchWakes \/ WatchReads
    BY <1>1 DEF WatchWakes, WatchReads, phase, busy, live, answered, Abstract
  <1>2. CASE WatchFails
    BY <1>2, ReportRefines, ThreadsDistinct
       DEF WatchFails, IInv, StarterInv, ReportedByTasks
  <1> QED BY <1>1, <1>2 DEF Watch

\* The steps of a wait_stop call.
LEMMA WaitRefines == ASSUME IInv, NEW w \in Waiters, Wait(w) PROVE Abstract
  <1> USE DEF IInv, TypeOK
  <1>1. CASE WaitRequests(w)
    <2>1. busy' = busy /\ answered' = answered
      BY <1>1 DEF WaitRequests, busy, live, answered, request_stop
    <2>2. phase' = phase \/ (phase = "active" /\ phase' = "draining")
      BY <1>1 DEF WaitRequests, phase, request_stop
    <2> QED BY <2>1, <2>2 DEF Abstract, Lifecycle!Next, Lifecycle!Drain
  <1>2. CASE WaitCloses(w) \/ WaitWakes(w)
    BY <1>2 DEF WaitCloses, WaitWakes, phase, busy, live, answered, Abstract
  <1>3. CASE WaitChecks(w)
    <2>1. busy' = busy /\ ~busy /\ phase' = phase
      BY <1>3 DEF WaitChecks, busy, live, phase, WaiterInv
    <2>2. CASE answered' = answered
      BY <2>1, <2>2 DEF Abstract
    <2>3. CASE answered' # answered
      <3>1. answered' = answered \cup {w} /\ is_stop(status)
        BY <1>3, <2>3 DEF WaitChecks, answered
      <3>2. phase = "over"
        BY <1>3, <3>1 DEF WaitChecks, phase, WaiterInv
      <3> QED BY <2>1, <3>1, <3>2 DEF Abstract, Lifecycle!Next, Lifecycle!Answer
    <2> QED BY <2>2, <2>3
  <1>4. CASE WaitFails(w)
    <2>1. busy' = busy /\ ~busy /\ spc' = spc /\ spc # "new" /\ ~is_active(status)
      BY <1>4 DEF WaitFails, busy, live, WaiterInv
    <2>2. CASE status = "Stopping"
      <3>1. phase = "draining" /\ phase' = "over" /\ cancelling' = cancelling \cup {w}
        BY <1>4, <2>1, <2>2 DEF WaitFails, phase, just_change_status, can_transition_to
      <3>2. answered' = answered
        BY <1>4, <3>1 DEF WaitFails, answered
      <3> QED BY <2>1, <3>1, <3>2 DEF Abstract, Lifecycle!Next, Lifecycle!Finish
    <2>3. CASE status # "Stopping"
      <3>1. phase = "over" /\ phase' = "over"
        BY <1>4, <2>1, <2>3 DEF WaitFails, phase, just_change_status, can_transition_to
      <3>2. answered' = answered \/ answered' = answered \cup {w}
        BY <1>4 DEF WaitFails, answered, just_change_status
      <3> QED BY <2>1, <3>1, <3>2 DEF Abstract, Lifecycle!Next, Lifecycle!Answer
    <2> QED BY <2>2, <2>3
  <1> QED BY <1>1, <1>2, <1>3, <1>4 DEF Wait

\* Cancelling: a wait_stop call that marked the run Failed answers after it.
LEMMA CancelRefines == ASSUME IInv, NEW th \in Threads, Cancel(th) PROVE Abstract
  <1>1. phase' = phase /\ busy' = busy
    BY DEF Cancel, phase, busy, live
  <1>2. CASE th \in Waiters /\ wpc[th] = "done"
    <2>1. answered' = answered \cup {th}
      BY <1>2 DEF Cancel, answered
    <2>2. phase = "over" /\ ~busy
      BY <1>2 DEF IInv, WaiterInv, phase, busy, live
    <2> QED BY <1>1, <1>2, <2>1, <2>2 DEF Abstract, Lifecycle!Next, Lifecycle!Answer
  <1>3. CASE ~(th \in Waiters /\ wpc[th] = "done")
    <2>1. answered' = answered
      BY <1>3 DEF Cancel, answered
    <2> QED BY <1>1, <2>1 DEF Abstract
  <1> QED BY <1>2, <1>3

(***************************************************************************)
(* A service run implements ServiceLifecycle: it never goes back, and      *)
(* wait_stop answers only when it is over and empty.                       *)
(***************************************************************************)
THEOREM Refinement == Spec => ImplementsLifecycle
  <1>1. Init => Lifecycle!Init
    BY DEF Init, Lifecycle!Init, phase, busy, live, answered
  <1>2. IInv /\ [Next]_vars => [Lifecycle!Next]_(Lifecycle!vars)
    <2>1. IInv /\ Next => Abstract
      BY StarterRefines, TaskRefines, WatchRefines, WaitRefines, CancelRefines DEF Next
    <2>2. UNCHANGED vars => UNCHANGED <<phase, busy, answered>>
      BY DEF vars, phase, busy, live, answered
    <2> QED BY <2>1, <2>2 DEF Abstract, Lifecycle!vars
  <1> QED BY <1>1, <1>2, Invariance, PTL DEF Spec, ImplementsLifecycle, Lifecycle!Spec
=============================================================================
