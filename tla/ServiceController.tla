-------------------------- MODULE ServiceController --------------------------
(***************************************************************************)
(* landscape-common/src/service/controller.rs over ServiceManager: the     *)
(* config store of one service key, the persist-first pipeline             *)
(* handle_service_config, delete_and_stop_service, the triggers that       *)
(* replay the stored config (interface-up observers, refresh calls), the   *)
(* shutdown and the restart of the process.                                *)
(*                                                                         *)
(* A config is its version: update_at, which StoreWriter makes strictly    *)
(* increasing.  0 is "no row".                                             *)
(***************************************************************************)
EXTENDS ServiceManager

CONSTANTS Ops           \* the operations the callers may begin

ASSUME OpsAssumption ==
    Ops \subseteq {"set", "delete", "trigger", "stop_all", "timeout", "restart"}

VARIABLES store,        \* the row of this key
          clock         \* the last version written

vars == <<entry, sup, run, call, store, clock>>

(***************************************************************************)
(* handle_service_config: a client edits the row it read, the optimistic   *)
(* lock compares update_at, and only a saved config is delivered.          *)
(***************************************************************************)
SetBegins(c) ==
    /\ "set" \in Ops
    /\ call[c].pc = "idle"
    /\ clock + Cardinality({d \in Callers : call[d].pc = "persist"}) < MaxVersion
    /\ call' = [call EXCEPT ![c].pc = "persist", ![c].base = store]
    /\ UNCHANGED <<entry, sup, run, store, clock>>

\* An insert (no row) is not checked; an update with a stale version is a
\* Conflict with no effect.
checked_upsert(c) ==
    /\ call[c].pc = "persist"
    /\ IF store # 0 /\ store # call[c].base
       THEN Finish(c) /\ UNCHANGED <<store, clock>>
       ELSE /\ clock' = clock + 1
            /\ store' = clock + 1
            /\ call' = [call EXCEPT ![c] = [Idle EXCEPT !.pc = "deliver", !.cfg = clock + 1]]
    /\ UNCHANGED <<entry, sup, run>>

\* delete_and_stop_service: nothing happens when the row is missing.
delete_and_get(c) ==
    /\ "delete" \in Ops
    /\ call[c].pc = "idle"
    /\ store # 0
    /\ store' = 0
    /\ call' = [call EXCEPT ![c].pc = "stop"]
    /\ UNCHANGED <<entry, sup, run, clock>>

\* An observer or refresh_iface_service reads the row, then calls update_service.
TriggerReads(c) ==
    /\ "trigger" \in Ops
    /\ call[c].pc = "idle"
    /\ store # 0
    /\ call' = [call EXCEPT ![c].pc = "update", ![c].cfg = store]
    /\ UNCHANGED <<entry, sup, run, store, clock>>

stop_all(c) ==
    /\ "stop_all" \in Ops
    /\ call[c].pc = "idle"
    /\ call' = [call EXCEPT ![c].pc = "stop"]
    /\ UNCHANGED <<entry, sup, run, store, clock>>

Timeout(c) == "timeout" \in Ops /\ DeliverTimesOut(c)

(***************************************************************************)
(* ServiceManager::init: the stored config, if any, is spawned.            *)
(***************************************************************************)
BootEntry(st) == IF st = 0 THEN NoEntry ELSE [run |-> 1, sup |-> 1]

BootSup(st) ==
    [s \in Sups |-> IF st = 0 \/ s # 1 THEN Gone
                    ELSE [pc |-> "recv", buf |-> st, cfg |-> 0, run |-> 1]]

Init ==
    /\ store \in {0, 1} /\ clock = store
    /\ entry = BootEntry(store) /\ sup = BootSup(store)
    /\ run = [r \in Runs |-> Over]
    /\ call = [c \in Callers |-> Idle]

\* The process is killed and started again: only the store survives.
Restart ==
    /\ "restart" \in Ops
    /\ entry' = BootEntry(store) /\ sup' = BootSup(store)
    /\ run' = [r \in Runs |-> Over]
    /\ call' = [c \in Callers |-> Idle]
    /\ UNCHANGED <<store, clock>>

ManagerCall(c) ==
    /\ \/ spawn_service(c) \/ update_service(c) \/ DeliverLooksUp(c) \/ DeliverSends(c)
       \/ DeliverFindsClosed(c) \/ StopRemoves(c) \/ StopReturns(c) \/ Timeout(c)
    /\ UNCHANGED <<store, clock>>

Begin(c) == SetBegins(c) \/ delete_and_get(c) \/ TriggerReads(c) \/ stop_all(c)

Background ==
    /\ \/ \E s \in Sups : Supervisor(s)
       \/ \E r \in Runs : RunStops(r) \/ RunDies(r)
    /\ UNCHANGED <<store, clock>>

Next == \/ \E c \in Callers : Begin(c) \/ checked_upsert(c) \/ ManagerCall(c)
        \/ Background
        \/ Restart

Spec == Init /\ [][Next]_vars

(***************************************************************************)
(* Fairness: tokio polls every supervisor and every call in progress, and  *)
(* a run that was asked to stop ends (ServiceHandle!WaitStopReturns).      *)
(***************************************************************************)
Progress(c) == checked_upsert(c) \/ ManagerCall(c)

Fairness ==
    /\ \A c \in Callers : WF_vars(Progress(c))
    /\ \A s \in Sups : WF_vars(Supervisor(s) /\ UNCHANGED <<store, clock>>)
    /\ \A r \in Runs : WF_vars(RunStops(r) /\ UNCHANGED <<store, clock>>)

FairSpec == Spec /\ Fairness

-----------------------------------------------------------------------------

TypeOK ==
    /\ entry \in [run : Runs, sup : Sups] \cup {NoEntry}
    /\ sup \in [Sups -> [pc : {"recv", "stop", "start", "register", "close", "gone"},
                        buf : Versions, cfg : Versions, run : Runs \cup {NoRun}]]
    /\ run \in [Runs -> [phase : {"starting", "active", "draining", "over"},
                        sup : Sups \cup {NoSup}]]
    /\ call \in [Callers -> [pc : {"idle", "persist", "deliver", "send", "spawn", "update",
                                  "stop", "wait"},
                            cfg : Versions, base : Versions, sup : Sups \cup {NoSup},
                            run : Runs \cup {NoRun}, target : Sups \cup {NoSup}]]
    /\ store \in Versions /\ clock \in Versions

Alive(r) == run[r].phase # "over"

(***************************************************************************)
(* A supervisor never has two runs at once: the previous run is over, with *)
(* all of its tasks, before start() is called for the next config.         *)
(***************************************************************************)
StopBeforeStart ==
    \A q, r \in Runs : Alive(q) /\ Alive(r) /\ run[q].sup = run[r].sup => q = r

(***************************************************************************)
(* The registry never publishes a dead channel: the supervisor behind the  *)
(* entry is consuming it, whatever entries were removed and created while  *)
(* other supervisors were inside start().                                  *)
(***************************************************************************)
EntryIsServed ==
    entry # NoEntry => sup[entry.sup].pc \notin {"close", "gone"}

\* Whatever the callers race: a supervisor never starts a run before its
\* previous one is over, and the registry never holds the channel of a
\* supervisor that has left its loop, so that spawn_service, update_service
\* and deliver_bounded always reach somebody.
ManagerInv == TypeOK /\ StopBeforeStart /\ EntryIsServed

\* Nothing is in progress: every call has returned and every supervisor waits
\* for a config on a channel that still has a sender.
Quiescent ==
    /\ \A c \in Callers : call[c].pc = "idle"
    /\ \A s \in Sups : sup[s].pc = "gone" \/ (sup[s].pc = "recv" /\ sup[s].buf = 0 /\ ~NoSender(s))

(***************************************************************************)
(* No run leaks: once nothing is in progress, the only run that may be     *)
(* alive is the one of the supervisor behind the registry entry, even      *)
(* after double creations and removals during start().                     *)
(***************************************************************************)
NoLeakedRun ==
    Quiescent => \A r \in Runs : Alive(r) => entry # NoEntry /\ sup[entry.sup].run = r

(***************************************************************************)
(* The runtime follows the store: once nothing is in progress and no       *)
(* delivery has been given up, the supervisor behind the entry was last    *)
(* given the stored config.                                                *)
(***************************************************************************)
RuntimeIsStored ==
    Quiescent /\ store # 0 => entry # NoEntry /\ sup[entry.sup].cfg = store

(***************************************************************************)
(* A deleted config leaves nothing running.                                *)
(***************************************************************************)
DeletedMeansStopped ==
    Quiescent /\ store = 0 => \A r \in Runs : ~Alive(r)

(***************************************************************************)
(* get_all_status shows the service that runs: once nothing is in          *)
(* progress, the published handle is the current run of the entry's        *)
(* supervisor.                                                             *)
(***************************************************************************)
RegistryShowsRuntime ==
    Quiescent /\ entry # NoEntry => entry.run = sup[entry.sup].run

(***************************************************************************)
(* stop_service stops the service: when it returns, no run started by the  *)
(* supervisor it unregistered is alive.                                    *)
(***************************************************************************)
StopIsComplete ==
    [][\A c \in Callers : StopReturns(c) =>
          \A r \in Runs : Alive(r) => run[r].sup # call[c].target]_vars

(***************************************************************************)
(* Every call returns: nobody waits for ever for a run or for room in the  *)
(* channel, also when the supervisor is busy with the next start().        *)
(***************************************************************************)
CallsReturn == \A c \in Callers : (call[c].pc # "idle") ~> (call[c].pc = "idle")

(***************************************************************************)
(* A supervisor whose entry was removed or replaced ends.                  *)
(***************************************************************************)
UnregisteredEnds ==
    \A s \in Sups : (entry.sup # s) ~> (sup[s].pc = "gone" \/ entry.sup = s)

(***************************************************************************)
(* The convergence deliver_bounded promises: while triggers keep coming, a *)
(* dropped, timed-out or overtaken delivery does not leave the service on  *)
(* an old config for good.                                                 *)
(***************************************************************************)
TriggerSpec == FairSpec /\ \A c \in Callers : WF_vars(TriggerReads(c))

ConvergesOnTrigger ==
    <>[](store # 0 => entry # NoEntry /\ sup[entry.sup].cfg = store)
=============================================================================
