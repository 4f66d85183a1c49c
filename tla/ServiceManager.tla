---------------------------- MODULE ServiceManager ----------------------------
(***************************************************************************)
(* landscape-common/src/service/manager.rs for one service key: the        *)
(* registry entry, the supervisor tasks that consume the entry's config    *)
(* channel (capacity 1), the service runs they start, and the calls        *)
(* deliver_bounded, update_service, stop_service and stop_all.             *)
(*                                                                         *)
(* Entries of different keys share nothing but the registry's RwLock,      *)
(* which no call holds across an await, so one key is enough.  A run is    *)
(* seen through what ServiceLifecycle promises of it: wait_stop on it      *)
(* ends when it is over.  Identifiers of supervisors and runs that nobody  *)
(* refers to any more are used again.                                      *)
(***************************************************************************)
EXTENDS Naturals, FiniteSets

CONSTANTS Callers,      \* the tasks that call the manager
          MaxSups,      \* supervisor tasks are 1..MaxSups; 0 is "none"
          MaxRuns,      \* ServiceHandles are 1..MaxRuns; 0 is "none"
          MaxVersion    \* config versions are 1..MaxVersion; 0 is "none"

ASSUME ManagerAssumption ==
    /\ IsFiniteSet(Callers)
    /\ MaxSups \in Nat \ {0} /\ MaxRuns \in Nat \ {0} /\ MaxVersion \in Nat \ {0}

VARIABLES entry,        \* services[key]: the published handle and the sender
          sup,          \* the supervisor tasks
          run,          \* the service runs
          call          \* the manager calls in progress

managerVars == <<entry, sup, run, call>>

Versions == 0..MaxVersion
Sups == 1..MaxSups
Runs == 1..MaxRuns
NoSup == 0
NoRun == 0

\* services has no entry for the key.
NoEntry == [run |-> NoRun, sup |-> NoSup]

\* A caller between two calls.  sup is the sender it has cloned, run the handle
\* it waits for, target the supervisor whose entry it removed (a history field).
Idle == [pc |-> "idle", cfg |-> 0, base |-> 0, sup |-> NoSup, run |-> NoRun,
         target |-> NoSup]

\* A supervisor task that has ended: its receiver is dropped.
Gone == [pc |-> "gone", buf |-> 0, cfg |-> 0, run |-> NoRun]

\* Mutant: the supervisor keeps a sender of its own channel alive.
NoSender_ownclone(s) == FALSE

NoSender(s) == /\ entry.sup # s
               /\ \A c \in Callers : call[c].sup # s

FreeSups == {s \in Sups : /\ sup[s].pc = "gone" /\ NoSender(s)
                           /\ \A c \in Callers : call[c].target # s}

FreeRuns == {r \in Runs : /\ run[r].phase = "over"
                          /\ entry.run # r
                          /\ \A s \in Sups : sup[s].run # r
                          /\ \A c \in Callers : call[c].run # r}

\* wait_stop begins: an active run is asked to stop.
\* Mutant: the handle is waited for without asking it to stop.
AfterRequest_none(r) == run

AfterRequest(r) ==
    [run EXCEPT ![r].phase = IF @ = "active" THEN "draining" ELSE @]

\* A run that is over, and one that start() is building for supervisor s.
Over == [phase |-> "over", sup |-> NoSup]
Starting(s) == [phase |-> "starting", sup |-> s]

\* One of the identifiers that nobody refers to.
NextFree(ids) == CHOOSE i \in ids : TRUE

Finish(c) == call' = [call EXCEPT ![c] = Idle]

(***************************************************************************)
(* The calls.                                                              *)
(***************************************************************************)

\* The insertion replaces an entry that is already there, and with it drops
\* the sender of that entry.
spawn_service(c) ==
    /\ call[c].pc = "spawn"
    /\ FreeSups # {} /\ FreeRuns # {}
    /\ LET s == NextFree(FreeSups)
           r == NextFree(FreeRuns)
       IN  /\ entry' = [run |-> r, sup |-> s]
           /\ sup' = [sup EXCEPT ![s] = [pc |-> "recv", buf |-> call[c].cfg, cfg |-> 0, run |-> r]]
    /\ Finish(c)
    /\ UNCHANGED run

\* Mutant: a config is refused while the service is running.
update_service_ifdead(c) ==
    /\ call[c].pc = "update"
    /\ IF entry = NoEntry
       THEN /\ call' = [call EXCEPT ![c].pc = "spawn"]
            /\ UNCHANGED sup
       ELSE /\ sup' = IF run[entry.run].phase = "over" /\ sup[entry.sup].buf = 0
                      THEN [sup EXCEPT ![entry.sup].buf = call[c].cfg] ELSE sup
            /\ Finish(c)
    /\ UNCHANGED <<entry, run>>

\* try_send under the read lock: a full or a closed channel drops the config.
update_service(c) ==
    /\ call[c].pc = "update"
    /\ IF entry = NoEntry
       THEN /\ call' = [call EXCEPT ![c].pc = "spawn"]
            /\ UNCHANGED sup
       ELSE /\ sup' = IF sup[entry.sup].pc # "gone" /\ sup[entry.sup].buf = 0
                      THEN [sup EXCEPT ![entry.sup].buf = call[c].cfg] ELSE sup
            /\ Finish(c)
    /\ UNCHANGED <<entry, run>>

\* deliver_bounded, first half: clone the sender under the read lock.
DeliverLooksUp(c) ==
    /\ call[c].pc = "deliver"
    /\ call' = IF entry = NoEntry
               THEN [call EXCEPT ![c].pc = "spawn"]
               ELSE [call EXCEPT ![c].pc = "send", ![c].sup = entry.sup]
    /\ UNCHANGED <<entry, sup, run>>

\* deliver_bounded, second half: wait for capacity on the cloned sender.
DeliverSends(c) ==
    /\ call[c].pc = "send"
    /\ sup[call[c].sup].pc # "gone"
    /\ sup[call[c].sup].buf = 0
    /\ sup' = [sup EXCEPT ![call[c].sup].buf = call[c].cfg]
    /\ Finish(c)
    /\ UNCHANGED <<entry, run>>

DeliverFindsClosed(c) ==
    /\ call[c].pc = "send"
    /\ sup[call[c].sup].pc = "gone"
    /\ call' = [call EXCEPT ![c].pc = "spawn", ![c].sup = NoSup]
    /\ UNCHANGED <<entry, sup, run>>

DeliverTimesOut(c) ==
    /\ call[c].pc = "send"
    /\ sup[call[c].sup].pc # "gone"
    /\ sup[call[c].sup].buf # 0
    /\ Finish(c)
    /\ UNCHANGED <<entry, sup, run>>

\* stop_service, and stop_all for this key: remove the entry, then wait_stop
\* on the handle it held.
StopRemoves(c) ==
    /\ call[c].pc = "stop"
    /\ IF entry = NoEntry
       THEN Finish(c) /\ UNCHANGED <<entry, run>>
       ELSE /\ entry' = NoEntry
            /\ run' = AfterRequest(entry.run)
            /\ call' = [call EXCEPT ![c].pc = "wait", ![c].run = entry.run,
                                   ![c].target = entry.sup]
    /\ UNCHANGED sup

StopReturns(c) ==
    /\ call[c].pc = "wait"
    /\ run[call[c].run].phase = "over"
    /\ Finish(c)
    /\ UNCHANGED <<entry, sup, run>>

(***************************************************************************)
(* The supervisor task.                                                    *)
(***************************************************************************)

\* rx.recv() returns a config; the current run is asked to stop.
SupReceives(s) ==
    /\ sup[s].pc = "recv" /\ sup[s].buf # 0
    /\ sup' = [sup EXCEPT ![s].pc = "stop", ![s].buf = 0, ![s].cfg = sup[s].buf]
    /\ run' = AfterRequest(sup[s].run)
    /\ UNCHANGED <<entry, call>>

\* Its wait_stop has returned: starter.start(config) begins a new run.
SupStarts(s) ==
    /\ sup[s].pc = "stop"
    /\ run[sup[s].run].phase = "over"
    /\ FreeRuns # {}
    /\ LET r == NextFree(FreeRuns)
       IN  /\ sup' = [sup EXCEPT ![s].pc = "start", ![s].run = r]
           /\ run' = [run EXCEPT ![r] = Starting(s)]
    /\ UNCHANGED <<entry, call>>

\* start() returns a run that is active, or already over (Disabled, Failed).
StartReturns(s) ==
    /\ sup[s].pc = "start"
    /\ \/ run' = [run EXCEPT ![sup[s].run].phase = "active"]
       \/ run' = [run EXCEPT ![sup[s].run] = Over]
    /\ sup' = [sup EXCEPT ![s].pc = "register"]
    /\ UNCHANGED <<entry, call>>

\* Mutant: a start that failed also ends the supervisor loop.
SupRegisters_failfast(s) ==
    /\ sup[s].pc = "register"
    /\ IF entry # NoEntry /\ run[sup[s].run].phase # "over"
       THEN /\ entry' = [entry EXCEPT !.run = sup[s].run]
            /\ sup' = [sup EXCEPT ![s].pc = "recv"]
            /\ UNCHANGED run
       ELSE /\ sup' = [sup EXCEPT ![s].pc = "close"]
            /\ run' = AfterRequest(sup[s].run)
            /\ UNCHANGED entry
    /\ UNCHANGED call

\* Publish the handle in whatever entry the key has now, or leave the loop.
SupRegisters(s) ==
    /\ sup[s].pc = "register"
    /\ IF entry # NoEntry
       THEN /\ entry' = [entry EXCEPT !.run = sup[s].run]
            /\ sup' = [sup EXCEPT ![s].pc = "recv"]
            /\ UNCHANGED run
       ELSE /\ sup' = [sup EXCEPT ![s].pc = "close"]
            /\ run' = AfterRequest(sup[s].run)
            /\ UNCHANGED entry
    /\ UNCHANGED call

\* Mutant: the loop ends without stopping the run.
SupFindsClosed_leak(s) ==
    /\ sup[s].pc = "recv" /\ sup[s].buf = 0
    /\ NoSender(s)
    /\ sup' = [sup EXCEPT ![s] = Gone]
    /\ UNCHANGED <<entry, run, call>>

\* rx.recv() returns None: the channel is empty and has no sender.
SupFindsClosed(s) ==
    /\ sup[s].pc = "recv" /\ sup[s].buf = 0
    /\ NoSender(s)
    /\ sup' = [sup EXCEPT ![s].pc = "close"]
    /\ run' = AfterRequest(sup[s].run)
    /\ UNCHANGED <<entry, call>>

\* The last wait_stop has returned: the task ends and drops the receiver,
\* with whatever config is still in the channel.
SupEnds(s) ==
    /\ sup[s].pc = "close"
    /\ run[sup[s].run].phase = "over"
    /\ sup' = [sup EXCEPT ![s] = Gone]
    /\ UNCHANGED <<entry, run, call>>

(***************************************************************************)
(* The runs (ServiceHandle): a run asked to stop ends, an active one may.  *)
(***************************************************************************)
RunStops(r) ==
    /\ run[r].phase = "draining"
    /\ run' = [run EXCEPT ![r] = Over]
    /\ UNCHANGED <<entry, sup, call>>

RunDies(r) ==
    /\ run[r].phase = "active"
    /\ run' = [run EXCEPT ![r] = Over]
    /\ UNCHANGED <<entry, sup, call>>

Supervisor(s) == SupReceives(s) \/ SupStarts(s) \/ StartReturns(s) \/ SupRegisters(s)
                 \/ SupFindsClosed(s) \/ SupEnds(s)

=============================================================================
