---------------------------- MODULE FlowTargets ----------------------------
(***************************************************************************)
(* FlowRuleService and the join of flow configurations with WAN routes:    *)
(* operator calls that store or delete a flow, the observer of WAN route   *)
(* events and the observer of device events, all rewriting the per-flow    *)
(* slots and the match map of the eBPF data plane.                         *)
(*                                                                         *)
(* Nothing serialises the tasks: between the read of the store, the copy   *)
(* of each family's route table and the writes of the maps another task    *)
(* may take any of its steps.  A flow's targets are route owners; weights, *)
(* names, match modes and the LAN cache are left out.                      *)
(***************************************************************************)
EXTENDS Integers, FiniteSets

CONSTANTS
  Rows,          \* database ids of flow configurations
  FlowIds,       \* flow_id values (0 is reserved for the default flow)
  FlowOwners,    \* owners of WAN routes
  Operators,     \* concurrent API calls
  EventRoom,     \* capacity of the WAN route broadcast
  DeviceRoom,    \* capacity of the device broadcast
  MaxChanges     \* bound: changes of flows, routes and devices, and failed reads

ASSUME FlowConstants ==
  /\ 0 \notin FlowIds /\ FlowIds \subseteq Nat /\ Operators \cap {"routes", "devices"} = {}
  /\ EventRoom \in Nat \ {0} /\ DeviceRoom \in Nat \ {0}
  /\ MaxChanges \in Nat

VARIABLES
  flowRow,    \* database: the flow of each row
  flowRoute,  \* ipv4_wan_ifaces / ipv6_wan_ifaces: owners with a route
  slot,       \* eBPF: owners in the WAN slots of each flow id
  match,      \* eBPF: the match map, as [flows, devices] it was built from
  devices,    \* database: version of the enrolled devices
  task,       \* the running tasks: [pc, configs, v4, v6, read]
  owed,       \* route changes whose event is still to be sent
  unread,     \* route events the observer has not received
  lag,        \* the route broadcast has overwritten an unread event
  devUnread, devLost,  \* the same for the device observer; a lag ends it
  tainted,    \* history: flow ids two tasks were rewriting at once
  mcross,     \* history: two rewrites of the match map overlapped
  failed,     \* history: a read of the store failed
  changes

flowVars == << flowRow, flowRoute, slot, match, devices, task, owed, unread, lag, devUnread, devLost,
               tainted, mcross, failed, changes >>

Tasks == Operators \cup {"routes", "devices"}
Families == {"v4", "v6"}
NoFlow == [fid |-> 0, on |-> FALSE, targets |-> {}]
Flow == [fid : FlowIds, on : BOOLEAN, targets : SUBSET FlowOwners]
NoMatch == [flows |-> {}, devices |-> 0]
Idle == [pc |-> "idle", configs |-> {}, v4 |-> {}, v6 |-> {}, read |-> NoMatch]

Stored == {flowRow[r] : r \in Rows} \ {NoFlow}
Enabled(cs) == {c.fid : c \in {d \in cs : d.on}}
IdsOf(cs) == {c.fid : c \in cs}

\* collect_target_refresh_result: the targets of an enabled flow that have a route.
Resolve(c, have) == IF c.on THEN c.targets \cap have ELSE {}

\* apply_*_target_refresh_result: each configuration of the list sets its flow's
\* slots; no targets deletes them.
Apply(table, cs, have) ==
  [i \in FlowIds |-> IF i \in IdsOf(cs) THEN UNION {Resolve(c, have) : c \in {d \in cs : d.fid = i}} ELSE table[i]]

FlowInit ==
  /\ flowRow = [r \in Rows |-> NoFlow] /\ flowRoute = [f \in Families |-> {}]
  /\ slot = [f \in Families |-> [i \in FlowIds |-> {}]]
  /\ match = NoMatch /\ devices = 0
  /\ task = [t \in Tasks |-> CASE t = "routes" -> [Idle EXCEPT !.pc = "mlist"]
                              [] t = "devices" -> [Idle EXCEPT !.pc = "off"] [] OTHER -> Idle]
  /\ owed = 0 /\ unread = 0 /\ lag = FALSE /\ devUnread = 0 /\ devLost = FALSE
  /\ tainted = {} /\ mcross = FALSE /\ failed = FALSE
  /\ changes = 0

database == << flowRow, flowRoute, devices >>
maps == << slot, match >>
channels == << owed, unread, lag, devUnread, devLost >>

\* Another task is about to write what it knows of these flows.
Held(t, ids) == ids \cap UNION {IdsOf(task[u].configs) : u \in Tasks \ {t}}
Cloned(t, ids) ==
  ids \cap UNION {IdsOf(task[u].configs) : u \in {v \in Tasks \ {t} : task[v].pc \in {"clone6", "apply4", "apply6"}}}

Step(t, rec) == task' = [task EXCEPT ![t] = rec]
Go(t, pc) == Step(t, [task[t] EXCEPT !.pc = pc])

\* FlowRuleService::new subscribes to the route events, syncs once and then
\* starts the observers; calls come after that.
Started == task["devices"].pc # "off"
Finish(t) == task' = [u \in Tasks |-> IF u = t \/ task[u].pc = "off" THEN Idle ELSE task[u]]

(***************************************************************************)
(* The caller's transaction.  Nothing keeps two rows from having one       *)
(* flow_id, and a row's flow_id may change: the ids the slots cannot be    *)
(* attributed to are recorded.                                             *)
(***************************************************************************)
SetFlow(t, r, c) ==
  /\ Started /\ task[t].pc = "idle" /\ changes < MaxChanges
  /\ flowRow' = [flowRow EXCEPT ![r] = c]
  /\ Step(t, [Idle EXCEPT !.pc = "mlist", !.configs = {c}])
  /\ tainted' = tainted \cup Held(t, {c.fid, flowRow[r].fid})
                        \cup (IF flowRow[r].fid # c.fid THEN {flowRow[r].fid} \ {0} ELSE {})
                        \cup {i \in {c.fid} : \E s \in Rows \ {r} : flowRow[s].fid = i}
  /\ changes' = changes + 1
  /\ UNCHANGED << flowRoute, devices, maps, channels, mcross, failed >>

\* delete_flow_cascade
DeleteFlow(t, r) ==
  /\ Started /\ task[t].pc = "idle" /\ changes < MaxChanges /\ flowRow[r] # NoFlow
  /\ flowRow' = [flowRow EXCEPT ![r] = NoFlow]
  /\ Step(t, [Idle EXCEPT !.pc = "dmlist", !.configs = {flowRow[r]}])
  /\ tainted' = tainted \cup Held(t, {flowRow[r].fid})
  /\ changes' = changes + 1
  /\ UNCHANGED << flowRoute, devices, maps, channels, mcross, failed >>

(***************************************************************************)
(* refresh_flow_matches, as part of a change ("m"), a deletion ("dm") or   *)
(* on its own ("rm", the device observer).                                 *)
(***************************************************************************)
AfterMatch(t) ==
  CASE task[t].pc \in {"mlist", "mapply"} /\ t = "routes" -> [Idle EXCEPT !.pc = "list"]
    [] task[t].pc \in {"mlist", "mapply"} /\ t # "routes" -> [task[t] EXCEPT !.pc = "clone4"]
    [] task[t].pc \in {"dmlist", "dmapply"} -> [task[t] EXCEPT !.pc = "clear"]
    [] OTHER -> Idle

ListPcs == {"mlist", "dmlist", "rmlist"}
ApplyOf(pc) == CASE pc = "mlist" -> "mapply" [] pc = "dmlist" -> "dmapply" [] OTHER -> "rmapply"

ReadMatches(t) ==
  /\ task[t].pc \in ListPcs
  /\ Step(t, [task[t] EXCEPT !.pc = ApplyOf(task[t].pc),
                             !.read = [flows |-> Enabled(Stored), devices |-> devices]])
  /\ mcross' = (mcross \/ \E u \in Tasks \ {t} : task[u].pc \in {"mapply", "dmapply", "rmapply"})
  /\ UNCHANGED << database, maps, channels, tainted, failed, changes >>

\* The store cannot be read: the match map stays as it is.
ReadMatchesFails(t) ==
  /\ task[t].pc \in ListPcs /\ changes < MaxChanges
  /\ Step(t, AfterMatch(t))
  /\ failed' = TRUE /\ changes' = changes + 1
  /\ UNCHANGED << database, maps, channels, tainted, mcross >>

WriteMatches(t) ==
  /\ task[t].pc \in {"mapply", "dmapply", "rmapply"}
  /\ match' = task[t].read
  /\ Step(t, [AfterMatch(t) EXCEPT !.read = NoMatch])
  /\ UNCHANGED << database, slot, channels, tainted, mcross, failed, changes >>

(***************************************************************************)
(* sync_flow_wan_targets                                                   *)
(***************************************************************************)
\* sync_all_flow_wan_targets: the observer's list of all flows.
ListFlows ==
  /\ task["routes"].pc = "list"
  /\ Step("routes", [Idle EXCEPT !.pc = "clone4", !.configs = Stored])
  /\ UNCHANGED << database, maps, channels, tainted, mcross, failed, changes >>

\* A failed read syncs an empty list: the event has had no effect.
ListFlowsFails ==
  /\ task["routes"].pc = "list" /\ changes < MaxChanges
  /\ Finish("routes")
  /\ failed' = TRUE /\ changes' = changes + 1
  /\ UNCHANGED << database, maps, channels, tainted, mcross >>

Clone4(t) ==
  /\ task[t].pc = "clone4"
  /\ Step(t, [task[t] EXCEPT !.pc = "clone6", !.v4 = flowRoute["v4"]])
  /\ tainted' = tainted \cup Cloned(t, IdsOf(task[t].configs))
  /\ UNCHANGED << database, maps, channels, mcross, failed, changes >>

Clone6(t) ==
  /\ task[t].pc = "clone6"
  /\ Step(t, [task[t] EXCEPT !.pc = "apply4", !.v6 = flowRoute["v6"]])
  /\ UNCHANGED << database, maps, channels, tainted, mcross, failed, changes >>

Apply4(t) ==
  /\ task[t].pc = "apply4"
  /\ slot' = [slot EXCEPT !["v4"] = Apply(slot["v4"], task[t].configs, task[t].v4)]
  /\ Go(t, "apply6")
  /\ UNCHANGED << database, match, channels, tainted, mcross, failed, changes >>

Apply6(t) ==
  /\ task[t].pc = "apply6"
  /\ slot' = [slot EXCEPT !["v6"] = Apply(slot["v6"], task[t].configs, task[t].v6)]
  /\ Finish(t)
  /\ UNCHANGED << database, match, channels, tainted, mcross, failed, changes >>

\* clear_flow_wan_targets
ClearSlots(t) ==
  /\ task[t].pc = "clear"
  /\ slot' = [f \in Families |-> [i \in FlowIds |-> IF i \in IdsOf(task[t].configs) THEN {} ELSE slot[f][i]]]
  /\ Step(t, Idle)
  /\ UNCHANGED << database, match, channels, tainted, mcross, failed, changes >>

(***************************************************************************)
(* Routes and devices change; their events reach the observers.            *)
(***************************************************************************)
SetRoutes(f, s) ==
  /\ changes < MaxChanges /\ s # flowRoute[f]
  /\ flowRoute' = [flowRoute EXCEPT ![f] = s]
  /\ owed' = owed + 1 /\ changes' = changes + 1
  /\ UNCHANGED << flowRow, devices, maps, task, unread, lag, devUnread, devLost,
                  tainted, mcross, failed >>

\* notify_wan_route_changed
SendRouteEvent ==
  /\ owed > 0
  /\ owed' = owed - 1
  /\ unread' = IF unread = EventRoom THEN unread ELSE unread + 1
  /\ lag' = (lag \/ unread = EventRoom)
  /\ UNCHANGED << database, maps, task, devUnread, devLost, tainted, mcross, failed, changes >>

\* Mutant: a lag is logged and nothing else.
RouteEvent_skip ==
  /\ task["routes"].pc = "idle" /\ (lag \/ unread > 0)
  /\ IF lag THEN lag' = FALSE /\ unread' = 0 /\ task' = task
     ELSE lag' = FALSE /\ unread' = unread - 1 /\ Go("routes", "list")
  /\ UNCHANGED << database, maps, owed, devUnread, devLost, tainted, mcross, failed, changes >>

\* The observer receives an event, or hears that it missed some: either way it
\* recomputes every flow.
RouteEvent ==
  /\ task["routes"].pc = "idle" /\ (lag \/ unread > 0)
  /\ lag' = FALSE /\ unread' = IF lag THEN unread ELSE unread - 1
  /\ Go("routes", "list")
  /\ UNCHANGED << database, maps, owed, devUnread, devLost, tainted, mcross, failed, changes >>

ChangeDevices ==
  /\ changes < MaxChanges
  /\ devices' = devices + 1 /\ changes' = changes + 1
  /\ devLost' = (devLost \/ devUnread = DeviceRoom)
  /\ devUnread' = IF devUnread = DeviceRoom THEN devUnread ELSE devUnread + 1
  /\ UNCHANGED << flowRow, flowRoute, maps, task, owed, unread, lag, tainted, mcross, failed >>

\* The device observer; its loop ends when it has missed an event.
DeviceEvent ==
  /\ task["devices"].pc = "idle" /\ devUnread > 0 /\ ~devLost
  /\ devUnread' = devUnread - 1
  /\ Go("devices", "rmlist")
  /\ UNCHANGED << database, maps, owed, unread, lag, devLost, tainted, mcross, failed, changes >>

TaskStep(t) ==
  ReadMatches(t) \/ WriteMatches(t) \/ Clone4(t) \/ Clone6(t) \/ Apply4(t) \/ Apply6(t) \/ ClearSlots(t)

FlowNext ==
  \/ \E t \in Operators, r \in Rows : DeleteFlow(t, r) \/ \E c \in Flow : SetFlow(t, r, c)
  \/ \E t \in Tasks : TaskStep(t) \/ ReadMatchesFails(t)
  \/ ListFlows \/ ListFlowsFails \/ RouteEvent \/ DeviceEvent \/ ChangeDevices \/ SendRouteEvent
  \/ \E f \in Families, s \in SUBSET FlowOwners : SetRoutes(f, s)

FlowSpec == FlowInit /\ [][FlowNext]_flowVars

(***************************************************************************)
(* Properties                                                              *)
(***************************************************************************)
\* Types of the store, the maps, the tasks and the channels.
FlowTypeOK ==
  /\ flowRow \in [Rows -> Flow \cup {NoFlow}] /\ flowRoute \in [Families -> SUBSET FlowOwners]
  /\ slot \in [Families -> [FlowIds -> SUBSET FlowOwners]]
  /\ match \in [flows : SUBSET FlowIds, devices : 0 .. MaxChanges] /\ devices \in 0 .. MaxChanges
  /\ \A t \in Tasks :
       /\ task[t].pc \in {"off", "idle", "mlist", "mapply", "dmlist", "dmapply", "rmlist", "rmapply",
                          "list", "clone4", "clone6", "apply4", "apply6", "clear"}
       /\ task[t].configs \subseteq Flow /\ task[t].v4 \subseteq FlowOwners /\ task[t].v6 \subseteq FlowOwners
       /\ task[t].pc = "idle" => task[t] = Idle
  /\ owed \in 0 .. MaxChanges /\ unread \in 0 .. EventRoom /\ devUnread \in 0 .. DeviceRoom
  /\ tainted \subseteq FlowIds

NothingRuns == \A t \in Tasks : task[t].pc = "idle"
RoutesHeard == owed = 0 /\ unread = 0 /\ ~lag

\* Once every event has been handled and nobody is at work, the slots of each flow
\* are what its stored configuration and the routes of the family say (none for a
\* flow that is not stored), whatever changed during the syncs, except for flows
\* that two tasks rewrote at the same time, that exchanged their flow_id or share it.
SlotsFollow ==
  NothingRuns /\ RoutesHeard /\ ~failed =>
    \A f \in Families, i \in FlowIds \ tainted :
      slot[f][i] = UNION {Resolve(c, flowRoute[f]) : c \in {d \in Stored : d.fid = i}}

\* The match map then holds the enabled flows with the devices as they are, unless
\* rewrites of it overlapped or the device observer has ended.
MatchesFollow ==
  NothingRuns /\ devUnread = 0 /\ ~devLost /\ ~mcross /\ ~failed =>
    match = [flows |-> Enabled(Stored), devices |-> devices]

\* Once nobody is at work and every event has been handled, slots and match
\* map are those of the stored flows, the devices and the routes, also after a
\* receiver lagged, with the exceptions of the parts (overlapping rewrites, a
\* failed read, an observer that has ended).
FlowInv == FlowTypeOK /\ SlotsFollow /\ MatchesFollow

\* The same without the exceptions for tasks that overlap.
SlotsAlwaysFollow ==
  NothingRuns /\ RoutesHeard /\ ~failed =>
    \A f \in Families, r \in Rows :
      flowRow[r] # NoFlow => slot[f][flowRow[r].fid] = Resolve(flowRow[r], flowRoute[f])
=============================================================================
