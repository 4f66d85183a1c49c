# Landscape: TLA+ models, checks and proofs

Landscape turns a Linux machine into a router. Its control plane is a set of
tokio tasks: every configurable function (DHCP client, PPPoE, NAT, firewall, LAN
DHCP server, DDNS ...) is a *service* that is started from a stored
configuration, restarted when the configuration changes and stopped when it is
deleted; the data plane is a set of eBPF programs that those services load and
feed. This directory models the parts of the control plane in which several
tasks, timers, messages or failures have to agree.

Paths are relative to the repository root (`src/` here). `PROJECT.json` gives
the source lines of every definition, the runs, the mutants and the hazards.

Contents: 1 Inventory, 2 Modules, 3 Service framework, 4 DHCPv4 client,
5 WAN link, 6 WAN routing, 7 PPPoE client, 8 IPv6 prefixes, 9 LAN address
servers and DNS, 10 Control plane, 11 Runs, 12 Proofs, 13 Findings and observations,
14 Plan, 15 Not modelled.

## 1. Inventory

| Component | State | Operations | Talks to | Hard part | Correct when |
|---|---|---|---|---|---|
| `ServiceHandle` (`landscape-common/src/service/mod.rs`) | status behind an RwLock, stop token, task tracker | `just_change_status`, `request_stop`, `supervise_lifecycle`, `wait_stop` | its tasks, the manager | status write and `cancel()` are two steps; tasks die silently | an exit status cancels the token; `wait_stop` returns only from a finished run; no resurrection |
| `ServiceManager` (`service/manager.rs`) | registry of handle and sender per key; one supervisor task per entry | `spawn_service`, `deliver_bounded`, `update_service`, `stop_service`, `stop_all` | handles, controller | the registry lock is not held across awaits; channel of one slot; delivery timeout | one run per supervisor; no dead entry; no leaked run; calls return |
| `ConfigStoreServiceController` (`service/controller.rs`) | the stored row | `handle_service_config`, `delete_and_stop_service`, triggers | store, manager, observers | persist and deliver are two awaits | the runtime settles on the store |
| DHCPv4 client (`landscape/src/wan_service/dhcpv4_client`) | machine state, timer, lease, host configuration | timers, OFFER/ACK/NAK, stop | servers, kernel, route service, WAN link session | lossy network, timers against lease times, partial host changes | the host shows exactly the lease; nothing outlives it |
| WAN link (`landscape/src/wan_link_service`) | carrier, session and epoch; configuration watch; tag broadcast; one run per section | environment task, v4 supervisor, five dependent supervisors | kernel link events, v4 runs, sections, controller | readers of watches and of a lossy broadcast; restarts during restarts | sections run the stored configuration on the current session |
| WAN routes (`landscape-core/src/route/wan.rs`) | routes per owner and family, default slot of the data plane, doorbell, cache of the kernel's default | insert, remove, refresh, kernel reconcile loop | WAN link, PD client, Docker, eBPF maps, netlink | read under a lock, write after it; `ip` fails | slot and kernel default follow the routes |
| WAN health (`landscape-common/src/wan_link/health.rs`, `wan_link_service/health_check.rs`, `landscape-core/src/route/health.rs`) | evaluator counters, verdict table, flip events | probe rounds, blind rounds, clear | targets, route service | rounds without evidence; the route service clears what the section pushes | verdicts are debounced, none is left, events add up |
| PPPoE client (`landscape/src/wan_service/pppoe_client`) | dial phase, redial counter, timers, session handle | discovery, LCP, auth, NCP, keepalive, hang-up | access concentrator, WAN link, host | failure in each phase; a peer that answers anything | the host shows exactly the session |
| PD client (`landscape/src/wan_service/ipv6pd_client`), prefix map (`landscape-core/src/pd_prefix`) | machine state, lease, timer, host configuration, map | Solicit to Rebind, expiry, stop | servers, WAN link, route service, event hub | timers against lifetimes; several awaits per change | the map names a usable prefix that is still valid |
| Event hub (`landscape-common/src/event/hub`) | a bounded queue and a broadcast per topic | forward | everybody | lag | what is lost is made up for |
| LAN IPv6 service (`landscape/src/lan_service/lan_ipv6_*`) | subnets, routes; lease tables for addresses and prefixes | prefix changes, DHCPv6 messages, SLAAC, expiry, device events | hub, prefix map, LAN clients, device store | five tables and a renumbering parent | the LAN follows the map; one owner per suffix and slot |
| LAN DHCPv4 server (`landscape/src/lan_service/lan_dhcp4_*`) | four tables: allocated, offered, static bindings, owners | offer, request, decline, release, expiry, device events | LAN clients, device store | the tables must agree after any sequence | one owner per address; a search for an address ends |
| Flow rules (`landscape/src/flow`, `landscape-core/src/route/flow_target.rs`) | rows, slots per flow and family, match map | set, delete, route and device observers | WAN routes, devices, eBPF maps | nothing serialises the syncs | slots follow rows and routes |
| Store writer (`landscape-database/src/writer.rs`) | rows with `update_at` | checked and blind upserts, batches, deletes, retry | SQLite | optimistic lock; retried commits | no lost update, no half batch |
| DDNS (`landscape/src/ddns`) | task registry, job runtimes | triggers, reconcile loop, clean-up, manual sync and cancel | address observers, provider | rcu closures run more than once | one task per job; the published address is the current one |
| DNS upstream (`landscape-dns/src/connection/upstream`) | pooled connections, dial gates, failure streak and offline flag | legs that borrow, dial, race and retire; scale-up, warm-up, maintenance; attempts, selection, probes | DNS servers, the resolver | legs are aborted wherever they await; locks are held for one step | the cap holds; what is dialled is closed; the best outcome is reported; offline upstreams are probed |
| pppd, DNS servers, geo data, certificates, gateway, Docker, metrics, web server, eBPF | see section 15 | | | | |

Calls go controller → manager → supervisor → `start()`; everything between tasks
of a service goes through channels: an mpsc of capacity 1 per registry entry,
`watch` channels (configuration, link state: only the last value is kept), and
`broadcast` channels (section tags, interface events: bounded, a slow receiver
gets `Lagged`). The store is the only state that survives the process.

The hazards list of `PROJECT.json` names, line by line, what these designs are
exposed to; each property below is aimed at one or several of them.

## 2. Modules

| Module | Models | Uses |
|---|---|---|
| `ServiceLifecycle` | what a holder of a service run may rely on (abstract) | |
| `ServiceHandle` | `service/mod.rs`: cell, token, tracker, death watch, `wait_stop` | instance of `ServiceLifecycle` |
| `ServiceManager` | `service/manager.rs` for one key | runs seen as `ServiceLifecycle` promises |
| `ServiceController` | `service/controller.rs`, the store, triggers, shutdown, restart | extends `ServiceManager` |
| `DhcpV4Client` | `dhcpv4_client/{fsm,driver,system}.rs` | |
| `WanLink` | `wan_link_service/{mod,v4}.rs`, `wan_link/state.rs`, interface events | |
| `WanRoutes` | `route/wan.rs`, the callers and the kernel reconcile loop | |
| `HealthCheck` | `wan_link/health.rs`, `health_check.rs`, `route/health.rs` | |
| `PppoeClient` | `pppoe_client/{runtime,lcp,negotiation,auth,system}.rs` | |
| `PdClient` | `ipv6pd_client/v6.rs`, `pd_prefix/map.rs` | |
| `LanPrefixes` | the hub's prefix topic, the LAN observer, the LAN server's subnets | extends `PdClient` |
| `LanIpv6Leases` | `lan_ipv6_server/{mod,dhcpv6,server}.rs`, device events | |
| `DhcpV4Pool` | `lan_dhcp4_server/{status,server}.rs`, device events, enrolled devices | |
| `FlowTargets` | `flow/rule_service.rs`, `route/flow_target.rs` | |
| `StoreWriter` | `writer.rs`, `database/repository.rs` | |
| `DdnsTasks` | `ddns/{mod,task_registry,job_sync,runtime_state}.rs` | |
| `DnsPool`, `DnsLookup` | `connection/upstream/mod.rs`: the connections; the lookup and the health of the upstream | |
| `ServiceHandle_proofs`, `ServiceController_proofs`, `DhcpV4Client_proofs`, `WanLink_proofs` | theorems about the module of that name | TLAPS |
| `WanRouting_proofs` | theorems about `HealthCheck` and `WanRoutes` | TLAPS |
| `Links_proofs` | theorems about `PppoeClient`, `PdClient`, `LanPrefixes` | TLAPS |
| `LanServices_proofs` | theorems about `DhcpV4Pool`, `LanIpv6Leases`, `DnsPool` and what `MCLanServices` says of both servers | TLAPS |
| `Control_proofs` | theorems about `FlowTargets`, `DnsLookup`, `DdnsTasks`, `StoreWriter` | TLAPS |
| `MC*` | instances for TLC | |

`MCWanRouting`, `MCLanServices` and `MCControl` put several modules that share no
state under one run: a constant variable `part` says which of them moves, the
others keep one initial state, so the states of the run are the sum and not the
product of the parts. Properties of a part hold trivially while another moves.
`LanPrefixes` is a real composition: the client's steps and the LAN's interleave.

An operator whose name ends in `_something` and whose comment starts with
"Mutant" is a plausible wrong version of the definition that follows it. It is
not used by any specification; substituting it for that definition must break
the property `PROJECT.json` pairs it with.

## 3. Service framework

**`ServiceHandle`** has one step per lock acquisition or tracker call.
`just_change_status` and `request_stop` write the status and release the lock
before they cancel the token, so a thread in between is kept in the set
`cancelling`. Threads: the `start()` call (with its disabled, failed and running
exits, and the placeholder handle that `spawn_service` registers), tracked tasks
that report, spawn further tasks and may end at any moment, the death watch of
`supervise_lifecycle`, and any number of `wait_stop` callers.

*Properties.* `ExitCancelsToken`: whatever path writes an exit status, the token
is cancelled or the writer is about to. `WaitStopIsFinal`: `wait_stop` returns
only when no task is left and the status is terminal, and it stays so.
`StoppingHasOwner`: a `Stopping` status, which the death watch does not regard as
a death, always has a `wait_stop` in progress that will resolve it.
`NoResurrection`: no late report makes a cancelled run active. `DeathIsReported`
and `WaitStopReturns` are the liveness side. `ImplementsLifecycle` is the
refinement to `ServiceLifecycle` (phases idle, active, draining, over; whether
tasks are left; which waiters were answered).

*Fairness.* Weak fairness on `supervise_lifecycle`, the watch, the steps of a
`wait_stop` already begun and pending `cancel()`s (tokio polls what was spawned);
strong fairness on a *cancelled* task ending, the contract services have with
their stop token. Nothing makes a healthy task end or anybody call `wait_stop`.

**`ServiceManager`** is the registry for one key (keys share only a lock that is
not held across awaits). `deliver_bounded` is look-up, then send on the cloned
sender or spawn, or time out; `stop_service` removes the entry, then waits for the
handle it found there; a supervisor receives, stops the previous run, calls
`start()`, publishes the handle in *whatever entry the key has then*, and closes
down when its channel has no sender. Identifiers nobody refers to are reused, so
supervisors and runs may come and go without bound.

**`ServiceController`** adds the row (a configuration is its version), the
optimistic check, deletion, triggers that re-read the store and `update_service`
it (`try_send`, dropped when full), shutdown (`stop_all`) and a process restart
that keeps only the store.

*Properties.* `StopBeforeStart`: a supervisor never has two runs alive.
`EntryIsServed`: the registry never publishes a channel nobody consumes.
`NoLeakedRun`: once nothing is in progress, only the registered supervisor's run
is alive, even after double creations and removals during `start()`.
`CallsReturn`, `UnregisteredEnds`: nobody waits for ever. `ConvergesOnTrigger`:
as long as triggers keep coming, a dropped, timed-out or overtaken delivery does
not leave the service on an old configuration.

*Fairness.* Weak fairness per call in progress, per supervisor and per run that
was asked to stop (`WaitStopReturns` of the handle); `TriggerSpec` adds weak
fairness of triggers, the assumption of the comment on `deliver_bounded` ("the
next trigger").

## 4. DHCPv4 client

Machine (`st`, `xid`, `offer`, `lease`, `attempts`, `failures`), driver (`pc`,
`timer`, `out`) and host (`applied`, `kernel`, `lanRoute`, `linkRoute`,
`binding`, `session`) are separate variables; each await between two visible
effects is a step, so a stop or an observer can fall between any two. A deadline
is the number of seconds left and goes negative when it has passed. Servers
answer what they saw last with any address and any options, also without a lease
time; the network delays, loses and repeats.

*Properties.* `LeaseNotOutlived`: whatever T1, T2 and lease time the server
sends, the renew, wait and rebind timers together overshoot the end of the lease
by at most `MIN_WAIT`. `HostFollowsLease`: whenever the driver waits, address
lifetime, routes, binding and session are those of the machine's lease.
`SessionIsRouted`: no await shows a session without the routes under it.
`StoppedIsClean`, `DiscoversClean`: a stop, an expiry or a NAK leaves nothing.
`BindsCurrentAnswer`: only an answer to the last request becomes a lease.
`KeepsAsking`, `StopEnds`: liveness.

*Fairness.* Strong fairness of `Tick`, of the timer branch and of the stop branch
(`select!` chooses at random among ready branches; time passes whatever arrives),
weak fairness of the effects after an event. Nothing is assumed of servers or
network.

*Abstractions.* Packet encoding, the raw/UDP socket switch, and the failure of an
`ip` command (only logged by the code). Transaction ids of exchanges that still
have datagrams in flight are distinct (32 random bits in the code). The kernel is
external: `replace` sets the lifetime, which counts down and removes the address.

## 5. WAN link

Three kinds of tasks: the environment task (`run_environment`: interface events
and configuration changes → carrier and section tags), the v4 supervisor
(`run_v4_supervisor`: waits for a carrier, starts `v4::run`, restarts it on a tag
or on a carrier change) and one supervisor per dependent section
(`run_dependent_section`: reads its configuration, waits for a session, reads it
again, attaches, and restarts on a tag or when the epoch moves). `start` is two
steps, look-up and subscription, because an interface may change between them.
A broadcast is one bounded queue per receiver and a lag mark; the tags of one
change are sent one by one.

The configuration is reduced to what the code compares: the attach interface,
five combinations of kind, `v4.enable` and model (`AllModes`), and for each
section disabled or a version. A v4 run publishes an anchor without a lease, or
acquires, loses and re-acquires leases; a PPP session is named by the interface
it rides on. Interfaces come up, go down, vanish and return under a new index.

*Properties.* `NoOverlap`: no two runs of a section at once. `SessionOwned`: a
session that is up belongs to the current v4 run and its interface, also after a
run that died or that published once more while being stopped.
`EpochNamesSession`: comparing epochs, all a dependent does, is enough.
`SectionsSettled` and `V4Settled`: once no task has anything to react to
(`Quiet`), every section runs the stored configuration on the current session.
`UpIsSeen`: an interface that is up is the carrier, also when it came up during
start or when events were lost. `StopEnds`, `Converges`: liveness.

`Prompt` states whether a save may come before the environment task has handled
the previous one. With `Prompt = TRUE` and rings that do not overflow the
settled properties hold; section 13 shows what happens otherwise.

*Fairness.* Weak fairness per task, and of each stop branch by itself, since
`select!` does not starve a ready branch. Nothing is assumed of the world
(`World`: interfaces, saves, leases, deaths).

## 6. WAN routing

**`WanRoutes`.** Callers (links, prefix clients, Docker) insert and remove routes
of both families. A call changes the table under its lock, then
`refresh_default_router` reads the default, writes slot 0 and rings the doorbell,
each a step; the loop of `spawn_kernel_default_sync_loop` wakes on the bell or the
30 s tick, reads the next hops, runs `ip route replace`, which may fail, and keeps
a cache of what the kernel has. *Properties.* `DefaultSlotFollows` (refreshes
that do not overlap), `KernelNotForgotten`: a change is never left to the tick
alone; `CacheIsKernel`: a failed command never leaves the cache claiming a route;
`KernelConverges`, under weak fairness of calls and loop (spawned tasks).

**`HealthCheck`.** The run of a link's health section: a round with evidence, a
blind round, the debouncing evaluator, the verdict table that the route service
clears when the link's route goes, and the flip events. A history of rounds is
kept so that `VerdictIsDebounced` can compare the counters with a reference
definition on the whole history: unhealthy since the last `failure_threshold`
failures in a row that were not forgiven, until `recovery_threshold` successes in
a row. `NoVerdictLeft`: a section that ended leaves no verdict, whoever was
pushing; `EventsTell`: flips chain and add up to the stored state unless the two
senders crossed.

## 7. PPPoE client

`PppoeClient` is the redial loop of `runtime.rs`: backoff, channel, discovery and
LCP (`lcp.rs`), authentication, IPCP and IPv6CP (`negotiation.rs`, `auth.rs`),
`create_session` and `SessionHandle::shutdown` (`system.rs`) with a step per await,
keepalive and hang-up. Nothing is assumed of the peer. `pppAfter` is what follows a
`shutdown_session`: redial, end, or the creation of a new session.

*Properties.* `HostFollowsSession`: outside the two procedures the host shows
exactly the session, address, routes, MTU, link-local address and data plane, or
none of it. `SessionHasHost`: the link is told of a session only with all of it in
place. `DialEnds`: discovery and LCP end whatever the peer sends. `SilentPeerNoticed`:
a peer that stops answering echoes is noticed although other packets keep coming.
`PppStopEnds`.

*Fairness.* Weak for effects, backoff and time; strong for the stop, timeout and
echo branches, which `select!` does not starve.

## 8. IPv6 prefixes

**`PdClient`** is one task: Solicit, Request, Bound, Renew, WaitToRebind, Rebind,
with a timer cut at the end of the prefix; a Reply is bound in four steps (address;
route; data plane and map; event) and a prefix is withdrawn in three. Time is in
units of the retry floor; `kernAddr` and `srcRoute` are the kernel's remaining
lifetimes. An answer may come at any time after its request or never; a packet that
cannot be decoded arms the timer anew. *Properties.* `PrefixNotOutlived`;
`MapIsUsable`: the map is written last and cleared first; `AddressesKnown`: no
address survives its prefix; `ReleaseAfterUse`; `PdKeepsAsking`, `PdStopEnds`.

**`LanPrefixes`** composes it with the way to the LAN: a bounded queue to the hub,
a broadcast that overwrites, the observer that passes `Lagged` over and rings a
watch, and the server that reads the map at start and after each ring, removes and
adds subnets, fails to open its sockets, or cleans up. *Properties.* `LanFollows`:
events say only that something changed, so losing all but one is harmless, at
whatever moment the server starts. `LanStoppedClean`; `WithdrawnReachesLan`: a
prefix that was withdrawn disappears from the LAN.

*Fairness.* Weak for the client's handlers, time, hub, observer and server, strong
for the stop branch.

## 9. LAN address servers and DNS

**`DhcpV4Pool`.** The four tables of `DhcpV4AssignStatus` behind one mutex, so one
action per handler: DISCOVER, REQUEST, DECLINE, RELEASE, the expiry timer; the
enrolled devices of the database, the broadcast of their changes, the observer, and
a restart that reads the database, and replaces the pool later. `lease` is what
clients hold (history). `Honest` clients release and decline only what they hold.
*Properties.* `BindingsAgree`: bindings and owners are inverse and static offers lie
on them; `NoDoubleLease`: two clients never hold one address that never had a static
binding; `OfferReturns`: the search with the lock held ends; `BindingsCurrent`.

**`LanIpv6Leases`.** Addresses: leases by DUID, bindings by MAC, the owner table,
SLAAC addresses seen; prefixes: slots, their owners and the routes installed for
them under the parent prefix of the moment. Operators on tables keep the names of
the code (`offer_na`, `bind_mac_suffix`, `remove_mac_binding`, ...); a search that
starts at a hash gives the set of possible results. *Properties.* `NaAgree`,
`NoSharedSuffix`: the tables agree and no suffix is leased twice after any sequence
of evictions, rebinding and expiry; `StaticsFollow` (the bindings are those of the store
but for `missedMacs`: devices whose event passed while the server started, and devices
refused a suffix that one of those still holds); `PdRoutesTracked`, `PdSlotsAgree`: routes on the host are those the leases record, across prefix
changes.

**`DnsPool`.** A leg of a lookup goes through the steps between two locks or awaits:
find a connection (and purge the dead), wait for the endpoint's gate, dial, stamp the
borrow, query, or race a stale connection against a fresh dial; it may be aborted at
every await. Scale-up dials and the maintenance task run beside the legs. A connection
has two flags for its age (stale, idle), set by `Ages`; among equally old ones any may
be picked; names of connections are reused (`ConnIds` bounds how many exist at once).
*Properties.* `CapHeld`, `NothingLost` (a dialled connection is pooled, in use or shut
down, but for the fresh dial of an aborted race), `PooledIsOpen`, `GateIsHeld`,
`QueryKeepsConn` (the reaper keeps off a connection that was borrowed in time).

**`DnsLookup`.** A traced caller runs attempts, fan-out, selection, truncation and
CNAME hops; what a leg ends with is left open. All callers share the failure streak,
the offline flag and the probe loops, each load and store a step. TTLs, SOA records
and the fixpoint over one answer's CNAMEs are abstracted. *Properties.* `NeverEmpty`,
`PartialKept`, `ErrorInformative` (whatever the order in which legs, phases and
attempts end), `OfflineIsProbed`.

## 10. Control plane

**`FlowTargets`.** Operator calls, the route observer and the device observer
rewrite the per-flow slots and the match map from copies they took earlier.
`SlotsFollow`, `MatchesFollow`: once every event is handled the maps are what rows,
routes and devices say. The exceptions are recorded by history variables: two tasks
that rewrote one flow at the same time, rows that share or change a `flow_id`, a
failed read.

**`StoreWriter`.** SQLite in WAL mode is external: snapshot at the first statement,
one write lock, a stale snapshot or a held lock fails at once. A call is begin, read,
write per row, commit, any of which may fail and be retried. `NoLostUpdate` (checked
writes replace what the client read, unless the key was deleted since),
`WritesOnLatest`, `FailuresLeaveNothing`, `VersionsGrow` although the clock stands
still. `checked_upsert` of `ServiceController` is the abstraction of a call.

**`DdnsTasks`.** The closures of `ArcSwap::rcu` that touch the shared flags are
load, touch and swap, retried when the map changed. `OneTask`; `PublishedIsCurrent`
with the exceptions the code accepts (a lagging listener, a cancelled task, until the
next periodic sync) and the one it says it excludes (finding 1); `ReportIsTrue`;
`CleanWhenOff`. Their exceptions are history variables: `untold`, a provider call that
failed or was cancelled after it took effect, or a task that ended because its job had
been switched off, so that nobody was told of the record until the next call succeeds;
`orphan`, a clean-up that was skipped, failed or cancelled, or a task that started behind
the call's `has_task` check. The API calls of one job come one at a time, except that a
manual sync or a cancellation may come at any time.

## 11. Runs

What a run checks is mostly a conjunction of the named parts of sections 3 to 10;
a counterexample shows which part failed.

| Conjunction | Parts |
|---|---|
| `HandleInv` | types, `ExitCancelsToken`, `WaitStopIsFinal`, `StoppingHasOwner` |
| `ManagerInv` | types, `StopBeforeStart`, `EntryIsServed` |
| `HostInv` | types, `HostFollowsLease`, `SessionIsRouted`, `StoppedIsClean` |
| `LinkInv` | types, `NoOverlap`, `SessionOwned`, `EpochNamesSession` |
| `LinkSettled`, `LinkFollows` | `SectionsSettled`, `V4Settled`; the same with `LinkInv` and `UpIsSeen` |
| `RoutesInv`, `VerdictsTold` | types, `DefaultSlotFollows`, `KernelNotForgotten`, `CacheIsKernel`; types, `NoVerdictLeft`, `EventsTell` |
| `FlowInv`, `TransactionsSound`, `DdnsInv` | types, `SlotsFollow`, `MatchesFollow`; types, `WritesOnLatest`, `NoLostUpdate`, `FailuresLeaveNothing`; types, `OneTask`, `PublishedIsCurrent`, `ReportIsTrue`, `CleanWhenOff` |
| `DnsPoolInv`, `DnsLookupInv` | types, `CapHeld`, `NothingLost`, `PooledIsOpen`, `GateIsHeld`, `QueryKeepsConn`; `NeverEmpty`, `PartialKept`, `ErrorInformative`, `OfflineIsProbed` |
| `PppInv`, `PhasesEnd` | types, `HostFollowsSession`, `SessionHasHost`; `DialEnds`, `SilentPeerNoticed` |
| `PoolInv`, `LeaseInv`, `DevicesFollow` | types, `BindingsAgree`, `NoDoubleLease`, `OfferReturns`; types, `NaAgree`, `NoSharedSuffix`, `PdRoutesTracked`, `PdSlotsAgree`; `BindingsCurrent`, `StaticsFollow` |
| `PdInv`, `PdLive`, `LanInv` | types, `PrefixNotOutlived`, `MapIsUsable`, `AddressesKnown`, `ReleaseAfterUse`; `PdKeepsAsking`, `PdStopEnds`; types, `LanFollows`, `LanStoppedClean` |

| Run | Bounds | Checks |
|---|---|---|
| `handle` | 3 tasks, 2 waiters | `HandleInv`, `NoResurrection`, `ImplementsLifecycle`, `DeathIsReported`, `WaitStopReturns` |
| `manager_safety` | 2 callers, 2 supervisors, 3 runs alive or referred to, 2 versions, all operations | `ManagerInv`, `NoLeakedRun` |
| `manager_liveness` | the same with 4 runs, 1 version, no restart | `CallsReturn`, `UnregisteredEnds` |
| `controller_converges` | 2 callers, 2 versions, timeouts, no delete | `ConvergesOnTrigger` |
| `dhcp` | 2 addresses, 4 ids, 1 reply in flight, all options | `HostInv`, `LeaseNotOutlived`, `DiscoversClean`, `BindsCurrentAnswer`, `KeepsAsking`, `StopEnds` |
| `wan` | PD, an interface that comes and goes, v4 on or off, 1 save, 1 death, 1 acquisition, a stop at any time | `LinkInv`, `LinkSettled`, `StopEnds`, `Converges` |
| `wan_routing` | link: 2 interfaces, NAT, 2 lease addresses, 2 acquisitions, event ring of 1; routes: 2 owners, 2 callers, 2 changes, 1 failing command; health: 6 rounds, thresholds 2, 2 runs | `LinkFollows`, `RoutesInv`, `KernelConverges`, `VerdictIsDebounced`, `VerdictsTold` |
| `pppoe` | 1 retry per phase, 2 redials, MRU below and above the one asked for | `PppInv`, `PhasesEnd`, `PppStopEnds` |
| `prefixes` | 2 prefixes, one too long for the LAN, queues of 1, 1 run of each side | `PdInv`, `LanInv`, `PdLive`, `WithdrawnReachesLan` |
| `lan_services` | v4: 2 clients, 2 addresses; v6: 2 DUIDs, 2 MACs, 3 suffixes of which 2 dynamic, 1 slot, 2 parents; DNS: 2 endpoints, 2 legs, a cap of 1, with and without warm-up | `DnsPoolInv`, `PoolInv`, `LeaseInv`, `DevicesFollow` |
| `control` | flows: 1 row, 2 flow ids, 2 operators; store: 2 clients, 2 keys, 3 calls, 2 retries, a clock that stands still; DDNS: 2 addresses, 2 workers; DNS: 2 addresses, 2 attempts, 1 CNAME hop, threshold 2, 2 probe loops | `FlowInv`, `TransactionsSound`, `DdnsInv`, `DnsLookupInv` |
| `ddns_mark` | `DdnsTasks` alone | violation, finding 1 |

*Why the bounds are enough.* Two waiters and a watch are all the ways two writers
of the status cell can race; a third task lets one task spawn another while a third
still runs. In the manager every race is between two callers and the supervisor of
an entry that was replaced. The timers of the DHCP client are scaled with
`MIN_WAIT = 3` for 60 s; the options contain a lease shorter than the floor, without
T1 and with T2 beyond its end, and one of four floors that goes through renewals,
WaitToRebind and rebinds. The rings (128 events, 32 tags) are scaled down to 1 where
they are to overflow and kept large enough where they are not. Flows, pools, lease
tables and the store need two competitors for one resource (a flow id, an address, a
suffix, a slot, a row) and one resource more than is needed, so that a wrong choice
exists; the store needs three calls so that two commits may fall between the read and
the write of a third. The evaluator needs rounds for a failure, a recovery and one
interrupted attempt of each. `EventRoom`, `PdEventRoom`, `BroadcastRoom` and
`WanRoom` of 1 make every second event a loss. The theorems of section 12 remove the
bounds for the invariants they state.

Deadlock checking is off: a stopped service, a finished client and a system at rest
with used-up bounds may stop. The liveness properties say when they may not.

Every property has a mutant of the modelled code that violates it under the same
configuration.

## 12. Proofs

All theorems hold for every value of the constants under the modules' named
assumptions; each proof module ends each temporal theorem with the three facts
"initially", "preserved by every action" and "implies the property".

**`ServiceHandle_proofs`.** Assumption `ThreadsDistinct`. `ExitCancelsToken` is
not inductive: a status write must know where the thread that owes the `cancel()`
is, and `StoppingHasOwner` that a caller who requested the stop has not left. The
invariant is `IInv == TypeOK /\ ExitCancelsToken /\ StoppingHasOwner /\
StarterInv /\ WaiterInv`: `StarterInv` says what each point of `start()` implies
for status, tracker and watch (a handle that is not yet published has no death
watch), `WaiterInv` what each point of `wait_stop` implies (past the tracker wait
there is no live task; at the end the status is terminal). From it follow the parts
and `HandleSound` (`HandleInv`), `NeverResurrected` (an action property) and
`Refinement`: every step of the run is a step of `ServiceLifecycle` or a stutter.

**`DhcpV4Client_proofs`.** Assumption `ConstAssumption`. In layers: `TypeInv`;
`Schedule` (the rebind deadline is not after the end of the lease, and when the
pending timer fires the lease is overrun by at most `MIN_WAIT`), which gives
`LeaseBounded`; `Host` with `KernelFits` and `LinkFits`, which says at every `pc`
of the bind and release chains which effects have happened, and gives `HostFollows`,
`SessionRouted`, `StopLeavesNothing` and with the types `HostSound` (`HostInv`);
`Exchange` (a reply in flight that carries the current id answers the last datagram
sent with it), which gives `DiscoverFindsClean` and `BindsCurrent`.

**`WanLink_proofs`.** Assumptions `WanLinkAssumption`, `BootsAssumption`.
`TypeCorrect`; then `Owned`, `SecOwned` and `Epochs`, which tie `vrun`, `srun`
and the session to the supervisors' places and give `LinkSound` (`LinkInv`)
without further conditions. For the settled properties the invariant `Notified` says
that a supervisor that holds a configuration different from the stored one has a tag
on its way: in its inbox, among the environment task's tags to send, or in a save
that task has not seen (`SecNotified`, `V4Notified`, with `Synced` and `Carried`). It
needs two conditions, which the theorems state: `Prompt`, and `[]NoLag`, that no
supervisor's inbox overflows. `LinkFollowsConfig` (`LinkSettled`) follows because in a
`Quiet` state nothing is on its way. Both conditions are needed: `MCWanLink_aba.cfg`
shows the first, `MCWanLink_lag.cfg` the second. `UpIsSeen` needs neither
(`UpInterfaceIsCarrier`): `Seen` says that the last event waiting about an
interface tells its present state, and that an interface that is up, with no event about
it waiting and none forgotten by the ring, is the carrier. With
`LinkSound` and `LinkFollowsConfig` this is `LinkFollowsAll` (`LinkFollows`).

**`ServiceController_proofs`.** Assumption `ManagerAssumption` (finitely many
callers, at least one identifier of each kind). `StopBeforeStart` compares two runs
and says nothing of the supervisor that is about to start a third. The invariant
`ManagerIInv` adds `SupsHold` (a supervisor task has a run until it ends; the run
inside `start()` is the one its supervisor awaits), `RunsOwned` (a live run is the
current run of the supervisor that started it, and that supervisor has not ended) and
`CallersRest` (a caller between two calls holds no sender). `SupervisorMoves` states
once what a step of a supervisor has to bring along; each action is then a few lines.
`ManagerSound` (`ManagerInv`) follows since two live runs of one supervisor are both
its current run; `NoRunLeaks` (`NoLeakedRun`) since in a quiescent state a supervisor
that has not ended has a sender, which only the registry can hold. `VersionsLeft`
counts the writers inside `checked_upsert` (for the type of `clock`).

**`WanRouting_proofs`.** Assumptions `HealthConstants`, `WanRoutesConstants`.
*Health*: `Counters` says what the evaluator's three counters are in terms of the rounds
it has seen, and the invariant that its state is `Verdict`, a function of the rounds
alone; one more round changes both in the same way (`HcVerdictIsDebounced`). `Told`
follows the event on its way: it leads from what subscribers know to what is stored,
unless a push and a loss of the route crossed (`HcVerdictsTold`). *Routes*: `WanIInv`
has `Slots` (as long as refreshes did not overlap there is one at a time, the route it
holds is still a choice, and a slot that does not fit the routes will be written),
`LoopKnows` (the reconcile loop knows the nexthops of the table, or its doorbell rang or
will) and `Counted`, a type. They give `WanRoutesSound` (`RoutesInv`).

**`Links_proofs`.** Assumptions `PppConstants`, `PdConstants`, `LanConstants`.
*PPPoE*: `Handle`, `Addressed`, `Built` and `Clean` say at every phase what
`create_session` has set so far and what a shutdown still has to restore; the
exception is the session the data plane refused, `pppLeaked` (`PppHostFollowsSession`).
*Prefix delegation*: `PdIInv` strengthens `PdInv` by what the handler of a Reply or an
expiry has done at each await (`HandlerSoFar`) and by `ReleaseIsLast`: the Release is
sent after the host is clean (`PrefixHeldWhileUsed`). *LAN*: `LanIInv` says that a
server whose subnets are not what the map holds is going to be rung (`Informed`): by its
bell, by an event in a queue, or by one the client has still to send; `RoutedSoFar` says
which of its routes are set at each step (`LanServesTheMap`). This is a proof about the composition of client, hub, observer
and server.

**`Control_proofs`.** Assumptions `FlowConstants`, `DnsLookupAssumption`,
`DdnsConstants`. *Flows*: `FlowIInv` names, for a row that an operator call or an
observer holds, what it was copied from (`HeldAsStored`), and for every slot or match
that does not follow, the event or the running sync that will rewrite it (`StaleTold`,
`SlotsTold`, `MatchesTold`); in a quiet state there is none (`FlowsFollow`).
*Look-ups*: `AsksOK` and `CallersOK` relate the outcome kept so far to the legs that
have ended, `HealthOK` an offline upstream to a probe loop that has not ended
(`LookupReports`). *DDNS*: `DdnsIInv` has `TasksHold` (the registry's entry is the one
running task's), `CallersHold` (a caller of rcu whose map is not stale holds the
registry's entry), `CallsHold`, `ReportsHold` and `RecordsHold` (what a call in flight,
the runtime and the provider's record have to do with each other) and `MarksHold` (an
address that is not published was announced to a task that runs again, or is being read
by one); they give `DdnsTellsTheTruth` (`DdnsInv`).

*Store* (assumption `StoreConstants`): `NoLostUpdate` is about commits,
whereas the version was compared at a read long before. The invariant `StoreIInv`:
`Snapshots` (who holds the write lock has the snapshot of the last commit, and what it
has not written is still the row), `PendingRows` (what the holder is about to commit is the
row itself, a deletion, or a higher version of its own), `Copies` (what a client has
read is the row or an older version of it, unless the key was deleted since),
`CheckedSoFar` and `CallsNumbered`. It gives `StoreTransactionsSound`
(`TransactionsSound`) and the action property `StoreVersionsGrow`.

**`LanServices_proofs`.** Assumptions `PoolConstants`, `LeaseConstants` and
`DnsPoolAssumption`. For `DhcpV4Pool` the lemmas are about the pool's operators:
what `offer_ip`, `ack_request`, `release_ip`, `clean_expire_ip`,
`remove_binding`, `add_or_update_binding` and `from_config_and_devices` keep of
`Tables` (bindings and owners are inverse, a client with a binding is offered nothing
else), of `Apart(p, B)` (an offered address outside the bound ones `B` is marked as
allocated and offered to one client) and of the offers that have not expired. `PoolIInv`
adds `LeasesHeld` (what a client was promised it is still offered) and `EventsNamed`.
`PoolTablesAgree` holds for every client and every device; `PoolLeasesApart` for
clients that release and decline only what they hold (`Honest`); `PoolSound`
(`PoolInv`) when no binding lies outside the range besides, since only then a pool
without a free address is `Full`. Both conditions are needed: a client that names the
address of another one frees it, and `MCDhcpV4Pool_full.cfg` shows the second.

For `LanIpv6Leases` the invariant `LeaseIInv` is `NaFits(na)` with `PdInv` and
`StoreInv`. The operators of the address tables take several steps (evict a lease,
free its suffix, take it over, bind, give the lease back), between which the tables do
not agree. So the agreement is stated apart from one lease and one binding:
`AgreeBut(t, h, g)` says of every DUID but `h` and every MAC but `g` that a dynamic
lease owns its suffix (`DynamicOwns`), a static one lies on its MAC's binding
(`StaticBound`) and is the only one there (`OneStatic`), a binding owns its suffix
(`BindingOwns`), and an owner has what the owner table says (`OwnerLeases`, `OwnerBound`);
each operator has a lemma on what it takes and leaves, and the handlers are their
compositions. Sharing a suffix would need two owners (`NoSharedSuffix`). `PdInv` says that the
installed routes are those the leases record and all go to the parent of the moment.
The result is `LeasesSound` (`LeaseInv`), for any clients, devices and prefix changes.

`DevicesFollowed` (`DevicesFollow`) is about events that are applied later, when the
store has moved on: an intermediate event may be refused, or take an address from a
device that has another one by now. The invariants (`CurrentIInv` for v4, `FollowIInv`
for v6) therefore name the versions of the store, from the one before the first waiting
event to the present one, each the next by its event. Every binding is that of some version, or
was taken away and an event about its MAC is waiting. A device that is refused, or
whose address is taken over, is in conflict with one that holds the address in another
version; a version holds every address once, so an event about it is still waiting. With nothing waiting
there is one version, the store. The condition `Away = {}` is the theorem's: a device
moved to another subnet is bound to an address the store does not hold here (section
13). `PoolFollowsDevices` and `BindingsFollowStore` are the two halves.

For `DnsPool` the invariant `DnsIInv` is stated of a vector, the legs and the
connections (`Ready`), so that one lemma serves the state before and after the drop of
unreferenced connections (`CollectHolds`). It says what `DnsPoolInv` leaves out: a
pooled connection that is open is in the vector; one that no
`PooledConn` wraps is the fresh one of exactly one race (`FreshApart`); what a leg holds
at each of its places; and that the connection of a query is not idle, which is why the
reaper keeps off it. `Evolve` is the step that all actions share: every connection but one,
`x`, is only counted, or closed because it is dead or idle, one leg moves, and `x` is its
own. The budget then needs a look at `x` alone (`StreamsShrink`). The gates follow the
leg that dials (`GatesHold`). `DnsPoolSound` is `DnsPoolInv` for any endpoints, legs,
connections, `max_conns` and `min_conns`.

Models were corrected when their invariant turned out not to be inductive for a
good reason: `ReportIsTrue` ignored the provider calls whose effect is unknown,
`DdnsTasks` lacked the clean-up that is cancelled and the manual sync of a disabled job,
and `StaticsFollow` left out the devices refused for one whose event was missed, a case
that takes four edits and two waiting events.

**Only model-checked.** Liveness (fairness and `ENABLED` are outside the proof
system's reach): `DeathIsReported`, `WaitStopReturns`, `CallsReturn`,
`UnregisteredEnds`, `ConvergesOnTrigger`, `KeepsAsking`, `StopEnds`, `Converges`,
`KernelConverges`, `PhasesEnd`, `PppStopEnds`, `PdLive`, `WithdrawnReachesLan`. Every
invariant of the runs is proved.

## 13. Findings and observations

Finding 1, `ddns_mark`, `ddns/task_registry.rs:101`. `finish_or_continue` tests the
shared pending flag inside its rcu closure; `start_or_mark` sets that flag and swaps
in the map it loaded. A mark between the test and the swap of `finish_or_continue`
changes no map, so the swap succeeds and removes the entry with the mark, although
the comment at l. 89 says that a racing mark is never discarded with the entry. The
address the event announced is published by the next periodic sync.

The properties below are false of the model and show behaviour a maintainer may want
to know of. Where a configuration is named it ends in the counterexample; the others
are found by adding the property to the configuration of the module's run.

| Property | Configuration | What the code does |
|---|---|---|
| `DeletedMeansStopped` | `MCServiceController_zombie.cfg` | `deliver_bounded` spawns a service for a key without an entry and does not look at the store again: a delete between persist and delivery leaves it running until the process restarts (`manager.rs:181`) |
| `StopIsComplete` | | `stop_service` during `start()` waits for the placeholder or the previous run (`manager.rs:197`); `NoLeakedRun` says that the supervisor stops the new one later |
| `RuntimeIsStored` | | of two writers the one persisted first may be delivered last (`manager.rs:157`) |
| `RegistryShowsRuntime` | | a supervisor returning from `start()` publishes its handle in an entry created meanwhile by another (`manager.rs:90`) |
| `ExpiredLeaseIsDropped` | `MCDhcpV4Client_expired.cfg` | the 60 s floor of the waits is not cut at the end of the lease: session and routes stay up to 60 s longer than the address (`fsm.rs:260`; `LeaseBounded`) |
| `SectionsSettled` | `MCWanLink_aba.cfg` | a value replaced and restored before the environment task wakes is kept by a section that read it in between (`wan_link_service/mod.rs:533`) |
| `SectionsSettled` | `MCWanLink_lag.cfg` | a section that lags on the tag ring inside a run ignores `Lagged` (`mod.rs:831`) |
| `LeaseRequired` | `MCWanLink_lease.cfg` | readiness and session are two reads; NAT may attach to an anchor without a lease (`mod.rs:799`) |
| `AnchorFollowsPd` | | PD switched while v4 is enabled without acquisition sends no V4 tag; the anchor does not follow (`mod.rs:550`) |
| `AbsentIsSeen` | | an interface that was down at start and is deleted stays the carrier (`netlink/observer.rs:110`) |
| `DefaultSlotAlwaysFollows` | | two refreshes may write slot 0 in the opposite order of their reads (`route/wan.rs:248`) |
| `EndedIsClean` | `MCPppoeClient_cleanup.cfg` | when the data plane refuses a session the run ends with address and routes in place (`runtime.rs:270`) |
| `RenewedInTime` | `MCPdClient_renew.cfg` | an undecodable packet arms T1 anew from its arrival; enough of them let the prefix expire unrenewed (`v6.rs:799`) |
| `SourceRouteFollows` | | a Reply with another prefix leaves the source route of the one before to its lifetime in the kernel |
| `LanFollowsAlways` | `MCLanPrefixes_observer.cfg` | an overflow of the device events ends the loop that also passes on prefix events (`lan_ipv6_service.rs:484`) |
| `OfferReturns` | `MCDhcpV4Pool_full.cfg` | the pool is full only when the number of allocations equals the range exactly; bindings outside the range lift it past that and the search never ends (`status.rs:271`) |
| `NeverDoubleLease` | | a static binding takes over an address that another client still holds (`status.rs:154`) |
| `SlaacDisjoint` | | `bind_mac_suffix` leaves a SLAAC address it takes over in the table |
| `SlotsAlwaysFollow` | | overlapping syncs of one flow, or rows sharing or exchanging a `flow_id`, leave old slots (`rule_service.rs:61`) |
| `EveryDialClosed` | `MCDnsPool_drop.cfg` | a leg that is aborted in a race after its fresh dial drops that connection without the `shutdown()` the contract asks for (`upstream/mod.rs:1310`) |
| `NoQueryOnReaped` | | a maintenance pass between `find_reusable` and the stamp of the borrow closes a connection under the query (`upstream/mod.rs:1481`) |
| `OneProbeAtATime` | | an upstream that recovers and flips again while the loop of the first flip sleeps is probed by two loops (`upstream/mod.rs:1793`) |
| `NeverLostUpdate` | `MCStoreWriter_recreate.cfg` | a row deleted and created again may get the version an old reader holds (`repository.rs:24`) |

Met while reading, and part of the models or of their stated exceptions:

* LAN DHCPv4: leases are forgotten at a restart; events that pass between the read
  of the database and the replacement of the pool are lost; the observer ends on
  `Lagged` (`lan_dhcp4_service.rs:141`, `:355`); a MAC that gets a static binding
  leaks its dynamic address until expiry; a device moved to another interface is also
  bound in the pool of its old one, with an address outside its subnet (`:357`), so
  that `BindingsCurrent` holds only without such devices (`Away = {}`).
* PPPoE: any packet restarts the negotiation timeout; the peer's MRU is not used;
  PADT is ignored; an authentication timeout ends the service.
* Prefix delegation: `t1 = 0` means an immediate Renew; the answer of another server
  to a Rebind is rejected; a LAN server that fails to open its sockets leaves the
  addresses it has set.
* LAN IPv6: a declined suffix is not set aside; expiry inside an allocation emits no
  event; events between the read of the devices and the publication of the server
  are lost, and a device given the suffix of one whose deletion was lost is refused with
  `StaticConflict` until the next restart; an unresolvable slot loses the active routes in `release_pd`.
* Flows: the device observer ends on `Lagged`; a failed list makes an event a no-op.
* DDNS: `has_task` is checked before the save and the clean-up; a provider call
  cancelled half way leaves the record unknown; listeners skip `Lagged`.
* DNS upstream: `Timeout` and `Tls` have one rank, so that which of them a lookup
  reports, and with it retry and health, depends on the order of the legs
  (`upstream/mod.rs:170`).
* DHCPv4 client: an ACK without a router leaves the previous link route
  (`system.rs:94`); failing `ip` commands are only logged (`system.rs:32`).
* WAN link: the forwarder of interface events skips `Lagged` (`mod.rs:981`); a delete
  removes the sender of a link created meanwhile (`mod.rs:926`); a save may be sent to
  a link whose tasks have just ended (`mod.rs:906`).

## 14. Plan

Modelled and checked: everything in section 2. Next, in order:

1. `WanLink` under `ServiceController`: several incarnations of a link.
2. The pppd service, the LAN device directory.

## 15. Not modelled

* eBPF data plane: kernel C; the control plane sees idempotent map updates.
* DNS: resolution is delegated to hickory; rules are pure look-ups. The
  experimental pool (`exp_conn_pool`) beside the upstream pool is not modelled, nor are
  the connectors and the end of a pool.
* pppd service: supervises an external process through files and its exit status.
* LAN device directory: a merge of observations without a protocol; what the address
  servers read of it (enrolled devices) is modelled with them.
* Certificates, geo data, Docker, HTTP gateway, time synchronisation, metrics:
  sequential protocols with external services, files, processes, statistics.
* Firewall, static NAT, Wi-Fi, LAN route and other configuration services:
  instances of `ConfigStoreServiceController`, modelled once.
* Web server, UI, macros, shared types, database schema and migrations: routing,
  generated or declarative code.
* Within the modelled parts: the status board and runtime slots of a link (outputs
  no task reads), logging, wire formats, failures of `ip` commands other than the
  kernel default's, more than one incarnation of a link, router advertisement
  timing.
