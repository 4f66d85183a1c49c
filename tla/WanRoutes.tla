------------------------------ MODULE WanRoutes ------------------------------
(***************************************************************************)
(* The WAN half of the route service: one route per owner and address      *)
(* family, the eBPF default slots that every change of a default route     *)
(* refreshes, and the single-writer loop that brings the kernel's IPv4     *)
(* default route in line.                                                  *)
(*                                                                         *)
(* Links, prefix clients and the Docker service call the service from      *)
(* their own tasks.  The route tables are behind locks that are held only  *)
(* for a read or a change; the refresh that follows reads and writes       *)
(* without one, so every read and every write is a step of its own.        *)
(* An insert of the route already stored changes nothing and is left out.  *)
(***************************************************************************)
EXTENDS Integers, FiniteSets

CONSTANTS
  Owners,      \* links and containers
  Docker,      \* the owners whose routes are marked is_docker
  NoOwner,     \* no route
  Callers,     \* tasks that call the service
  MaxRouteOps, \* bound: calls
  MaxSyncFails \* bound: failing ip(8) commands

ASSUME WanRoutesConstants ==
  /\ IsFiniteSet(Owners) /\ Docker \subseteq Owners /\ NoOwner \notin Owners
  /\ MaxRouteOps \in Nat /\ MaxSyncFails \in Nat

VARIABLES
  wanRoute,   \* ipv4_wan_ifaces, ipv6_wan_ifaces
  defSlot,    \* eBPF slot 0 of each family: the default target
  call,       \* per caller: where its call stands
  bell,       \* kernel_default_notify: the stored permit
  loop,       \* reconcile loop: pc, nexthops read, cache
  kernel,     \* nexthops of the kernel's IPv4 default route
  verdicts,   \* link_healths: links with a health snapshot
  sent,       \* WanRouteEvents published
  overlap,    \* history: two refreshes ran at the same time
  routeOps, syncFails

wanVars == << wanRoute, defSlot, call, bell, loop, kernel, verdicts, sent, overlap, routeOps, syncFails >>

Fams == {"v4", "v6"}
\* RouteTargetInfo: default_route, and whether the kernel can use it as a nexthop
\* (an IPv4 gateway, or a point-to-point device).
Route(o, d, u) == [owner |-> o, def |-> d, usable |-> u]
NoRoute == Route(NoOwner, FALSE, FALSE)
RoutesOf(o) == {Route(o, d, u) : d \in BOOLEAN, u \in BOOLEAN}
Routes == UNION {RoutesOf(o) : o \in Owners}

Table == [f \in Fams |-> [o \in Owners |-> NoRoute]]
SetRoute(tab, f, o, r) == [tab EXCEPT ![f] = [tab[f] EXCEPT ![o] = r]]
Defaults(tab, f) == {tab[f][o] : o \in {p \in Owners : tab[f][p].def}}

kernel_default_nexthops(tab) == {r \in Defaults(tab, "v4") : r.usable}

CallPcs == {"idle", "docker6", "read4", "write4", "read6", "write6", "clear", "notify"}
NoCall == [pc |-> "idle", seen |-> NoRoute, clear |-> NoOwner, events |-> 0]
RouteCalls == [pc : CallPcs, seen : Routes \cup {NoRoute}, clear : Owners \cup {NoOwner}, events : 0 .. 2 * Cardinality(Owners)]

Unread == [known |-> FALSE, hops |-> {}]
Known(h) == [known |-> TRUE, hops |-> h]

WanInit ==
  /\ wanRoute = Table
  /\ defSlot = [f \in Fams |-> NoRoute]
  /\ call = [c \in Callers |-> NoCall]
  /\ bell = FALSE
  /\ loop = [pc |-> "read", hops |-> {}, cache |-> Unread]
  /\ kernel = {} /\ verdicts = {}
  /\ sent = 0 /\ overlap = FALSE /\ routeOps = 0 /\ syncFails = 0

Refreshing(c) == call[c].pc \in {"read4", "write4", "read6", "write6"}

GotoSeen(c, pc, r) ==
  call' = [call EXCEPT ![c] = [pc |-> pc, seen |-> r, clear |-> call[c].clear, events |-> call[c].events]]
Goto(c, pc) == GotoSeen(c, pc, call[c].seen)

\* After the change: refresh the default router, drop the health verdict of a
\* link that lost its IPv4 route, publish.
Follow(c, refresh, clear, events) ==
  /\ call' = [call EXCEPT ![c] =
       [pc |-> IF refresh THEN "read4" ELSE IF clear # NoOwner THEN "clear" ELSE IF events > 0 THEN "notify" ELSE "idle",
        seen |-> NoRoute, clear |-> clear, events |-> events]]
  /\ overlap' = (overlap \/ (refresh /\ \E b \in Callers \ {c} : Refreshing(b)))

\* Mutant: the refresh looks only at the new route.
Insert_newOnly(c, f, o, r) ==
  /\ call[c].pc = "idle" /\ routeOps < MaxRouteOps /\ routeOps' = routeOps + 1
  /\ wanRoute[f][o] # r
  /\ wanRoute' = SetRoute(wanRoute, f, o, r)
  /\ Follow(c, r.def, NoOwner, 1)
  /\ UNCHANGED << defSlot, bell, loop, kernel, verdicts, sent, syncFails >>

\* insert_ipv4_wan_route, insert_ipv6_wan_route
Insert(c, f, o, r) ==
  /\ call[c].pc = "idle" /\ routeOps < MaxRouteOps /\ routeOps' = routeOps + 1
  /\ wanRoute[f][o] # r
  /\ wanRoute' = SetRoute(wanRoute, f, o, r)
  /\ Follow(c, r.def \/ wanRoute[f][o].def, NoOwner, 1)
  /\ UNCHANGED << defSlot, bell, loop, kernel, verdicts, sent, syncFails >>

\* remove_ipv4_wan_route, remove_ipv6_wan_route
Remove(c, f, o) ==
  /\ call[c].pc = "idle" /\ routeOps < MaxRouteOps /\ routeOps' = routeOps + 1
  /\ wanRoute' = SetRoute(wanRoute, f, o, NoRoute)
  /\ Follow(c, wanRoute[f][o].def, IF f = "v4" /\ o \notin Docker THEN o ELSE NoOwner,
            IF wanRoute[f][o] = NoRoute THEN 0 ELSE 1)
  /\ UNCHANGED << defSlot, bell, loop, kernel, verdicts, sent, syncFails >>

DockerRoutes(f) == {o \in Docker : wanRoute[f][o] # NoRoute}
WithoutDocker(f) == [wanRoute EXCEPT ![f] = [o \in Owners |-> IF o \in Docker THEN NoRoute ELSE wanRoute[f][o]]]

\* remove_all_wan_docker: the IPv4 table, then the IPv6 table.
RemoveDocker(c) ==
  /\ call[c].pc = "idle" /\ routeOps < MaxRouteOps /\ routeOps' = routeOps + 1
  /\ wanRoute' = WithoutDocker("v4")
  /\ call' = [call EXCEPT ![c] = [pc |-> "docker6", seen |-> NoRoute, clear |-> NoOwner,
                                  events |-> Cardinality(DockerRoutes("v4"))]]
  /\ UNCHANGED << defSlot, bell, loop, kernel, verdicts, sent, overlap, syncFails >>

RemoveDocker6(c) ==
  /\ call[c].pc = "docker6"
  /\ wanRoute' = WithoutDocker("v6")
  /\ LET n == call[c].events + Cardinality(DockerRoutes("v6")) IN Follow(c, n > 0, NoOwner, n)
  /\ UNCHANGED << defSlot, bell, loop, kernel, verdicts, sent, routeOps, syncFails >>

\* refresh_default_router: any route marked default is the one.
ReadDefault(c) ==
  /\ call[c].pc \in {"read4", "read6"}
  /\ LET f == IF call[c].pc = "read4" THEN "v4" ELSE "v6" IN
     \E r \in IF Defaults(wanRoute, f) = {} THEN {NoRoute} ELSE Defaults(wanRoute, f) :
       GotoSeen(c, IF f = "v4" THEN "write4" ELSE "write6", r)
  /\ UNCHANGED << wanRoute, defSlot, bell, loop, kernel, verdicts, sent, overlap, routeOps, syncFails >>

WriteSlot4(c) ==
  /\ call[c].pc = "write4"
  /\ defSlot' = [defSlot EXCEPT !["v4"] = call[c].seen]
  /\ Goto(c, "read6")
  /\ UNCHANGED << wanRoute, bell, loop, kernel, verdicts, sent, overlap, routeOps, syncFails >>

Ring == TRUE

\* The IPv6 slot; then the reconcile loop's doorbell.
WriteSlot6(c) ==
  /\ call[c].pc = "write6"
  /\ defSlot' = [defSlot EXCEPT !["v6"] = call[c].seen]
  /\ bell' = Ring
  /\ Goto(c, IF call[c].clear # NoOwner THEN "clear" ELSE "notify")
  /\ UNCHANGED << wanRoute, loop, kernel, verdicts, sent, overlap, routeOps, syncFails >>

ClearHealth(c) ==
  /\ call[c].pc = "clear"
  /\ verdicts' = verdicts \ {call[c].clear}
  /\ Goto(c, IF call[c].events > 0 THEN "notify" ELSE "idle")
  /\ UNCHANGED << wanRoute, defSlot, bell, loop, kernel, sent, overlap, routeOps, syncFails >>

Notify(c) ==
  /\ call[c].pc = "notify"
  /\ sent' = sent + call[c].events
  /\ call' = [call EXCEPT ![c] = NoCall]
  /\ UNCHANGED << wanRoute, defSlot, bell, loop, kernel, verdicts, overlap, routeOps, syncFails >>

\* A health-check section pushes a snapshot of its link.
UpdateHealth(o) ==
  /\ o \in Owners \ (Docker \cup verdicts)
  /\ verdicts' = verdicts \cup {o}
  /\ UNCHANGED << wanRoute, defSlot, call, bell, loop, kernel, sent, overlap, routeOps, syncFails >>

\* The reconcile loop wakes at the doorbell, which takes the permit, or at its
\* 30 s tick, which leaves it.
LoopWakes ==
  /\ loop.pc = "wait"
  /\ loop' = [loop EXCEPT !.pc = "read"]
  /\ bell' \in {bell, FALSE}
  /\ UNCHANGED << wanRoute, defSlot, call, kernel, verdicts, sent, overlap, routeOps, syncFails >>

LoopReads ==
  /\ loop.pc = "read"
  /\ loop' = [loop EXCEPT !.pc = "sync", !.hops = kernel_default_nexthops(wanRoute)]
  /\ UNCHANGED << wanRoute, defSlot, call, bell, kernel, verdicts, sent, overlap, routeOps, syncFails >>

Waits(cache) == [pc |-> "wait", hops |-> {}, cache |-> cache]

\* Nothing to do, no nexthop (the kernel keeps what it has), or ip route replace.
LoopSyncs ==
  /\ loop.pc = "sync"
  /\ loop' = Waits(Known(loop.hops))
  /\ kernel' = IF loop.cache = Known(loop.hops) \/ loop.hops = {} THEN kernel ELSE loop.hops
  /\ UNCHANGED << wanRoute, defSlot, call, bell, verdicts, sent, overlap, routeOps, syncFails >>

\* Mutant: a failed command is remembered as done.
FailedCache_done == Known(loop.hops)

FailedCache == Unread

LoopSyncFails ==
  /\ loop.pc = "sync" /\ loop.cache # Known(loop.hops) /\ loop.hops # {}
  /\ syncFails < MaxSyncFails /\ syncFails' = syncFails + 1
  /\ loop' = Waits(FailedCache)
  /\ UNCHANGED << wanRoute, defSlot, call, bell, kernel, verdicts, sent, overlap, routeOps >>

CallStep(c) ==
  RemoveDocker6(c) \/ ReadDefault(c) \/ WriteSlot4(c) \/ WriteSlot6(c) \/ ClearHealth(c) \/ Notify(c)

LoopStep == LoopWakes \/ LoopReads \/ LoopSyncs

WanNext ==
  \/ \E c \in Callers : CallStep(c) \/ RemoveDocker(c)
  \/ \E c \in Callers, f \in Fams, o \in Owners : Remove(c, f, o) \/ \E r \in RoutesOf(o) : Insert(c, f, o, r)
  \/ \E o \in Owners : UpdateHealth(o)
  \/ LoopStep \/ LoopSyncFails

\* RouteCalls run to their end, and the loop's ticker always comes again.
WanFairness == (\A c \in Callers : WF_wanVars(CallStep(c))) /\ WF_wanVars(LoopStep)
WanSpec == WanInit /\ [][WanNext]_wanVars /\ WanFairness

(***************************************************************************)
(* Properties                                                              *)
(***************************************************************************)
\* Types of the tables, the calls and the reconcile loop.
WanTypeOK ==
  /\ wanRoute \in [Fams -> [Owners -> Routes \cup {NoRoute}]]
  /\ \A f \in Fams, o \in Owners : wanRoute[f][o].owner \in {o, NoOwner}
  /\ defSlot \in [Fams -> Routes \cup {NoRoute}]
  /\ call \in [Callers -> RouteCalls]
  /\ bell \in BOOLEAN
  /\ loop \in [pc : {"wait", "read", "sync"}, hops : SUBSET Routes, cache : [known : BOOLEAN, hops : SUBSET Routes]]
  /\ kernel \in SUBSET Routes /\ verdicts \in SUBSET (Owners \ Docker)
  /\ sent \in Nat /\ overlap \in BOOLEAN
  /\ routeOps \in 0 .. MaxRouteOps /\ syncFails \in 0 .. MaxSyncFails

RoutesQuiet == \A c \in Callers : call[c].pc = "idle"
SlotFits(f) == IF Defaults(wanRoute, f) = {} THEN defSlot[f] = NoRoute ELSE defSlot[f] \in Defaults(wanRoute, f)

\* When no call is running, each eBPF default slot holds a default route of the
\* table, or nothing when there is none, unless two refreshes overlapped.
DefaultSlotFollows == RoutesQuiet /\ ~overlap => \A f \in Fams : SlotFits(f)

\* The same without the exception: "syncs it into the eBPF route maps".
DefaultSlotAlwaysFollows == RoutesQuiet => \A f \in Fams : SlotFits(f)

\* While the loop waits and nobody is about to ring, what it last pushed is what
\* the table says: a change is never left to the 30 s tick alone.
KernelNotForgotten ==
  RoutesQuiet /\ loop.pc = "wait" /\ ~bell /\ loop.cache.known => loop.cache.hops = kernel_default_nexthops(wanRoute)

\* The kernel's default route is what the cache says it is: a failed command, or
\* one in between, never leaves the loop believing in a route that is not there.
CacheIsKernel == loop.cache.known /\ loop.cache.hops # {} => kernel = loop.cache.hops

\* Routes, default slots and the kernel agree: with no call running a slot
\* holds a default route of the table (unless refreshes overlapped), the loop
\* never waits on a cache older than the table with its doorbell silent, and
\* the cache never claims a kernel route that a failed command did not
\* install.
RoutesInv ==
    /\ WanTypeOK
    /\ DefaultSlotFollows
    /\ KernelNotForgotten
    /\ CacheIsKernel

\* Once the routes stay as they are, the kernel's IPv4 default route has exactly
\* their usable nexthops, whatever failed before; with none it is left alone.
KernelConverges == <>[](kernel = kernel_default_nexthops(wanRoute) \/ kernel_default_nexthops(wanRoute) = {})
=============================================================================
