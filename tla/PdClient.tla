------------------------------ MODULE PdClient ------------------------------
(***************************************************************************)
(* The DHCPv6 prefix delegation client of a WAN link                       *)
(* (landscape/src/wan_service/ipv6pd_client/v6.rs): one task that asks for *)
(* a prefix, keeps it alive and gives it up, and what it leaves on the     *)
(* host: the process-wide prefix map the LAN reads, the link's IPv6 route, *)
(* the address binding of the data plane, the address of the WAN interface *)
(* and the kernel's source routes.  The awaits of a handler are steps of   *)
(* their own, for other tasks see the host between them.  Time passes in   *)
(* ticks of IPV6_TIMEOUT_DEFAULT_DURACTION while the task waits in its     *)
(* select; a timer that is due fires before the next tick.  A transaction  *)
(* id is drawn afresh for every transaction, so an answer to an earlier    *)
(* one never matches and is left out; an answer to the current one may     *)
(* come at any time after it was sent, or never.                           *)
(***************************************************************************)
EXTENDS Integers

CONSTANTS
    PdPrefixes,              \* prefixes a server may delegate (positive numbers)
    Narrow,                  \* those longer than /64: no WAN address is derived
    Terms,                   \* the records [t1, t2, valid] a server may send, in ticks
    T2_DEFAULT,              \* IPV6_T2_DEFAULT, in ticks
    SOLICIT_LIMIT,           \* Solicits of a round (4 in the code)
    REQUEST_LIMIT,           \* Requests before Solicit again (4 in the code)
    MAX_CONNECT_BACKOFF,     \* MAX_CONNECT_RETRY_BACKOFF_SECS, in ticks
    PdEventRoom,             \* capacity of the event hub's queue
    MaxPdRuns                \* bound: runs of the client

ASSUME PdConstants ==
    /\ PdPrefixes \subseteq Nat \ {0} /\ Narrow \subseteq PdPrefixes
    /\ Terms \subseteq [t1 : Nat, t2 : Nat, valid : Nat] /\ T2_DEFAULT \in Nat
    /\ SOLICIT_LIMIT \in Nat /\ REQUEST_LIMIT \in Nat /\ MAX_CONNECT_BACKOFF \in Nat
    /\ PdEventRoom \in Nat \ {0} /\ MaxPdRuns \in Nat

VARIABLES
    pdAt,        \* where the task is: off, select, an await of a handler, ended
    pdNext,      \* what follows clear_active_pd_prefix: [then, tell]
    pdState,     \* IpV6PdState
    pdLease,     \* its IA_PD: the prefix (0: none) and the terms
    pdSends,     \* send_times of Request
    pdAge,       \* ticks since bound_time
    pdTimer,     \* ticks until active_send fires
    pdTries,     \* timeout_times
    pdFails,     \* connect_failure_count, as the backoff it gave last (0: no failure)
    pdAsked,     \* the current transaction has been sent
    pdStop,      \* the stop token is cancelled
    wanPdAddr,   \* current_wan_addr (0: None)
    kernAddr,    \* ticks the kernel keeps each prefix's WAN address
    srcRoute,    \* ticks the kernel keeps each prefix's source route
    linkRoute,   \* the link's IPv6 route: [on, ip] with ip the interface address (0: unspecified)
    bound6,      \* the prefix bound in the data plane (0: none)
    prefixMap,   \* the link's entry of IAPrefixMap (0: none)
    pdQueue,     \* prefix events waiting in the hub's queue
    releaseSent, \* this run has sent a Release
    pdRuns

pdTask == << pdState, pdLease, pdSends, pdAge >>
pdTimers == << pdTimer, pdTries, pdFails >>
pdHost == << wanPdAddr, kernAddr, srcRoute, linkRoute, bound6, prefixMap >>
pdVars == << pdAt, pdNext, pdTask, pdTimers, pdAsked, pdStop, pdHost, pdQueue, releaseSent, pdRuns >>

NoTerms == [t1 |-> 0, t2 |-> 0, valid |-> 0]
Onward == [then |-> "timer", tell |-> FALSE]
NoLease == [p |-> 0, terms |-> NoTerms]
NoLinkRoute == [on |-> FALSE, ip |-> 0]
PdStates == {"Solicit", "Request", "Bound", "Renew", "WaitToRebind", "Rebind", "Stop"}
Active == {"Bound", "Renew", "WaitToRebind", "Rebind"}
AskingStates == {"Solicit", "Request", "Renew", "Rebind"}
PdAts == {"off", "select", "bind_route", "bind_map", "bind_event", "clear_route", "clear_event", "ended"}
Nothing == [p \in PdPrefixes |-> 0]
Less(a, b) == IF a < b THEN a ELSE b

PdInit ==
    /\ pdAt = "off" /\ pdNext = Onward /\ pdState = "Stop" /\ pdLease = NoLease
    /\ pdSends = 0 /\ pdAge = 0 /\ pdTimer = 0 /\ pdTries = 1 /\ pdFails = 0
    /\ pdAsked = FALSE /\ pdStop = FALSE
    /\ wanPdAddr = 0 /\ kernAddr = Nothing /\ srcRoute = Nothing
    /\ linkRoute = NoLinkRoute /\ bound6 = 0 /\ prefixMap = 0
    /\ pdQueue = 0 /\ releaseSent = FALSE /\ pdRuns = 0

(***************************************************************************)
(* Lifetimes and timers.                                                   *)
(***************************************************************************)
\* Ticks of valid lifetime left for the lease of an active state.
active_prefix_remaining(l, age) == IF l.terms.valid > age THEN l.terms.valid - age ELSE 0

T2(l) == IF l.terms.t2 = 0 THEN T2_DEFAULT ELSE l.terms.t2

ProtocolTimeout(s, l, age, tries) ==
    CASE s = "Bound"        -> l.terms.t1
      [] s = "WaitToRebind" -> IF T2(l) > age THEN T2(l) - age ELSE 0
      [] OTHER              -> tries

status_timeout_duration(s, l, age, tries) ==
    IF s \in Active THEN Less(ProtocolTimeout(s, l, age, tries), active_prefix_remaining(l, age))
                    ELSE ProtocolTimeout(s, l, age, tries)

\* get_status_timeout_config: arm the timer for the state the task is in now.
Arm(s, l, age, tries) ==
    /\ pdTimer' = status_timeout_duration(s, l, age, tries)
    /\ pdTries' = tries + 1

\* calc_connect_retry_backoff_secs: one failure more doubles the wait of the last one, up to the cap.
Backoff(last) == Less(IF last = 0 THEN 1 ELSE 2 * last, MAX_CONNECT_BACKOFF)

(***************************************************************************)
(* The timer branch.                                                       *)
(***************************************************************************)
\* clear_active_pd_prefix up to its await on the route service: the map's entry and its source
\* route.  An event follows later if there was an entry.
BeginClear(then) ==
    /\ prefixMap' = 0
    /\ srcRoute' = IF prefixMap = 0 THEN srcRoute ELSE [srcRoute EXCEPT ![prefixMap] = 0]
    /\ pdAt' = "clear_route" /\ pdNext' = [then |-> then, tell |-> prefixMap # 0]

TimerDue == pdAt = "select" /\ pdTimer = 0

\* A round of Solicits went unanswered: back off, then start again.
SolicitGivesUp ==
    /\ TimerDue /\ pdState = "Solicit" /\ pdTries > SOLICIT_LIMIT
    /\ pdFails' = Backoff(pdFails) /\ pdTimer' = Backoff(pdFails) /\ pdTries' = 1
    /\ pdAsked' = FALSE
    /\ UNCHANGED << pdAt, pdNext, pdTask, pdStop, pdHost, pdQueue, releaseSent, pdRuns >>

Sending == TimerDue /\ ~(pdState = "Solicit" /\ pdTries > SOLICIT_LIMIT)
PrefixExpired == pdState \in Active /\ active_prefix_remaining(pdLease, pdAge) = 0

\* The valid lifetime is over: Solicit again, after clear_active_pd_prefix.
SendExpired ==
    /\ Sending /\ PrefixExpired
    /\ pdState' = "Solicit" /\ pdLease' = NoLease /\ pdAge' = 0 /\ pdAsked' = FALSE
    /\ BeginClear("timer")
    /\ UNCHANGED << pdSends, pdTimers, pdStop, wanPdAddr, kernAddr, linkRoute, bound6, pdQueue, releaseSent, pdRuns >>

SendSolicit ==
    /\ Sending /\ pdState = "Solicit"
    /\ pdAsked' = TRUE /\ Arm("Solicit", pdLease, pdAge, pdTries)
    /\ UNCHANGED << pdAt, pdNext, pdTask, pdFails, pdStop, pdHost, pdQueue, releaseSent, pdRuns >>

\* The last Request is sent and its transaction given up in the same step.
SendRequest ==
    /\ Sending /\ pdState = "Request"
    /\ IF pdSends > REQUEST_LIMIT
       THEN /\ pdState' = "Solicit" /\ pdLease' = NoLease /\ pdSends' = 0 /\ pdAsked' = FALSE
            /\ Arm("Solicit", NoLease, 0, 0)
       ELSE /\ pdSends' = pdSends + 1 /\ pdAsked' = TRUE /\ UNCHANGED << pdState, pdLease >>
            /\ Arm("Request", pdLease, pdAge, pdTries)
    /\ UNCHANGED << pdAt, pdNext, pdAge, pdFails, pdStop, pdHost, pdQueue, releaseSent, pdRuns >>

\* T1: renew, under a new transaction.
BoundTurns ==
    /\ Sending /\ pdState = "Bound" /\ ~PrefixExpired
    /\ pdState' = "Renew" /\ pdAsked' = FALSE /\ Arm("Renew", pdLease, pdAge, 0)
    /\ UNCHANGED << pdAt, pdNext, pdLease, pdSends, pdAge, pdFails, pdStop, pdHost, pdQueue, releaseSent, pdRuns >>

\* Past 80% of T2 (t2 / 10 * 8 seconds) the Renew just sent is the last one.
SendRenew ==
    /\ Sending /\ pdState = "Renew" /\ ~PrefixExpired
    /\ pdAsked' = TRUE
    /\ IF 10 * pdAge >= 8 * T2(pdLease)
       THEN pdState' = "WaitToRebind" /\ Arm("WaitToRebind", pdLease, pdAge, 0)
       ELSE UNCHANGED pdState /\ Arm("Renew", pdLease, pdAge, pdTries)
    /\ UNCHANGED << pdAt, pdNext, pdLease, pdSends, pdAge, pdFails, pdStop, pdHost, pdQueue, releaseSent, pdRuns >>

WaitTurns ==
    /\ Sending /\ pdState = "WaitToRebind" /\ ~PrefixExpired
    /\ pdState' = "Rebind" /\ pdAsked' = FALSE /\ Arm("Rebind", pdLease, pdAge, 0)
    /\ UNCHANGED << pdAt, pdNext, pdLease, pdSends, pdAge, pdFails, pdStop, pdHost, pdQueue, releaseSent, pdRuns >>

\* Mutant: a Rebind that goes unanswered is not repeated.
SendRebind_once ==
    /\ Sending /\ pdState = "Rebind" /\ ~PrefixExpired /\ ~pdAsked
    /\ pdAsked' = TRUE /\ Arm("Rebind", pdLease, pdAge, pdTries)
    /\ UNCHANGED << pdAt, pdNext, pdTask, pdFails, pdStop, pdHost, pdQueue, releaseSent, pdRuns >>

SendRebind ==
    /\ Sending /\ pdState = "Rebind" /\ ~PrefixExpired
    /\ pdAsked' = TRUE /\ Arm("Rebind", pdLease, pdAge, pdTries)
    /\ UNCHANGED << pdAt, pdNext, pdTask, pdFails, pdStop, pdHost, pdQueue, releaseSent, pdRuns >>

SendTurn == SendExpired \/ SendSolicit \/ SendRequest \/ BoundTurns \/ SendRenew \/ WaitTurns \/ SendRebind

(***************************************************************************)
(* The message branch: handle_packet.                                      *)
(***************************************************************************)
\* An Advertise with a server id and an IA_PD, with or without a prefix in it; the terms offered
\* are only echoed in the Request.
Advertised ==
    /\ pdAt = "select" /\ pdState = "Solicit" /\ pdAsked
    /\ \E p \in PdPrefixes \cup {0} : pdLease' = [p |-> p, terms |-> NoTerms]
    /\ pdState' = "Request" /\ pdSends' = 0 /\ pdAsked' = FALSE
    /\ Arm("Request", NoLease, 0, 0)
    /\ UNCHANGED << pdAt, pdNext, pdAge, pdFails, pdStop, pdHost, pdQueue, releaseSent, pdRuns >>

\* The address derived from the prefix, if any (derive_wan_pd_addr).
Derived(p) == IF p \in Narrow THEN 0 ELSE p

\* The WAN address: the new one is set, the one it replaces deleted.
Readdress(p, valid) ==
    IF Derived(p) = 0 THEN UNCHANGED << wanPdAddr, kernAddr >>
    ELSE /\ wanPdAddr' = p
         /\ kernAddr' = [q \in PdPrefixes |-> IF q = p THEN valid ELSE IF q = wanPdAddr THEN 0 ELSE kernAddr[q]]

\* A successful Reply of the server asked, with a prefix; any other changes nothing.
\* Status and address are set here, up to the await on the route service.
Replied ==
    /\ pdAt = "select" /\ pdState \in {"Request", "Renew", "WaitToRebind", "Rebind"} /\ pdAsked
    /\ \E p \in PdPrefixes, t \in Terms :
          /\ pdLease' = [p |-> p, terms |-> t]
          /\ Readdress(p, t.valid)
    /\ pdState' = "Bound" /\ pdAge' = 0 /\ pdSends' = 0 /\ pdAsked' = FALSE
    /\ pdAt' = "bind_route"
    /\ UNCHANGED << pdNext, pdTimers, pdStop, srcRoute, linkRoute, bound6, prefixMap, pdQueue, releaseSent, pdRuns >>

\* Mutant: the map is written before the route.
BindRoute_mapFirst ==
    /\ pdAt = "bind_route"
    /\ prefixMap' = pdLease.p
    /\ pdAt' = "bind_map"
    /\ UNCHANGED << pdNext, pdTask, pdTimers, pdAsked, pdStop, wanPdAddr, kernAddr, srcRoute, linkRoute, bound6,
                    pdQueue, releaseSent, pdRuns >>

BindRoute ==
    /\ pdAt = "bind_route"
    /\ linkRoute' = [on |-> TRUE, ip |-> Derived(pdLease.p)]
    /\ pdAt' = "bind_map"
    /\ UNCHANGED << pdNext, pdTask, pdTimers, pdAsked, pdStop, wanPdAddr, kernAddr, srcRoute, bound6, prefixMap,
                    pdQueue, releaseSent, pdRuns >>

\* replace_ip_route and prefix_map.store
BindMap ==
    /\ pdAt = "bind_map"
    /\ srcRoute' = [srcRoute EXCEPT ![pdLease.p] = pdLease.terms.valid]
    /\ bound6' = pdLease.p /\ prefixMap' = pdLease.p
    /\ pdAt' = "bind_event"
    /\ UNCHANGED << pdNext, pdTask, pdTimers, pdAsked, pdStop, wanPdAddr, kernAddr, linkRoute, pdQueue, releaseSent, pdRuns >>

\* The event is sent, waiting for room, and the timer armed from T1.
BindEvent ==
    /\ pdAt = "bind_event" /\ pdQueue < PdEventRoom
    /\ pdQueue' = pdQueue + 1 /\ pdFails' = 0 /\ Arm("Bound", pdLease, pdAge, 0)
    /\ pdAt' = "select"
    /\ UNCHANGED << pdNext, pdTask, pdAsked, pdStop, pdHost, releaseSent, pdRuns >>

\* A packet that cannot be decoded is answered by arming the timer anew.
Undecodable ==
    /\ pdAt = "select" /\ Arm(pdState, pdLease, pdAge, 0)
    /\ UNCHANGED << pdAt, pdNext, pdTask, pdFails, pdAsked, pdStop, pdHost, pdQueue, releaseSent, pdRuns >>

(***************************************************************************)
(* clear_active_pd_prefix, the stop branch and the end of the task.        *)
(***************************************************************************)
StopBegins ==
    /\ pdAt = "select" /\ pdStop
    /\ BeginClear("stop")
    /\ UNCHANGED << pdTask, pdTimers, pdAsked, pdStop, wanPdAddr, kernAddr, linkRoute, bound6, pdQueue, releaseSent, pdRuns >>

\* The receiving task is gone (message_rx closed): the loop ends without a Release.
ReceiverLost ==
    /\ pdAt = "select"
    /\ BeginClear("lost")
    /\ UNCHANGED << pdTask, pdTimers, pdAsked, pdStop, wanPdAddr, kernAddr, linkRoute, bound6, pdQueue, releaseSent, pdRuns >>

\* remove_ipv6_link_route returns; unbind and delete the address; then the event, if there was an entry.
ClearRoute ==
    /\ pdAt = "clear_route"
    /\ linkRoute' = NoLinkRoute /\ bound6' = 0
    /\ wanPdAddr' = 0 /\ kernAddr' = IF wanPdAddr = 0 THEN kernAddr ELSE [kernAddr EXCEPT ![wanPdAddr] = 0]
    /\ pdAt' = "clear_event"
    /\ UNCHANGED << pdNext, pdTask, pdTimers, pdAsked, pdStop, srcRoute, prefixMap, pdQueue, releaseSent, pdRuns >>

\* Mutant: nobody is told that the prefix is gone.
TellExpired_never(due) == UNCHANGED pdQueue

TellExpired(due) == IF due THEN pdQueue < PdEventRoom /\ pdQueue' = pdQueue + 1 ELSE UNCHANGED pdQueue

\* The timer branch arms the timer and goes on.
ClearThenWait ==
    /\ pdAt = "clear_event" /\ pdNext.then = "timer"
    /\ TellExpired(pdNext.tell)
    /\ Arm(pdState, pdLease, pdAge, 0) /\ pdAt' = "select" /\ pdNext' = Onward
    /\ UNCHANGED << pdTask, pdFails, pdAsked, pdStop, pdHost, releaseSent, pdRuns >>

\* The stop branch sends a Release if there is a binding to release, and the task ends.
ClearThenEnd ==
    /\ pdAt = "clear_event" /\ pdNext.then \in {"stop", "lost"}
    /\ TellExpired(pdNext.tell)
    /\ releaseSent' = (releaseSent \/ (pdNext.then = "stop" /\ pdState # "Solicit" /\ pdLease.p # 0))
    /\ pdAt' = "ended" /\ pdNext' = Onward
    /\ pdState' = "Stop" /\ pdLease' = NoLease /\ pdAge' = 0 /\ pdSends' = 0
    /\ pdTimer' = 0 /\ pdTries' = 1 /\ pdFails' = 0 /\ pdAsked' = FALSE
    /\ UNCHANGED << pdStop, pdHost, pdRuns >>

(***************************************************************************)
(* The client is started by the link, once its previous run has ended; it  *)
(* may be told to stop at any time; time passes.                           *)
(***************************************************************************)
\* A socket that cannot be created ends the run before it began.
PdStarts ==
    /\ pdAt \in {"off", "ended"} /\ pdRuns < MaxPdRuns
    /\ pdRuns' = pdRuns + 1 /\ pdStop' = FALSE /\ releaseSent' = FALSE
    /\ pdAt' = "select" /\ pdState' = "Solicit" /\ pdTimer' = 0 /\ pdTries' = 1
    /\ UNCHANGED << pdNext, pdLease, pdSends, pdAge, pdFails, pdAsked, pdHost, pdQueue >>

PdStartFails ==
    /\ pdAt \in {"off", "ended"} /\ pdRuns < MaxPdRuns
    /\ pdRuns' = pdRuns + 1 /\ pdStop' = FALSE /\ releaseSent' = FALSE /\ pdAt' = "ended"
    /\ UNCHANGED << pdNext, pdTask, pdTimers, pdAsked, pdHost, pdQueue >>

PdStopRequested ==
    /\ pdAt \notin {"off", "ended"} /\ ~pdStop /\ pdStop' = TRUE
    /\ UNCHANGED << pdAt, pdNext, pdTask, pdTimers, pdAsked, pdHost, pdQueue, releaseSent, pdRuns >>

Sub1(n) == IF n > 0 THEN n - 1 ELSE 0

PdTick ==
    /\ pdAt = "select" /\ pdTimer > 0
    /\ pdTimer' = pdTimer - 1
    /\ pdAge' = IF pdState \in Active THEN pdAge + 1 ELSE pdAge
    /\ kernAddr' = [p \in PdPrefixes |-> Sub1(kernAddr[p])]
    /\ srcRoute' = [p \in PdPrefixes |-> Sub1(srcRoute[p])]
    /\ UNCHANGED << pdAt, pdNext, pdState, pdLease, pdSends, pdTries, pdFails, pdAsked, pdStop, wanPdAddr, linkRoute,
                    bound6, prefixMap, pdQueue, releaseSent, pdRuns >>

\* The event hub takes an event from the queue (landscape-common/src/event/hub).
HubTakes == pdQueue > 0 /\ pdQueue' = pdQueue - 1

PdHandlers == SolicitGivesUp \/ SendTurn \/ BindRoute \/ BindMap \/ BindEvent \/ ClearRoute \/ ClearThenWait \/ ClearThenEnd

\* What comes from outside, and the branches the select may always take.
PdSteps ==
    \/ PdHandlers \/ StopBegins \/ PdTick
    \/ Advertised \/ Replied \/ Undecodable \/ ReceiverLost
    \/ PdStarts \/ PdStartFails \/ PdStopRequested

\* The runtime runs the task whenever it is ready, and its clock goes on.
PdFairness == WF_pdVars(PdHandlers) /\ SF_pdVars(StopBegins) /\ WF_pdVars(PdTick)

\* The client with a hub that takes every event sooner or later.
PdHub == HubTakes /\ UNCHANGED << pdAt, pdNext, pdTask, pdTimers, pdAsked, pdStop, pdHost, releaseSent, pdRuns >>
PdSpec == PdInit /\ [][PdSteps \/ PdHub]_pdVars /\ PdFairness /\ WF_pdVars(PdHub)

(***************************************************************************)
(* Properties.                                                             *)
(***************************************************************************)
PdNexts == [then : {"timer", "stop", "lost"}, tell : BOOLEAN]
PdLeases == [p : PdPrefixes \cup {0}, terms : Terms \cup {NoTerms}]
LinkRoutes == [on : BOOLEAN, ip : PdPrefixes \cup {0}]

\* Types of the machine, the host and the event queue; neither the sends of Request nor the queue pass their limits.
PdTypeOK ==
    /\ pdAt \in PdAts /\ pdNext \in PdNexts /\ pdState \in PdStates /\ pdLease \in PdLeases
    /\ pdSends \in 0..REQUEST_LIMIT + 1 /\ pdAge \in Nat /\ pdTimer \in Nat /\ pdTries \in Nat /\ pdFails \in Nat
    /\ pdAsked \in BOOLEAN /\ pdStop \in BOOLEAN /\ releaseSent \in BOOLEAN
    /\ wanPdAddr \in PdPrefixes \cup {0} /\ bound6 \in PdPrefixes \cup {0} /\ prefixMap \in PdPrefixes \cup {0}
    /\ kernAddr \in [PdPrefixes -> Nat] /\ srcRoute \in [PdPrefixes -> Nat]
    /\ linkRoute \in LinkRoutes
    /\ pdQueue \in 0..PdEventRoom /\ pdRuns \in 0..MaxPdRuns

\* No prefix is published past its valid lifetime: whatever wait the client is in when the lease
\* runs out (T1, T2, the retries of Renew and Rebind, a timer armed anew by an undecodable packet),
\* the map holds the prefix of a lease that is still valid, or the task is about to withdraw it.
PrefixNotOutlived ==
    (prefixMap # 0 /\ pdAt = "select") =>
        /\ pdState \in Active /\ pdLease.p = prefixMap
        /\ pdAge <= pdLease.terms.valid /\ pdTimer <= active_prefix_remaining(pdLease, pdAge)

\* A reader that finds the prefix in the map, at any await of the client, finds the route of the
\* link and the binding of the data plane: the map is written last and cleared first.
MapIsUsable == prefixMap # 0 => linkRoute.on /\ bound6 # 0 /\ (pdAt \in {"select", "bind_event"} => bound6 = prefixMap)

\* No address outlives its prefix: outside a handler the kernel has no WAN address but the one the
\* client knows of, and after the end of a run none, nor a route, a binding or a map entry.
AddressesKnown ==
    /\ pdAt = "select" => \A p \in PdPrefixes : kernAddr[p] > 0 => p = wanPdAddr
    /\ pdAt \in {"off", "ended"} => /\ wanPdAddr = 0 /\ bound6 = 0 /\ prefixMap = 0 /\ linkRoute = NoLinkRoute
                                     /\ \A p \in PdPrefixes : kernAddr[p] = 0

\* A prefix is released only after its use has stopped (the stop branch clears before it sends).
ReleaseAfterUse == releaseSent => prefixMap = 0 /\ linkRoute = NoLinkRoute /\ bound6 = 0 /\ wanPdAddr = 0

\* A delegated prefix is used exactly while it is held: it is never published
\* past its lifetime, the map names it only with route and binding under it,
\* no address on the interface is unknown to the client, and the Release goes
\* out after the last use.
PdInv ==
    /\ PdTypeOK
    /\ PrefixNotOutlived
    /\ MapIsUsable
    /\ AddressesKnown
    /\ ReleaseAfterUse

\* Only the current prefix has a source route.  False: a Reply with another prefix leaves the route of
\* the one before it to its own lifetime in the kernel.
SourceRouteFollows == pdAt = "select" => \A p \in PdPrefixes : srcRoute[p] > 0 => p = prefixMap

\* A lease that lasts longer than T1 is asked to be renewed before it ends.  False: an undecodable packet
\* arms T1 anew from the moment it arrives.
RenewedInTime ==
    (pdAt = "select" /\ pdState = "Bound" /\ pdLease.terms.t1 < pdLease.terms.valid) => ~PrefixExpired

\* A client that is neither stopped nor lost asks, or is answered, again and again: no wait of
\* the machine is forever, whichever packets are lost and in whichever state, unless packets that
\* cannot be decoded keep arming the timer anew.
PdKeepsAsking ==
    \/ []<>(pdAt \in {"off", "ended"})
    \/ []<><< SendSolicit \/ SendRequest \/ SendRenew \/ SendRebind \/ Replied \/ Undecodable >>_pdVars

\* A stop request ends the run, whatever handler or wait it meets.
PdStopEnds == pdStop ~> (pdAt = "ended" \/ ~pdStop)

\* The delegation client never gets stuck: no wait is for ever, whichever
\* packets are lost, and a stop ends every handler and every wait.
PdLive == PdKeepsAsking /\ PdStopEnds

=============================================================================
