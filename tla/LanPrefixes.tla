---------------------------- MODULE LanPrefixes ----------------------------
(***************************************************************************)
(* A delegated prefix on its way to the LAN: the client of PdClient sends  *)
(* an event to the hub, the hub broadcasts it, the LAN IPv6 service's      *)
(* observer (landscape/src/lan_service/lan_ipv6_service.rs) rings every    *)
(* server of an interface, and the server                                  *)
(* (landscape/src/lan_service/lan_ipv6_server/server.rs) reads the prefix  *)
(* map again and moves its addresses and routes.  The events say only that *)
(* something changed; what counts is the map when the server reads it.     *)
(***************************************************************************)
EXTENDS PdClient

CONSTANTS
    TooLong,                 \* prefixes longer than the link's expected_pd_len
    BroadcastRoom,           \* capacity of the hub's broadcast of prefix events
    MaxLanRuns               \* bound: starts of the interface's server

ASSUME LanConstants ==
    /\ TooLong \subseteq PdPrefixes /\ BroadcastRoom \in Nat \ {0}
    /\ MaxLanRuns \in Nat

VARIABLES
    pdUnread, pdLagged,      \* the observer's reader of prefix events: events left, Lagged pending
    observer,                \* the observer's loop is running
    lanBell,                 \* the server's watch has a value it has not seen
    lanAt,                   \* off, read, setup, idle, remove, add, failed
    cachedSubnets,           \* cached_subnets: prefixes the server serves
    lanDiff,                 \* prefixes it is about to remove and to add
    lanRoutes,               \* prefixes with an address and routes on the interface
    lanLeft,                 \* those a failed start left behind
    lanRuns

lanChannels == << pdUnread, pdLagged, observer >>
lanServer == << lanAt, cachedSubnets, lanDiff, lanRoutes, lanLeft >>
lanVars == << lanChannels, lanBell, lanServer, lanRuns >>
prefixVars == << pdVars, lanVars >>

NoDiff == [removed |-> {}, added |-> {}]
LanAts == {"off", "read", "setup", "idle", "remove", "add", "failed"}

LanInit ==
    /\ pdUnread = 0 /\ pdLagged = FALSE /\ observer = TRUE
    /\ lanBell = FALSE /\ lanAt = "off"
    /\ cachedSubnets = {} /\ lanDiff = NoDiff /\ lanRoutes = {} /\ lanLeft = {}
    /\ lanRuns = 0

(***************************************************************************)
(* The hub and the observer.                                               *)
(***************************************************************************)
\* The hub never waits: a broadcast past its capacity overwrites the oldest event.
HubForwards ==
    /\ HubTakes
    /\ IF pdUnread < BroadcastRoom THEN pdUnread' = pdUnread + 1 /\ UNCHANGED pdLagged
                                   ELSE pdLagged' = TRUE /\ UNCHANGED pdUnread
    /\ UNCHANGED << pdAt, pdNext, pdTask, pdTimers, pdAsked, pdStop, pdHost, releaseSent, pdRuns >>
    /\ UNCHANGED << observer, lanBell, lanServer, lanRuns >>

\* A Lagged error of the prefix reader is passed over: what is left is read next.
ObserverLagged ==
    /\ observer /\ pdLagged /\ pdLagged' = FALSE
    /\ UNCHANGED << pdVars, pdUnread, observer, lanBell, lanServer, lanRuns >>

\* Every server's watch is written; one of a server that has ended is written in vain.
RingLan == lanBell' = (lanAt \notin {"off", "failed"})

ObserverRings ==
    /\ observer /\ ~pdLagged /\ pdUnread > 0 /\ pdUnread' = pdUnread - 1
    /\ RingLan
    /\ UNCHANGED << pdVars, pdLagged, observer, lanServer, lanRuns >>

\* The reader of enrolled-device events, the loop's other branch, fell behind its broadcast: the error
\* ends the loop, and with it the prefix notifications.
ObserverEnds ==
    /\ observer /\ observer' = FALSE
    /\ UNCHANGED << pdVars, pdUnread, pdLagged, lanBell, lanServer, lanRuns >>

(***************************************************************************)
(* The server of an interface.                                             *)
(***************************************************************************)
\* What compute_subnets makes of the map: load_for_lan refuses a prefix that is too long.
Served == IF prefixMap = 0 \/ prefixMap \in TooLong THEN {} ELSE {prefixMap}

\* start: a new watch replaces the one before it, then the server's task is spawned.
LanStarts ==
    /\ lanAt \in {"off", "failed"} /\ lanRuns < MaxLanRuns
    /\ lanRuns' = lanRuns + 1 /\ lanAt' = "read" /\ lanBell' = FALSE
    /\ UNCHANGED << pdVars, lanChannels, cachedSubnets, lanDiff, lanRoutes, lanLeft >>

\* The task may find no link-local address and return before it did anything.
LanFindsNoAddress ==
    /\ lanAt = "read" /\ lanAt' = "failed" /\ lanBell' = FALSE
    /\ UNCHANGED << pdVars, lanChannels, cachedSubnets, lanDiff, lanRoutes, lanLeft, lanRuns >>

LanReads ==
    /\ lanAt = "read" /\ cachedSubnets' = Served /\ lanAt' = "setup"
    /\ UNCHANGED << pdVars, lanChannels, lanBell, lanDiff, lanRoutes, lanLeft, lanRuns >>

\* Mutant: the watch is marked as seen when the loop begins.
LanSetup_seen ==
    /\ lanAt = "setup" /\ lanRoutes' = lanRoutes \cup cachedSubnets /\ lanAt' = "idle" /\ lanBell' = FALSE
    /\ UNCHANGED << pdVars, lanChannels, cachedSubnets, lanDiff, lanLeft, lanRuns >>

\* The addresses and routes of the initial subnets are in place and both sockets open.
LanSetup ==
    /\ lanAt = "setup" /\ lanRoutes' = lanRoutes \cup cachedSubnets /\ lanAt' = "idle"
    /\ UNCHANGED << pdVars, lanChannels, lanBell, cachedSubnets, lanDiff, lanLeft, lanRuns >>

\* A socket cannot be opened: the task returns, and what it set up stays.
LanSetupFails ==
    /\ lanAt = "setup" /\ lanAt' = "failed" /\ lanBell' = FALSE
    /\ lanRoutes' = lanRoutes \cup cachedSubnets /\ lanLeft' = lanLeft \cup cachedSubnets /\ cachedSubnets' = {}
    /\ UNCHANGED << pdVars, lanChannels, lanDiff, lanRuns >>

\* The watch changed: recompute_and_diff.
LanRecomputes ==
    /\ lanAt = "idle" /\ lanBell /\ lanBell' = FALSE
    /\ cachedSubnets' = Served /\ lanAt' = "remove"
    /\ lanDiff' = [removed |-> cachedSubnets \ Served, added |-> Served \ cachedSubnets]
    /\ UNCHANGED << pdVars, lanChannels, lanRoutes, lanLeft, lanRuns >>

LanRemoves ==
    /\ lanAt = "remove" /\ lanRoutes' = lanRoutes \ lanDiff.removed /\ lanAt' = "add"
    /\ lanLeft' = lanLeft \ lanDiff.removed
    /\ UNCHANGED << pdVars, lanChannels, lanBell, cachedSubnets, lanDiff, lanRuns >>

LanAdds ==
    /\ lanAt = "add" /\ lanRoutes' = lanRoutes \cup lanDiff.added /\ lanAt' = "idle" /\ lanDiff' = NoDiff
    /\ UNCHANGED << pdVars, lanChannels, lanBell, cachedSubnets, lanLeft, lanRuns >>

\* Told to stop, at any time: the stop branch and the clean-up after the loop: the subnets in the cache go.
LanCleans ==
    /\ lanAt = "idle" /\ lanAt' = "off" /\ lanBell' = FALSE
    /\ lanRoutes' = lanRoutes \ cachedSubnets /\ lanLeft' = lanLeft \ cachedSubnets /\ cachedSubnets' = {}
    /\ UNCHANGED << pdVars, lanChannels, lanDiff, lanRuns >>

LanTask == LanReads \/ LanSetup \/ LanRecomputes \/ LanRemoves \/ LanAdds
Observer == ObserverLagged \/ ObserverRings \/ ObserverEnds

PrefixNext ==
    \/ PdSteps /\ UNCHANGED lanVars
    \/ HubForwards \/ Observer
    \/ LanTask \/ LanStarts \/ LanFindsNoAddress \/ LanSetupFails \/ LanCleans

PrefixInit == PdInit /\ LanInit

\* Every task of the runtime is run when it is ready; a select that is entered again and again takes
\* each branch that stays ready sooner or later.
PrefixFairness ==
    /\ PdFairness /\ WF_prefixVars(HubForwards)
    /\ WF_prefixVars(ObserverLagged) /\ WF_prefixVars(ObserverRings)
    /\ WF_prefixVars(LanTask)

PrefixSpec == PrefixInit /\ [][PrefixNext]_prefixVars /\ PrefixFairness

(***************************************************************************)
(* Properties.                                                             *)
(***************************************************************************)
\* Types of the channels and of the server; the broadcast never holds more than its capacity, and what failed
\* starts left is a part of what is routed.
LanTypeOK ==
    /\ pdUnread \in 0..BroadcastRoom
    /\ pdLagged \in BOOLEAN /\ observer \in BOOLEAN /\ lanBell \in BOOLEAN
    /\ lanAt \in LanAts
    /\ cachedSubnets \subseteq PdPrefixes /\ lanRoutes \subseteq PdPrefixes /\ lanLeft \subseteq lanRoutes
    /\ lanDiff \in [removed : SUBSET PdPrefixes, added : SUBSET PdPrefixes]
    /\ lanRuns \in 0..MaxLanRuns

\* Neither the client, the hub nor the server has anything left to do.
PrefixQuiet == lanAt = "idle" /\ ~lanBell /\ pdQueue = 0 /\ pdAt \in {"select", "ended", "off"}

\* Once every event has been taken in, the LAN serves what the map holds and routes what it serves,
\* whatever events were lost to Lagged and whenever the server was started; it may keep what an
\* earlier failed start left.  Only while the observer's loop runs: see LanFollowsAlways.
LanFollows ==
    (PrefixQuiet /\ observer /\ pdUnread = 0 /\ ~pdLagged)
    => /\ cachedSubnets = Served
       /\ cachedSubnets \subseteq lanRoutes /\ lanRoutes \subseteq cachedSubnets \cup lanLeft

\* "Notify all LAN services that prefix map changed" (lan_ipv6_service.rs:474), without the condition
\* on the observer.  False: an overflow of the device events ends its loop, and the LAN keeps
\* advertising a prefix that was withdrawn.
LanFollowsAlways == (PrefixQuiet /\ (observer => pdUnread = 0 /\ ~pdLagged)) => cachedSubnets = Served

\* A server that was stopped has taken its addresses and routes with it.
LanStoppedClean == lanAt = "off" => lanRoutes = lanLeft

\* Once every event has been taken in, a LAN server serves exactly the
\* prefixes of the map and routes what it serves, whatever was lost or merged
\* on the way, while its observer runs; a server that was stopped has taken
\* its addresses and routes with it.
LanInv == LanTypeOK /\ LanFollows /\ LanStoppedClean

\* A prefix that the client withdrew disappears from the LAN, unless the observer's loop has ended.
WithdrawnReachesLan ==
    (prefixMap = 0) ~> (prefixMap # 0 \/ cachedSubnets = {} \/ ~observer)

=============================================================================
