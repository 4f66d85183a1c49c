----------------------------- MODULE DhcpV4Client -----------------------------
(***************************************************************************)
(* landscape/src/wan_service/dhcpv4_client: the DHCPv4 state machine       *)
(* (fsm.rs), the task that drives it (driver.rs) and what it does to the   *)
(* host (system.rs): kernel address, LAN route, link route, eBPF binding   *)
(* and the link's session.                                                 *)
(*                                                                         *)
(* Time is discrete and counted down: a timer or a deadline is the number  *)
(* of seconds left (a deadline goes negative once it has passed).  Time    *)
(* passes only while the driver waits in its select! and its timer is      *)
(* pending, so "late" below means late by the client's own schedule.       *)
(* Every await between two visible effects is a step of its own.           *)
(* Transaction ids are drawn fresh: no two exchanges that still have a     *)
(* datagram in flight share one.                                           *)
(***************************************************************************)
EXTENDS Integers, FiniteSets

CONSTANTS Addrs,           \* the address/prefix pairs servers hand out
          NoAddr,          \* no address
          Options,         \* lease options of an ACK: [lease, t1, t2, gw]
          Xids,            \* the transaction ids in use at one time
          MaxNet,          \* bound: replies in flight
          DEFAULT_TIME_OUT, MAX_BACKOFF, MIN_WAIT,
          DISCOVER_ATTEMPTS_PER_ROUND, REQUEST_ATTEMPTS

ASSUME ConstAssumption ==
    /\ NoAddr \notin Addrs
    /\ Options # {}
    /\ Options \subseteq [lease : Nat, t1 : Nat, t2 : Nat, gw : BOOLEAN]
    /\ Xids \subseteq Nat
    /\ Xids # {}
    /\ MaxNet \in Nat
    /\ DEFAULT_TIME_OUT \in Nat \ {0}
    /\ MAX_BACKOFF \in Nat
    /\ MIN_WAIT \in Nat
    /\ DISCOVER_ATTEMPTS_PER_ROUND \in Nat
    /\ REQUEST_ATTEMPTS \in Nat \ {0}

VARIABLES st,         \* DhcpState
          xid,        \* its transaction id
          offer,      \* the offered address (Requesting)
          lease,      \* the lease (Bound, Renewing, WaitToRebind, Rebind)
          attempts, failures,
          timer,      \* the driver's sleep: seconds left
          pc,         \* where the driver is
          out,        \* the Send action still to be executed
          fromRecv,   \* the event being handled is a received datagram
          applied,    \* RealSystemOps.applied
          kernel,     \* the interface's addresses: seconds of valid_lft left
          lanRoute, linkRoute, binding, session,
          stop,       \* the service's stop token is cancelled
          asked,      \* the last datagram the servers saw from this client
          net         \* replies in flight

fsmVars == <<st, xid, offer, lease, attempts, failures>>
sysVars == <<applied, kernel, lanRoute, linkRoute, binding, session>>
envVars == <<stop, asked, net>>
vars == <<fsmVars, timer, pc, out, fromRecv, sysVars, envVars>>

(***************************************************************************)
(* Durations.                                                              *)
(***************************************************************************)
AtLeast(a, b) == IF a < b THEN b ELSE a
AtMost(a, b) == IF a > b THEN b ELSE a
Clamp(x, lo, hi) == AtMost(AtLeast(x, lo), hi)

\* 1 << e for the exponents that matter: past 8 both users are at their cap.
Pow2(e) == <<1, 2, 4, 8, 16, 32, 64, 128, 256>>[AtMost(e, 8) + 1]

\* Base 4 s, doubled per failure, at most ten minutes.
calc_connect_retry_backoff_secs(n) ==
    AtMost(DEFAULT_TIME_OUT * Pow2(AtLeast(n - 1, 0)), MAX_BACKOFF)

\* Base doubled per attempt up to 16 times, jitter \in 0..2.
retry_wait(n, jitter) ==
    DEFAULT_TIME_OUT * Pow2(AtMost(AtLeast(n - 1, 0), 4)) - 1 + jitter

\* <<T1, T2, lease>>; an absent or zero t1/t2 option takes its default.
\* Mutant: T1 may reach the end of the lease.
get_renew_times_noclamp(o) ==
    LET l == AtLeast(o.lease, 2)
        t1 == AtLeast(IF o.t1 > 0 THEN o.t1 ELSE l \div 2, 1)
        d2 == AtLeast((l * 7) \div 8, l \div 2 + 1)
        t2 == AtLeast(IF o.t2 > 0 THEN o.t2 ELSE d2, t1 + 1)
    IN  [renew |-> t1, rebind |-> t2, lease |-> l]

get_renew_times(o) ==
    LET l == AtLeast(o.lease, 2)
        t1 == Clamp(IF o.t1 > 0 THEN o.t1 ELSE l \div 2, 1, l - 1)
        d2 == AtLeast((l * 7) \div 8, l \div 2 + 1)
        t2 == Clamp(IF o.t2 > 0 THEN o.t2 ELSE d2, t1 + 1, l)
    IN  [renew |-> t1, rebind |-> t2, lease |-> l]

(***************************************************************************)
(* State of the machine and of the world around it.                        *)
(***************************************************************************)
Leased == {"Bound", "Renewing", "WaitToRebind", "Rebind"}
DhcpStates == {"Discovering", "Requesting"} \cup Leased

NoLease == [ip |-> NoAddr, gw |-> FALSE, span |-> 0, rebind |-> 0, left |-> 0]

\* rebind and left count down to rebind_at and lease_at; span is the constant
\* rebind_at - renew_at.
Leases == [ip : Addrs, gw : BOOLEAN, span : Nat, rebind : Int, left : Int]

NewLease(a, o) ==
    LET t == get_renew_times(o)
    IN  [ip |-> a, gw |-> o.gw, span |-> t.rebind - t.renew,
         rebind |-> t.rebind, left |-> t.lease]

\* The same lease, a second later.
Older(l) == [ip |-> l.ip, gw |-> l.gw, span |-> l.span,
             rebind |-> l.rebind - 1, left |-> l.left - 1]

leased_ip == IF st \in Leased THEN lease.ip ELSE NoAddr

\* Datagrams of the client, and replies.  complete: the ACK carries the lease
\* time and the mask.
Ask(k, x) == [kind |-> k, xid |-> x]
NoAsk == [kind |-> "none", xid |-> CHOOSE x \in Xids : TRUE]
Asks == [kind : {"none", "Discover", "Request", "Renew"}, xid : Xids]
Replies == [type : {"Offer", "Ack", "Nak"}, xid : Xids,
            yiaddr : Addrs \cup {NoAddr}, opts : Options, complete : BOOLEAN]
AnyOptions == CHOOSE o \in Options : TRUE
Reply(t, x, a, o, c) ==
    [type |-> t, xid |-> x, yiaddr |-> a, opts |-> o, complete |-> c]

\* get_new_ipv4_xid: an id no datagram in flight carries.
FreshXids == Xids \ ({m.xid : m \in net} \cup {asked.xid, xid})
Draw(x) == x \in FreshXids /\ \A y \in FreshXids : x <= y

BindSteps == {"b_del", "b_replace", "b_lan", "b_bind", "b_link"}
ReleaseSteps == {"r_del", "r_session", "r_link", "r_lan", "r_unbind"}

(***************************************************************************)
(* fsm.rs on_timer, one action per state.                                  *)
(***************************************************************************)
TimerFires == pc = "select" /\ timer = 0

\* A fresh Discovering state: DhcpState::init(None).
Rediscover(x) == /\ st' = "Discovering"
                 /\ xid' = x
                 /\ offer' = NoAddr
                 /\ lease' = NoLease

\* Execute the actions: release first (then send), or send, or only the tail.
SendNow(k, x, wait) == /\ out' = Ask(k, x)
                       /\ timer' = wait
                       /\ pc' = "send"

\* Mutant: the attempts of the exhausted round are not reset.
DiscoverTimer_stuck ==
    /\ TimerFires
    /\ st = "Discovering"
    /\ fromRecv' = FALSE
    /\ \/ /\ attempts >= DISCOVER_ATTEMPTS_PER_ROUND
          /\ \E x \in Xids : Draw(x) /\ Rediscover(x)
          /\ failures' = AtMost(failures + 1, 9)
          /\ timer' = calc_connect_retry_backoff_secs(failures')
          /\ UNCHANGED <<attempts, pc, out>>
       \/ /\ attempts < DISCOVER_ATTEMPTS_PER_ROUND
          /\ attempts' = attempts + 1
          /\ \E j \in 0..2 : SendNow("Discover", xid, retry_wait(attempts', j))
          /\ UNCHANGED <<st, xid, offer, lease, failures>>
    /\ UNCHANGED <<sysVars, envVars>>

DiscoverTimer ==
    /\ TimerFires
    /\ st = "Discovering"
    /\ fromRecv' = FALSE
    /\ \/ /\ attempts >= DISCOVER_ATTEMPTS_PER_ROUND
          /\ \E x \in Xids : Draw(x) /\ Rediscover(x)
          /\ failures' = AtMost(failures + 1, 9)
          /\ attempts' = 0
          /\ timer' = calc_connect_retry_backoff_secs(failures')
          /\ UNCHANGED <<pc, out>>
       \/ /\ attempts < DISCOVER_ATTEMPTS_PER_ROUND
          /\ attempts' = attempts + 1
          /\ \E j \in 0..2 : SendNow("Discover", xid, retry_wait(attempts', j))
          /\ UNCHANGED <<st, xid, offer, lease, failures>>
    /\ UNCHANGED <<sysVars, envVars>>

RequestTimer ==
    /\ TimerFires
    /\ st = "Requesting"
    /\ fromRecv' = FALSE
    /\ \/ /\ attempts >= REQUEST_ATTEMPTS
          /\ \E x \in Xids, j \in 0..2 :
                /\ Draw(x) /\ Rediscover(x)
                /\ SendNow("Discover", x, retry_wait(1, j))
          /\ attempts' = 1
       \/ /\ attempts < REQUEST_ATTEMPTS
          /\ attempts' = attempts + 1
          /\ \E j \in 0..2 : SendNow("Request", xid, retry_wait(attempts', j))
          /\ UNCHANGED <<st, xid, offer, lease>>
    /\ UNCHANGED <<failures, sysVars, envVars>>

\* The request of Renewing, and the wait that follows it.
Renew(x) ==
    IF lease.rebind <= lease.span \div 6
    THEN /\ st' = "WaitToRebind"
         /\ SendNow("Renew", x, AtLeast(lease.rebind, 0))
    ELSE /\ st' = "Renewing"
         /\ SendNow("Renew", x, AtLeast(lease.rebind \div 2, MIN_WAIT))

BoundTimer ==
    /\ TimerFires
    /\ st = "Bound"
    /\ fromRecv' = FALSE
    /\ attempts' = 0
    /\ \E x \in Xids : Draw(x) /\ xid' = x /\ Renew(x)
    /\ UNCHANGED <<offer, lease, failures, sysVars, envVars>>

RenewTimer ==
    /\ TimerFires
    /\ st = "Renewing"
    /\ fromRecv' = FALSE
    /\ Renew(xid)
    /\ UNCHANGED <<xid, offer, lease, attempts, failures, sysVars, envVars>>

\* Rebind's turn of on_timer, in a state whose id is x (attempts is 0 there).
\* Mutant: an expired lease is given up without releasing it.
RebindTurn_norelease(x) ==
    \/ /\ lease.left < 0
       /\ \E y \in Xids, j \in 0..2 :
             /\ Draw(y) /\ Rediscover(y)
             /\ SendNow("Discover", y, retry_wait(1, j))
       /\ attempts' = 1
    \/ /\ lease.left >= 0
       /\ st' = "Rebind" /\ xid' = x
       /\ attempts' = 0
       /\ SendNow("Renew", x, AtLeast(lease.left \div 2, MIN_WAIT))
       /\ UNCHANGED <<offer, lease>>

RebindTurn(x) ==
    \/ /\ lease.left < 0
       /\ \E y \in Xids, j \in 0..2 :
             /\ Draw(y) /\ Rediscover(y)
             /\ out' = Ask("Discover", y)
             /\ timer' = retry_wait(1, j)
             /\ pc' = "r_del"
       /\ attempts' = 1
    \/ /\ lease.left >= 0
       /\ st' = "Rebind" /\ xid' = x
       /\ attempts' = 0
       /\ SendNow("Renew", x, AtLeast(lease.left \div 2, MIN_WAIT))
       /\ UNCHANGED <<offer, lease>>

WaitToRebindTimer ==
    /\ TimerFires
    /\ st = "WaitToRebind"
    /\ fromRecv' = FALSE
    /\ \E x \in Xids : Draw(x) /\ RebindTurn(x)
    /\ UNCHANGED <<failures, sysVars, envVars>>

RebindTimer ==
    /\ TimerFires
    /\ st = "Rebind"
    /\ fromRecv' = FALSE
    /\ RebindTurn(xid)
    /\ UNCHANGED <<failures, sysVars, envVars>>

(***************************************************************************)
(* fsm.rs on_recv.  A reply is consumed, or delivered again later.         *)
(***************************************************************************)
\* The driver takes a datagram from the socket.
\* Mutant: the transaction id is not compared.
Matches_anyxid(m) == TRUE

Matches(m) == m.xid = xid

Receive(m) == /\ pc = "select"
              /\ m \in net
              /\ fromRecv' = TRUE
              /\ \/ net' = net \ {m}
                 \/ net' = net
              /\ UNCHANGED <<stop, asked>>

RecvOffer ==
    \E m \in net :
        /\ Receive(m)
        /\ Matches(m) /\ m.type = "Offer" /\ st = "Discovering"
        /\ st' = "Requesting"
        /\ offer' = m.yiaddr
        /\ attempts' = 0
        /\ timer' = 0
        /\ pc' = "tail"
        /\ UNCHANGED <<xid, lease, failures, out, sysVars>>

\* Requesting accepts only the offered address; the other states any.
Acceptable(m) == /\ m.type = "Ack"
                 /\ st \in {"Requesting", "Renewing", "WaitToRebind", "Rebind"}
                 /\ st = "Requesting" => m.yiaddr = offer
                 /\ m.complete

handle_ack ==
    \E m \in net, x \in Xids :
        /\ Receive(m)
        /\ Matches(m) /\ Acceptable(m) /\ Draw(x)
        /\ st' = "Bound"
        /\ lease' = NewLease(m.yiaddr, m.opts)
        /\ xid' = x
        /\ offer' = NoAddr
        /\ attempts' = 0 /\ failures' = 0
        /\ timer' = get_renew_times(m.opts).renew
        /\ pc' = "b_del"
        /\ UNCHANGED <<out, sysVars>>

\* A NAK restarts discovery; only a state that holds a lease releases it.
RecvNak ==
    \E m \in net, x \in Xids :
        /\ Receive(m)
        /\ Matches(m) /\ m.type = "Nak"
        /\ st \in {"Requesting", "Renewing", "WaitToRebind", "Rebind"}
        /\ Draw(x) /\ Rediscover(x)
        /\ attempts' = 0
        /\ timer' = 0
        /\ pc' = IF st = "Requesting" THEN "tail" ELSE "r_del"
        /\ UNCHANGED <<failures, out, sysVars>>

\* Everything else is dropped; the driver still runs its tail.
RecvIgnored ==
    \E m \in net :
        /\ Receive(m)
        /\ \/ ~Matches(m)
           \/ /\ ~Acceptable(m)
              /\ ~(m.type = "Offer" /\ st = "Discovering")
              /\ ~(m.type = "Nak" /\ st \in {"Requesting", "Renewing",
                                             "WaitToRebind", "Rebind"})
        /\ pc' = "tail"
        /\ UNCHANGED <<fsmVars, timer, out, sysVars>>

(***************************************************************************)
(* system.rs: the effects, in the order of their awaits.                   *)
(***************************************************************************)
\* ip addr del of the previous address, unless the new one replaces it.
BindDeletes ==
    /\ pc = "b_del"
    /\ kernel' = IF applied # NoAddr /\ applied # lease.ip
                 THEN [kernel EXCEPT ![applied] = 0] ELSE kernel
    /\ applied' = NoAddr
    /\ pc' = "b_replace"
    /\ UNCHANGED <<fsmVars, timer, out, fromRecv, lanRoute, linkRoute, binding,
                   session, envVars>>

\* ip addr replace ... valid_lft lease_time.
BindReplaces ==
    /\ pc = "b_replace"
    /\ kernel' = [kernel EXCEPT ![lease.ip] = lease.left]
    /\ applied' = lease.ip
    /\ pc' = "b_lan"
    /\ UNCHANGED <<fsmVars, timer, out, fromRecv, lanRoute, linkRoute, binding,
                   session, envVars>>

BindLanRoute ==
    /\ pc = "b_lan"
    /\ lanRoute' = lease.ip
    /\ pc' = "b_bind"
    /\ UNCHANGED <<fsmVars, timer, out, fromRecv, applied, kernel, linkRoute,
                   binding, session, envVars>>

BindBinding ==
    /\ pc = "b_bind"
    /\ binding' = lease.ip
    /\ pc' = "b_link"
    /\ UNCHANGED <<fsmVars, timer, out, fromRecv, applied, kernel, lanRoute,
                   linkRoute, session, envVars>>

\* The link route is written only when the ACK names a router.
BindLinkRoute ==
    /\ pc = "b_link"
    /\ linkRoute' = IF lease.gw THEN lease.ip ELSE linkRoute
    /\ pc' = "tail"
    /\ UNCHANGED <<fsmVars, timer, out, fromRecv, applied, kernel, lanRoute,
                   binding, session, envVars>>

ReleaseDeletes ==
    /\ pc = "r_del"
    /\ kernel' = IF applied # NoAddr THEN [kernel EXCEPT ![applied] = 0]
                 ELSE kernel
    /\ pc' = "r_session"
    /\ UNCHANGED <<fsmVars, timer, out, fromRecv, applied, lanRoute, linkRoute,
                   binding, session, envVars>>

\* Mutant: the routes go while the session still says Up.
ReleaseSession_later ==
    /\ pc = "r_session"
    /\ pc' = "r_link"
    /\ UNCHANGED <<fsmVars, timer, out, fromRecv, applied, kernel, lanRoute,
                   linkRoute, binding, session, envVars>>

ReleaseSession ==
    /\ pc = "r_session"
    /\ session' = NoAddr
    /\ pc' = "r_link"
    /\ UNCHANGED <<fsmVars, timer, out, fromRecv, applied, kernel, lanRoute,
                   linkRoute, binding, envVars>>

ReleaseLinkRoute ==
    /\ pc = "r_link"
    /\ linkRoute' = NoAddr
    /\ pc' = "r_lan"
    /\ UNCHANGED <<fsmVars, timer, out, fromRecv, applied, kernel, lanRoute,
                   binding, session, envVars>>

ReleaseLanRoute ==
    /\ pc = "r_lan"
    /\ lanRoute' = NoAddr
    /\ pc' = "r_unbind"
    /\ UNCHANGED <<fsmVars, timer, out, fromRecv, applied, kernel, linkRoute,
                   binding, session, envVars>>

\* Unbind, forget the address, session_down once more; then the rest of the
\* actions, or the end of the task.
\* Mutant: the release of a stopping client goes back to the loop.
ReleaseUnbinds_loop ==
    /\ pc = "r_unbind"
    /\ binding' = NoAddr
    /\ applied' = NoAddr
    /\ session' = NoAddr
    /\ pc' = IF out.kind # "none" THEN "send" ELSE "tail"
    /\ UNCHANGED <<fsmVars, timer, out, fromRecv, kernel, lanRoute, linkRoute,
                   envVars>>

ReleaseUnbinds ==
    /\ pc = "r_unbind"
    /\ binding' = NoAddr
    /\ applied' = NoAddr
    /\ session' = NoAddr
    /\ pc' = IF st = "Stopped" THEN "done"
             ELSE IF out.kind # "none" THEN "send" ELSE "tail"
    /\ UNCHANGED <<fsmVars, timer, out, fromRecv, kernel, lanRoute, linkRoute,
                   envVars>>

(***************************************************************************)
(* driver.rs: sending, the session after a datagram, stopping.             *)
(***************************************************************************)
Sends ==
    /\ pc = "send"
    /\ asked' = out
    /\ out' = NoAsk
    /\ pc' = "tail"
    /\ UNCHANGED <<fsmVars, timer, fromRecv, sysVars, stop, net>>

\* After a datagram the session follows the lease; after a timer it is left.
Tail ==
    /\ pc = "tail"
    /\ session' = IF fromRecv THEN leased_ip ELSE session
    /\ pc' = "select"
    /\ UNCHANGED <<fsmVars, timer, out, fromRecv, applied, kernel, lanRoute,
                   linkRoute, binding, envVars>>

\* The loop breaks on the stop token: ops.release(), then the final status.
StopBreaks ==
    /\ pc = "select" /\ stop
    /\ st' = "Stopped" /\ offer' = NoAddr /\ lease' = NoLease
    /\ pc' = "r_del"
    /\ UNCHANGED <<xid, attempts, failures, timer, out, fromRecv, sysVars,
                   envVars>>

(***************************************************************************)
(* The environment.                                                        *)
(***************************************************************************)
\* A second passes; the kernel drops an address whose valid_lft runs out.
Tick ==
    /\ pc = "select" /\ timer > 0
    /\ timer' = timer - 1
    /\ lease' = IF st \in Leased
                THEN Older(lease) ELSE lease
    /\ kernel' = [a \in Addrs |-> AtLeast(kernel[a] - 1, 0)]
    /\ UNCHANGED <<st, xid, offer, attempts, failures, pc, out, fromRecv,
                   applied, lanRoute, linkRoute, binding, session, envVars>>

RequestStop == /\ ~stop
               /\ stop' = TRUE
               /\ UNCHANGED <<fsmVars, timer, pc, out, fromRecv, sysVars, asked,
                              net>>

\* A server answers what it saw last; the network delays, loses, repeats.
ServerReplies ==
    /\ Cardinality(net) < MaxNet
    /\ \/ /\ asked.kind = "Discover"
          /\ \E a \in Addrs : net' = net \cup
                {Reply("Offer", asked.xid, a, AnyOptions, TRUE)}
       \/ /\ asked.kind \in {"Request", "Renew"}
          /\ \/ \E a \in Addrs, o \in Options : net' = net \cup
                   {Reply("Ack", asked.xid, a, o, TRUE)}
             \/ \E a \in Addrs : net' = net \cup
                   {Reply("Ack", asked.xid, a, AnyOptions, FALSE)}
             \/ net' = net \cup
                   {Reply("Nak", asked.xid, NoAddr, AnyOptions, TRUE)}
    /\ UNCHANGED <<fsmVars, timer, pc, out, fromRecv, sysVars, stop, asked>>

NetLoses == /\ \E m \in net : net' = net \ {m}
            /\ UNCHANGED <<fsmVars, timer, pc, out, fromRecv, sysVars, stop,
                           asked>>

Init ==
    /\ st = "Discovering"
    /\ xid \in Xids /\ \A x \in Xids : xid <= x
    /\ offer = NoAddr
    /\ lease = NoLease
    /\ attempts = 0 /\ failures = 0
    /\ timer = 0
    /\ pc = "select"
    /\ out = NoAsk
    /\ fromRecv = FALSE
    /\ applied = NoAddr
    /\ kernel = [a \in Addrs |-> 0]
    /\ lanRoute = NoAddr /\ linkRoute = NoAddr /\ binding = NoAddr
    /\ session = NoAddr
    /\ stop = FALSE
    /\ asked = NoAsk
    /\ net = {}

OnTimer == \/ DiscoverTimer \/ RequestTimer \/ BoundTimer \/ RenewTimer
           \/ WaitToRebindTimer \/ RebindTimer

OnRecv == RecvOffer \/ handle_ack \/ RecvNak \/ RecvIgnored

Effects == \/ BindDeletes \/ BindReplaces \/ BindLanRoute \/ BindBinding
           \/ BindLinkRoute \/ ReleaseDeletes \/ ReleaseSession
           \/ ReleaseLinkRoute \/ ReleaseLanRoute \/ ReleaseUnbinds \/ Sends
           \/ Tail

Next == \/ OnTimer \/ OnRecv \/ Effects \/ StopBreaks
        \/ Tick \/ RequestStop \/ ServerReplies \/ NetLoses

Spec == Init /\ [][Next]_vars

\* Real time passes whatever arrives, tokio's select! picks among ready branches
\* at random, and every await of the driver returns.
Fairness == /\ SF_vars(Tick)
            /\ SF_vars(OnTimer)
            /\ SF_vars(StopBreaks)
            /\ WF_vars(Effects)

FairSpec == Spec /\ Fairness

(***************************************************************************)
(* Properties.                                                             *)
(***************************************************************************)
PCs == {"select", "send", "tail", "done"} \cup BindSteps \cup ReleaseSteps

\* Types, and what holds of the machine between two steps: only a state with a
\* lease has one, an offer is remembered exactly in Requesting, and a bind chain
\* runs only for a lease just acquired.
TypeOK ==
    /\ st \in DhcpStates \cup {"Stopped"}
    /\ xid \in Xids
    /\ IF st = "Requesting" THEN offer \in Addrs ELSE offer = NoAddr
    /\ IF st \in Leased THEN lease \in Leases ELSE lease = NoLease
    /\ attempts \in Nat /\ failures \in Nat
    /\ timer \in Nat
    /\ pc \in PCs
    /\ pc \in BindSteps => st = "Bound"
    /\ out \in Asks /\ (out.kind # "none" => pc \in ReleaseSteps \cup {"send"})
    /\ fromRecv \in BOOLEAN
    /\ {applied, lanRoute, linkRoute, binding, session} \subseteq
           Addrs \cup {NoAddr}
    /\ kernel \in [Addrs -> Nat]
    /\ stop \in BOOLEAN
    /\ asked \in Asks
    /\ net \subseteq Replies

\* A lease is given up at the latest MIN_WAIT (60 s) after it expired, whatever
\* the options of the ACK and whenever the servers fall silent: the renew, wait
\* and rebind timers of on_timer together never overshoot lease_at by more.
LeaseNotOutlived == st \in Leased => lease.left >= -MIN_WAIT

\* Whenever the driver waits, the host shows exactly the machine's lease: the
\* address with the remaining lifetime, the LAN route, the binding, the session,
\* and the link route when the lease names a router.
HostFollowsLease ==
    pc = "select" =>
        /\ applied = leased_ip
        /\ lanRoute = leased_ip
        /\ binding = leased_ip
        /\ session = leased_ip
        /\ \A a \in Addrs :
               kernel[a] = IF a = leased_ip THEN AtLeast(lease.left, 0) ELSE 0
        /\ lease.gw => linkRoute = leased_ip
        /\ st \notin Leased => linkRoute = NoAddr

\* At no await do dependents see a session without the routes under it: bind
\* publishes the session last, release withdraws it before the routes.
SessionIsRouted ==
    session # NoAddr => lanRoute # NoAddr /\ binding # NoAddr

\* The host carries nothing of this client.
HostClean == /\ applied = NoAddr /\ lanRoute = NoAddr /\ linkRoute = NoAddr
             /\ binding = NoAddr /\ session = NoAddr
             /\ \A a \in Addrs : kernel[a] = 0

\* A client that has stopped, wherever in an exchange it was, leaves nothing.
StoppedIsClean == pc = "done" => HostClean

\* The host and the machine never part: whenever the driver waits, address,
\* routes, binding and session are exactly those of the machine's lease; no
\* await shows dependents a session without the routes under it; a client that
\* has stopped leaves nothing behind.
HostInv == TypeOK /\ HostFollowsLease /\ SessionIsRouted /\ StoppedIsClean

\* A lease that was lost (expiry or NAK) is off the host before the first
\* DISCOVER of the new round is on the wire.
DiscoversClean ==
    [][asked' # asked /\ asked'.kind = "Discover" => HostClean]_vars

\* The machine binds only what answers its last request: a late or repeated ACK
\* of an earlier exchange never becomes a lease.
BindsCurrentAnswer ==
    [][st' = "Bound" /\ st # "Bound" =>
         /\ asked.kind \in {"Request", "Renew"}
         /\ \E m \in net : /\ m.type = "Ack" /\ m.xid = asked.xid
                           /\ lease'.ip = m.yiaddr]_vars

\* fsm.rs says of lease expiry that the lease "MUST be dropped (address, routes,
\* session)": while the driver waits, a session is up only on an address the
\* kernel still has.
ExpiredLeaseIsDropped ==
    pc = "select" /\ session # NoAddr => kernel[session] > 0

\* Whatever is lost, the client asks again until it is stopped.
KeepsAsking == []<>(pc = "send" \/ stop)

\* A stop request ends the task.
StopEnds == stop ~> (pc = "done")

==============================================================================
