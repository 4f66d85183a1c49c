------------------------- MODULE DhcpV4Client_proofs -------------------------
(***************************************************************************)
(* Proofs about DhcpV4Client for every set of addresses, every lease       *)
(* option a server may send, every floor and every number of attempts.     *)
(*                                                                         *)
(* Four layers, each inductive relative to the ones below it: types, the   *)
(* schedule (how much of the lease is left when the timer fires), the      *)
(* host (what each await leaves behind, by driver location), and the       *)
(* exchange (which datagrams can carry the current transaction id).        *)
(***************************************************************************)
EXTENDS DhcpV4Client, TLAPS

\* Types, and: offers and ACKs carry an address, a stopped machine has nothing
\* to send, the send step has something, a lease is applied while it is fresh.
TypeInv ==
    /\ TypeOK
    /\ \A m \in net : m.type \in {"Offer", "Ack"} => m.yiaddr \in Addrs
    /\ st = "Stopped" => out.kind = "none"
    /\ pc = "send" => out.kind # "none"
    /\ pc \in BindSteps => lease.left >= 0

\* When the timer fires the lease has at most MIN_WAIT seconds of overrun.
Schedule == st \in Leased => /\ lease.rebind <= lease.left
                             /\ lease.left - timer >= -MIN_WAIT

\* The kernel has the lease's address for what is left of it, and no other.
KernelFits == \A a \in Addrs :
    kernel[a] = IF a = leased_ip THEN AtLeast(lease.left, 0) ELSE 0

OnlyKernel(b) == \A a \in Addrs : a # b => kernel[a] = 0

LinkFits == /\ lease.gw => linkRoute = leased_ip
            /\ st \notin Leased => linkRoute = NoAddr

\* What the host shows at each location of the driver.
Host ==
    /\ SessionIsRouted
    /\ pc \in ReleaseSteps \cup {"done"} => st \notin Leased
    /\ pc \in {"select", "send", "tail"} =>
           /\ applied = leased_ip /\ lanRoute = leased_ip /\ binding = leased_ip
           /\ KernelFits /\ LinkFits
           /\ (pc = "tail" /\ fromRecv) \/ session = leased_ip
    /\ pc \in BindSteps => fromRecv
    /\ pc = "b_del" => OnlyKernel(applied)
    /\ pc = "b_replace" => OnlyKernel(lease.ip) /\ applied = NoAddr
    /\ pc \in {"b_lan", "b_bind", "b_link"} => applied = leased_ip /\ KernelFits
    /\ pc \in {"b_bind", "b_link"} => lanRoute = leased_ip
    /\ pc = "b_link" => binding = leased_ip
    /\ pc = "r_del" => OnlyKernel(applied)
    /\ pc \in {"r_session", "r_link", "r_lan", "r_unbind"} => OnlyKernel(NoAddr)
    /\ pc \in {"r_link", "r_lan", "r_unbind"} => session = NoAddr
    /\ pc \in {"r_lan", "r_unbind"} => linkRoute = NoAddr
    /\ pc = "r_unbind" => lanRoute = NoAddr
    /\ pc = "done" => HostClean

\* A datagram with the current id answers the last one sent with it.
Exchange ==
    /\ \A m \in net : m.xid = xid =>
           /\ asked.xid = xid
           /\ m.type = "Ack" => asked.kind \in {"Request", "Renew"}
    /\ asked.xid = xid /\ asked.kind \in {"Request", "Renew"} =>
           st # "Discovering"
    /\ out.kind # "none" => /\ out.xid = xid
                            /\ out.kind = "Discover" <=> st = "Discovering"

(***************************************************************************)
(* Durations.                                                              *)
(***************************************************************************)
\* get_renew_times orders what it returns, whatever the options say:
\* 1 <= T1 < T2 <= lease.
LEMMA RenewTimes ==
    ASSUME NEW o \in Options
    PROVE  LET t == get_renew_times(o)
           IN  /\ t = [renew |-> t.renew, rebind |-> t.rebind, lease |-> t.lease]
               /\ t.renew \in Nat /\ t.rebind \in Nat /\ t.lease \in Nat
               /\ 1 <= t.renew /\ t.renew < t.rebind /\ t.rebind <= t.lease
<1>1. o \in [lease : Nat, t1 : Nat, t2 : Nat, gw : BOOLEAN]
  BY ConstAssumption
<1>. DEFINE l == AtLeast(o.lease, 2)
            x1 == IF o.t1 > 0 THEN o.t1 ELSE l \div 2
            t1 == Clamp(x1, 1, l - 1)
            x2 == IF o.t2 > 0 THEN o.t2
                  ELSE AtLeast((l * 7) \div 8, l \div 2 + 1)
            t2 == Clamp(x2, t1 + 1, l)
<1>2. l \in Nat /\ l >= 2
  BY <1>1 DEF AtLeast
<1>3. l \div 2 \in Nat /\ (l * 7) \div 8 \in Nat
  BY <1>2
<1>4. x1 \in Nat /\ x2 \in Nat
  BY <1>1, <1>2, <1>3 DEF AtLeast
<1>. HIDE DEF l, x1, x2
<1>5. t1 \in Nat /\ 1 <= t1 /\ t1 <= l - 1
  BY <1>2, <1>4 DEF Clamp, AtLeast, AtMost
<1>. HIDE DEF t1
<1>6. t2 \in Nat /\ t1 < t2 /\ t2 <= l
  BY <1>2, <1>4, <1>5 DEF Clamp, AtLeast, AtMost
<1>7. get_renew_times(o) = [renew |-> t1, rebind |-> t2, lease |-> l]
  BY DEF get_renew_times, l, x1, x2, t1
<1>. QED
  BY <1>2, <1>5, <1>6, <1>7

\* A lease made from an ACK is well formed and starts in the future.
LEMMA NewLeaseType ==
    ASSUME NEW a \in Addrs, NEW o \in Options
    PROVE  /\ NewLease(a, o) \in Leases
           /\ NewLease(a, o).ip = a
           /\ NewLease(a, o).rebind <= NewLease(a, o).left
           /\ NewLease(a, o).left - get_renew_times(o).renew >= 0
           /\ NewLease(a, o).left >= 0
           /\ get_renew_times(o).renew \in Nat
<1>1. o.gw \in BOOLEAN
  BY ConstAssumption
<1>. QED
  BY <1>1, RenewTimes DEF NewLease, Leases

\* The table of powers stays positive.
LEMMA Pow2Type == \A e \in Nat : Pow2(e) \in Nat \ {0}
<1>. SUFFICES ASSUME NEW e \in Nat PROVE Pow2(e) \in Nat \ {0}
  OBVIOUS
<1>1. AtMost(e, 8) + 1 \in 1..9
  BY DEF AtMost
<1>. QED
  BY <1>1 DEF Pow2

\* Both waits of the acquisition phase are durations.
LEMMA WaitTypes ==
    /\ \A n \in Nat, j \in 0..2 : retry_wait(n, j) \in Nat
    /\ \A n \in Nat : calc_connect_retry_backoff_secs(n) \in Nat
<1>1. ASSUME NEW n \in Nat, NEW j \in 0..2
      PROVE  retry_wait(n, j) \in Nat
  <2>1. AtMost(AtLeast(n - 1, 0), 4) \in Nat
    BY DEF AtMost, AtLeast
  <2>2. PICK p \in Nat \ {0} : p = Pow2(AtMost(AtLeast(n - 1, 0), 4))
    BY <2>1, Pow2Type
  <2>3. DEFAULT_TIME_OUT * p \in Nat /\ DEFAULT_TIME_OUT * p >= 1
    BY ConstAssumption
  <2>. QED
    BY <2>2, <2>3 DEF retry_wait
<1>2. ASSUME NEW n \in Nat
      PROVE  calc_connect_retry_backoff_secs(n) \in Nat
  <2>1. AtLeast(n - 1, 0) \in Nat
    BY DEF AtLeast
  <2>2. PICK p \in Nat \ {0} : p = Pow2(AtLeast(n - 1, 0))
    BY <2>1, Pow2Type
  <2>3. DEFAULT_TIME_OUT * p \in Nat
    BY <2>2, ConstAssumption
  <2>. QED
    BY <2>2, <2>3, ConstAssumption DEF calc_connect_retry_backoff_secs, AtMost
<1>. QED
  BY <1>1, <1>2

(***************************************************************************)
(* Types.                                                                  *)
(***************************************************************************)
USE DEF Leased, DhcpStates, BindSteps, ReleaseSteps, PCs

\* The constants of the model are well typed.
LEMMA ConstTypes ==
    /\ NoAsk \in Asks /\ NoAsk.kind = "none"
    /\ AnyOptions \in Options
    /\ \A x \in Xids : /\ Ask("Discover", x) \in Asks
                       /\ Ask("Request", x) \in Asks
                       /\ Ask("Renew", x) \in Asks
                       /\ Ask("Discover", x).kind = "Discover"
<1>1. (CHOOSE x \in Xids : TRUE) \in Xids
  BY ConstAssumption
<1>2. AnyOptions \in Options
  BY ConstAssumption DEF AnyOptions
<1>. QED
  BY <1>1, <1>2 DEF NoAsk, Asks, Ask

\* The timer events keep the types.
LEMMA TimerTypes ==
    ASSUME TypeInv, OnTimer
    PROVE  TypeInv'
<1>. USE DEF TypeInv, TypeOK, TimerFires, sysVars, envVars
<1>a. /\ MIN_WAIT \in Nat
      /\ \A l \in Leases : /\ AtLeast(l.rebind, 0) \in Nat
                           /\ AtLeast(l.rebind \div 2, MIN_WAIT) \in Nat
                           /\ AtLeast(l.left \div 2, MIN_WAIT) \in Nat
  <2>1. MIN_WAIT \in Nat
    BY ConstAssumption
  <2>2. ASSUME NEW l \in Leases
        PROVE  /\ AtLeast(l.rebind, 0) \in Nat
               /\ AtLeast(l.rebind \div 2, MIN_WAIT) \in Nat
               /\ AtLeast(l.left \div 2, MIN_WAIT) \in Nat
    <3>1. l.rebind \in Int /\ l.left \in Int
      BY DEF Leases
    <3>2. l.rebind \div 2 \in Int /\ l.left \div 2 \in Int
      BY <3>1
    <3>. QED
      BY <2>1, <3>1, <3>2 DEF AtLeast
  <2>. QED
    BY <2>1, <2>2
<1>b. ASSUME NEW k \in {"Discover", "Request", "Renew"}, NEW x \in Xids,
             NEW w \in Nat, SendNow(k, x, w)
      PROVE  /\ out' \in Asks /\ timer' \in Nat /\ pc' = "send"
             /\ out'.kind # "none"
  BY <1>b, ConstTypes DEF SendNow, Ask
<1>1. CASE DiscoverTimer
  <2>1. AtMost(failures + 1, 9) \in Nat
    BY DEF AtMost
  <2>2. CASE attempts >= DISCOVER_ATTEMPTS_PER_ROUND
    <3>1. /\ failures' \in Nat /\ timer' \in Nat /\ xid' \in Xids
          /\ attempts' = 0
          /\ st' = "Discovering" /\ offer' = NoAddr /\ lease' = NoLease
          /\ UNCHANGED <<pc, out, sysVars, envVars>>
          /\ fromRecv' = FALSE
      BY <1>1, <2>1, <2>2, WaitTypes, ConstAssumption
      DEF DiscoverTimer, Rediscover, Draw, FreshXids
    <3>. QED
      BY <1>1, <3>1 DEF DiscoverTimer
  <2>3. CASE attempts < DISCOVER_ATTEMPTS_PER_ROUND
    <3>1. /\ attempts' \in Nat
          /\ out' \in Asks /\ timer' \in Nat /\ pc' = "send"
          /\ out'.kind # "none"
          /\ UNCHANGED <<st, xid, offer, lease, failures>>
          /\ UNCHANGED <<sysVars, envVars>> /\ fromRecv' = FALSE
      BY <1>1, <1>b, <2>3, WaitTypes, ConstAssumption DEF DiscoverTimer
    <3>. QED
      BY <1>1, <3>1 DEF DiscoverTimer
  <2>. QED
    BY <2>2, <2>3, ConstAssumption
<1>2. CASE RequestTimer
  <2>1. CASE attempts >= REQUEST_ATTEMPTS
    <3>1. /\ out' \in Asks /\ timer' \in Nat /\ pc' = "send" /\ xid' \in Xids
          /\ out'.kind # "none"
          /\ attempts' = 1 /\ failures' = failures
          /\ st' = "Discovering" /\ offer' = NoAddr /\ lease' = NoLease
          /\ UNCHANGED <<sysVars, envVars>> /\ fromRecv' = FALSE
      BY <1>2, <1>b, <2>1, WaitTypes, ConstAssumption
      DEF RequestTimer, Rediscover, Draw, FreshXids
    <3>. QED
      BY <3>1
  <2>2. CASE attempts < REQUEST_ATTEMPTS
    <3>1. /\ attempts' \in Nat
          /\ out' \in Asks /\ timer' \in Nat /\ pc' = "send"
          /\ out'.kind # "none"
          /\ UNCHANGED <<st, xid, offer, lease, failures>>
          /\ UNCHANGED <<sysVars, envVars>> /\ fromRecv' = FALSE
      BY <1>2, <1>b, <2>2, WaitTypes, ConstAssumption DEF RequestTimer
    <3>. QED
      BY <1>2, <3>1 DEF RequestTimer
  <2>. QED
    BY <2>1, <2>2, ConstAssumption
<1>c. ASSUME NEW x \in Xids, Renew(x), st \in Leased
      PROVE  /\ out' \in Asks /\ timer' \in Nat /\ pc' = "send"
             /\ out'.kind # "none"
             /\ st' \in Leased
  BY <1>a, <1>b, <1>c DEF Renew
<1>3. CASE BoundTimer
  BY <1>3, <1>c DEF BoundTimer
<1>4. CASE RenewTimer
  BY <1>4, <1>c DEF RenewTimer
<1>d. ASSUME NEW x \in Xids, RebindTurn(x), st \in Leased
      PROVE  /\ out' \in Asks /\ timer' \in Nat
             /\ out'.kind # "none"
             /\ pc' \in {"send", "r_del"}
             /\ xid' \in Xids
             /\ attempts' \in Nat
             /\ offer' = NoAddr
             /\ \/ st' = "Discovering" /\ lease' = NoLease
                \/ st' = "Rebind" /\ lease' = lease
  <2>1. CASE lease.left < 0
    BY <1>d, <2>1, WaitTypes, ConstTypes
    DEF RebindTurn, Rediscover, Leases
  <2>2. CASE lease.left >= 0
    BY <1>a, <1>b, <1>d, <2>2 DEF RebindTurn, Leases
  <2>. QED
    BY <1>d, <2>1, <2>2 DEF Leases
<1>5. CASE WaitToRebindTimer
  BY <1>5, <1>d DEF WaitToRebindTimer
<1>6. CASE RebindTimer
  BY <1>6, <1>d DEF RebindTimer
<1>. QED
  BY <1>1, <1>2, <1>3, <1>4, <1>5, <1>6 DEF OnTimer

\* The datagrams keep the types.
LEMMA RecvTypes ==
    ASSUME TypeInv, OnRecv
    PROVE  TypeInv'
<1>. USE DEF TypeInv, TypeOK, sysVars, Receive
<1>1. CASE RecvOffer
  BY <1>1 DEF RecvOffer
<1>2. CASE handle_ack
  <2>1. PICK m \in net, x \in Xids :
            /\ Receive(m) /\ Acceptable(m)
            /\ st' = "Bound" /\ lease' = NewLease(m.yiaddr, m.opts)
            /\ xid' = x /\ offer' = NoAddr /\ attempts' = 0 /\ failures' = 0
            /\ timer' = get_renew_times(m.opts).renew /\ pc' = "b_del"
            /\ UNCHANGED <<out, sysVars>>
    BY <1>2 DEF handle_ack
  <2>2. m.yiaddr \in Addrs /\ m.opts \in Options
    BY <2>1 DEF Acceptable, Replies
  <2>3. lease' \in Leases /\ timer' \in Nat /\ lease'.left >= 0
    BY <2>1, <2>2, NewLeaseType
  <2>. QED
    BY <2>1, <2>3
<1>3. CASE RecvNak
  BY <1>3 DEF RecvNak, Rediscover, Draw, FreshXids
<1>4. CASE RecvIgnored
  BY <1>4 DEF RecvIgnored, fsmVars
<1>. QED
  BY <1>1, <1>2, <1>3, <1>4 DEF OnRecv

\* The effects keep the types.
LEMMA EffectTypes ==
    ASSUME TypeInv, Effects \/ StopBreaks
    PROVE  TypeInv'
<1>. USE ConstTypes
         DEF TypeInv, TypeOK, fsmVars, sysVars, envVars, leased_ip
<1>1. CASE BindDeletes
  BY <1>1 DEF BindDeletes
<1>2. CASE BindReplaces
  BY <1>2 DEF BindReplaces, Leases
<1>3. CASE BindLanRoute
  BY <1>3 DEF BindLanRoute, Leases
<1>4. CASE BindBinding
  BY <1>4 DEF BindBinding, Leases
<1>5. CASE BindLinkRoute
  BY <1>5 DEF BindLinkRoute, Leases
<1>6. CASE ReleaseDeletes
  BY <1>6 DEF ReleaseDeletes
<1>7. CASE ReleaseSession
  BY <1>7 DEF ReleaseSession
<1>8. CASE ReleaseLinkRoute
  BY <1>8 DEF ReleaseLinkRoute
<1>9. CASE ReleaseLanRoute
  BY <1>9 DEF ReleaseLanRoute
<1>10. CASE ReleaseUnbinds
  BY <1>10 DEF ReleaseUnbinds
<1>11. CASE Sends
  BY <1>11 DEF Sends
<1>12. CASE Tail
  BY <1>12 DEF Tail, Leases
<1>13. CASE StopBreaks
  BY <1>13 DEF StopBreaks
<1>. QED
  BY <1>1, <1>2, <1>3, <1>4, <1>5, <1>6, <1>7, <1>8, <1>9, <1>10, <1>11, <1>12,
     <1>13 DEF Effects

\* The environment keeps the types.
LEMMA WorldTypes ==
    ASSUME TypeInv, Tick \/ RequestStop \/ ServerReplies \/ NetLoses
    PROVE  TypeInv'
<1>. USE DEF TypeInv, TypeOK, fsmVars, sysVars, envVars
<1>1. CASE Tick
  BY <1>1 DEF Tick, Older, Leases, AtLeast
<1>2. CASE RequestStop
  BY <1>2 DEF RequestStop
<1>3. CASE ServerReplies
  <2>1. asked.xid \in Xids
    BY DEF Asks
  <2>2. PICK m \in Replies :
            /\ net' = net \cup {m}
            /\ m.type \in {"Offer", "Ack"} => m.yiaddr \in Addrs
    <3>1. ASSUME NEW t \in {"Offer", "Ack"}, NEW a \in Addrs,
                 NEW o \in Options, NEW c \in BOOLEAN
          PROVE  /\ Reply(t, asked.xid, a, o, c) \in Replies
                 /\ Reply(t, asked.xid, a, o, c).yiaddr \in Addrs
      BY <2>1 DEF Reply, Replies
    <3>2. /\ Reply("Nak", asked.xid, NoAddr, AnyOptions, TRUE) \in Replies
          /\ Reply("Nak", asked.xid, NoAddr, AnyOptions, TRUE).type = "Nak"
      BY <2>1, ConstTypes DEF Reply, Replies
    <3>. QED
      BY <1>3, <3>1, <3>2, ConstTypes DEF ServerReplies
  <2>. QED
    BY <1>3, <2>2 DEF ServerReplies
<1>4. CASE NetLoses
  BY <1>4 DEF NetLoses
<1>. QED
  BY <1>1, <1>2, <1>3, <1>4

\* The machine, the driver and the network start and stay well typed.
THEOREM TypeInvariance == Spec => []TypeInv
<1>1. Init => TypeInv
  <2>. SUFFICES ASSUME Init PROVE TypeInv
    OBVIOUS
  <2>1. kernel \in [Addrs -> Nat]
    BY DEF Init
  <2>2. out \in Asks /\ asked \in Asks /\ out.kind = "none"
    BY ConstTypes DEF Init
  <2>. QED
    BY <2>1, <2>2 DEF Init, TypeInv, TypeOK
<1>2. TypeInv /\ [Next]_vars => TypeInv'
  <2>1. CASE Next
    BY <2>1, TimerTypes, RecvTypes, EffectTypes, WorldTypes DEF Next
  <2>2. CASE UNCHANGED vars
    BY <2>2 DEF TypeInv, TypeOK, vars, fsmVars, sysVars, envVars
  <2>. QED
    BY <2>1, <2>2
<1>. QED
  BY <1>1, <1>2, PTL DEF Spec

\* TypeOK of the runs, for every instance.
THEOREM TypeCorrect == Spec => []TypeOK
<1>1. TypeInv => TypeOK
  BY DEF TypeInv
<1>. QED
  BY <1>1, TypeInvariance, PTL

(***************************************************************************)
(* The schedule.                                                           *)
(***************************************************************************)
\* The waits of on_timer: half of what is left, or MIN_WAIT, never pushes the
\* next event further than MIN_WAIT past the end of the lease.
LEMMA TimerSchedule ==
    ASSUME TypeInv, Schedule, OnTimer
    PROVE  Schedule'
<1>. USE DEF Schedule, TimerFires, sysVars, envVars
<1>1. MIN_WAIT \in Nat
  BY ConstAssumption
<1>2. timer = 0 /\ pc = "select"
  BY DEF OnTimer, DiscoverTimer, RequestTimer, BoundTimer, RenewTimer,
         WaitToRebindTimer, RebindTimer
<1>3. ASSUME NEW x \in Xids, Renew(x), st \in Leased, lease' = lease
      PROVE  Schedule'
  <2>1. /\ lease.rebind \in Int /\ lease.left \in Int /\ lease.span \in Nat
        /\ lease.rebind <= lease.left /\ lease.left >= -MIN_WAIT
    BY <1>1, <1>2, <1>3 DEF TypeInv, TypeOK, Leases
  <2>2. CASE lease.rebind <= lease.span \div 6
    BY <1>1, <1>3, <2>1, <2>2 DEF Renew, SendNow, AtLeast
  <2>3. CASE ~(lease.rebind <= lease.span \div 6)
    <3>1. lease.rebind >= 1
      BY <2>1, <2>3
    <3>2. lease.rebind \div 2 <= lease.rebind /\ lease.rebind \div 2 \in Int
      BY <2>1, <3>1
    <3>. QED
      BY <1>1, <1>3, <2>1, <2>3, <3>1, <3>2 DEF Renew, SendNow, AtLeast
  <2>. QED
    BY <2>2, <2>3
<1>4. ASSUME NEW x \in Xids, RebindTurn(x), st \in Leased
      PROVE  Schedule'
  <2>1. /\ lease.rebind \in Int /\ lease.left \in Int
        /\ lease.rebind <= lease.left /\ lease.left >= -MIN_WAIT
    BY <1>1, <1>2, <1>4 DEF TypeInv, TypeOK, Leases
  <2>2. CASE lease.left < 0
    BY <1>4, <2>1, <2>2 DEF RebindTurn, Rediscover
  <2>3. CASE lease.left >= 0
    <3>1. lease.left \div 2 <= lease.left /\ lease.left \div 2 \in Int
      BY <2>1, <2>3
    <3>. QED
      BY <1>1, <1>4, <2>1, <2>3, <3>1 DEF RebindTurn, SendNow, AtLeast
  <2>. QED
    BY <2>1, <2>2, <2>3
<1>5. CASE DiscoverTimer
  BY <1>5 DEF DiscoverTimer, Rediscover
<1>6. CASE RequestTimer
  BY <1>6 DEF RequestTimer, Rediscover
<1>7. CASE BoundTimer
  BY <1>3, <1>7 DEF BoundTimer
<1>8. CASE RenewTimer
  BY <1>3, <1>8 DEF RenewTimer, TypeInv, TypeOK
<1>9. CASE WaitToRebindTimer
  BY <1>4, <1>9 DEF WaitToRebindTimer
<1>10. CASE RebindTimer
  BY <1>4, <1>10 DEF RebindTimer, TypeInv, TypeOK
<1>. QED
  BY <1>5, <1>6, <1>7, <1>8, <1>9, <1>10 DEF OnTimer

\* Time, datagrams and effects keep it.
LEMMA OtherSchedule ==
    ASSUME TypeInv, Schedule, Next, ~OnTimer
    PROVE  Schedule'
<1>. USE DEF Schedule, fsmVars, sysVars, envVars
<1>1. CASE handle_ack
  <2>1. PICK m \in net :
            /\ Acceptable(m) /\ lease' = NewLease(m.yiaddr, m.opts)
            /\ timer' = get_renew_times(m.opts).renew
    BY <1>1 DEF handle_ack
  <2>2. m.yiaddr \in Addrs /\ m.opts \in Options
    BY <2>1 DEF Acceptable, Replies, TypeInv, TypeOK
  <2>3. /\ lease' \in Leases /\ lease'.rebind <= lease'.left
        /\ lease'.left - timer' >= 0 /\ timer' \in Nat
    BY <2>1, <2>2, NewLeaseType
  <2>. QED
    BY <2>3, ConstAssumption DEF Leases
<1>2. CASE RecvOffer \/ RecvNak \/ RecvIgnored
  BY <1>2 DEF RecvOffer, RecvNak, RecvIgnored, Rediscover
<1>3. CASE Effects
  BY <1>3 DEF Effects, BindDeletes, BindReplaces, BindLanRoute, BindBinding,
     BindLinkRoute, ReleaseDeletes, ReleaseSession, ReleaseLinkRoute,
     ReleaseLanRoute, ReleaseUnbinds, Sends, Tail
<1>4. CASE StopBreaks
  BY <1>4 DEF StopBreaks
<1>5. CASE Tick
  BY <1>5, ConstAssumption DEF Tick, Older, TypeInv, TypeOK, Leases
<1>6. CASE RequestStop \/ ServerReplies \/ NetLoses
  BY <1>6 DEF RequestStop, ServerReplies, NetLoses
<1>. QED
  BY <1>1, <1>2, <1>3, <1>4, <1>5, <1>6 DEF Next, OnRecv

\* The schedule holds in every state.
THEOREM ScheduleInvariance == Spec => []Schedule
<1>1. Init => Schedule
  BY DEF Init, Schedule
<1>2. TypeInv /\ Schedule /\ [Next]_vars => Schedule'
  <2>1. CASE Next
    BY <2>1, TimerSchedule, OtherSchedule
  <2>2. CASE UNCHANGED vars
    BY <2>2 DEF Schedule, vars, fsmVars
  <2>. QED
    BY <2>1, <2>2
<1>. QED
  BY <1>1, <1>2, TypeInvariance, PTL DEF Spec

\* No lease is held more than MIN_WAIT seconds past its end, for every lease
\* time, T1 and T2 a server may name and whatever the network loses.
THEOREM LeaseBounded == Spec => []LeaseNotOutlived
<1>1. TypeInv /\ Schedule => LeaseNotOutlived
  BY ConstAssumption DEF TypeInv, TypeOK, Schedule, LeaseNotOutlived, Leases
<1>. QED
  BY <1>1, TypeInvariance, ScheduleInvariance, PTL

(***************************************************************************)
(* The host.                                                               *)
(***************************************************************************)
\* Timer events touch the host only by starting a release.
LEMMA TimerHost ==
    ASSUME TypeInv, Host, OnTimer
    PROVE  Host'
<1>. USE DEF TimerFires, sysVars
<1>1. /\ pc = "select" /\ fromRecv' = FALSE
      /\ UNCHANGED sysVars
  BY DEF OnTimer, DiscoverTimer, RequestTimer, BoundTimer, RenewTimer,
         WaitToRebindTimer, RebindTimer
<1>2. /\ applied = leased_ip /\ lanRoute = leased_ip /\ binding = leased_ip
      /\ session = leased_ip /\ KernelFits /\ LinkFits /\ SessionIsRouted
  BY <1>1 DEF Host
<1>3. \/ /\ pc' \in {"select", "send"}
         /\ lease' = lease /\ leased_ip' = leased_ip
         /\ st \in Leased <=> st' \in Leased
      \/ /\ pc' = "r_del" /\ st' = "Discovering"
  BY <1>1 DEF OnTimer, DiscoverTimer, RequestTimer, BoundTimer, RenewTimer,
         WaitToRebindTimer, RebindTimer, Renew, RebindTurn, SendNow, Rediscover,
         leased_ip, TypeInv, TypeOK
<1>4. CASE /\ pc' \in {"select", "send"}
           /\ lease' = lease /\ leased_ip' = leased_ip
           /\ st \in Leased <=> st' \in Leased
  BY <1>1, <1>2, <1>4 DEF Host, KernelFits, LinkFits, SessionIsRouted
<1>5. CASE pc' = "r_del" /\ st' = "Discovering"
  BY <1>1, <1>2, <1>5 DEF Host, KernelFits, OnlyKernel, SessionIsRouted
<1>. QED
  BY <1>3, <1>4, <1>5

\* Datagrams start a bind, a release, or leave everything to the tail.
LEMMA RecvHost ==
    ASSUME TypeInv, Host, OnRecv
    PROVE  Host'
<1>. USE DEF sysVars
<1>1. pc = "select" /\ fromRecv' = TRUE /\ UNCHANGED sysVars
  BY DEF OnRecv, RecvOffer, handle_ack, RecvNak, RecvIgnored, Receive
<1>2. /\ applied = leased_ip /\ lanRoute = leased_ip /\ binding = leased_ip
      /\ session = leased_ip /\ KernelFits /\ LinkFits /\ SessionIsRouted
  BY <1>1 DEF Host
<1>3. CASE handle_ack
  BY <1>1, <1>2, <1>3
  DEF handle_ack, Host, KernelFits, OnlyKernel, SessionIsRouted
<1>4. CASE RecvNak
  <2>1. CASE st = "Requesting"
    BY <1>1, <1>2, <1>4, <2>1
    DEF RecvNak, Rediscover, Host, KernelFits, LinkFits, SessionIsRouted,
        leased_ip, NoLease, TypeInv, TypeOK
  <2>2. CASE st # "Requesting"
    BY <1>1, <1>2, <1>4, <2>2
    DEF RecvNak, Rediscover, Host, KernelFits, OnlyKernel, SessionIsRouted
  <2>. QED
    BY <2>1, <2>2
<1>5. CASE RecvOffer
  BY <1>1, <1>2, <1>5
  DEF RecvOffer, Host, KernelFits, LinkFits, SessionIsRouted, leased_ip
<1>6. CASE RecvIgnored
  BY <1>1, <1>2, <1>6
  DEF RecvIgnored, fsmVars, Host, KernelFits, LinkFits, SessionIsRouted,
      leased_ip
<1>. QED
  BY <1>3, <1>4, <1>5, <1>6 DEF OnRecv

\* Each await of apply_lease brings the host one item closer to the lease.
LEMMA BindHost ==
    ASSUME TypeInv, Host,
           BindDeletes \/ BindReplaces \/ BindLanRoute \/ BindBinding
                       \/ BindLinkRoute
    PROVE  Host'
<1>. USE DEF fsmVars
<1>a. lease \in Leases /\ st = "Bound" /\ leased_ip = lease.ip /\ lease.ip \in Addrs
      /\ lease.ip # NoAddr /\ lease.left \in Nat /\ kernel \in [Addrs -> Nat]
  BY ConstAssumption DEF BindDeletes, BindReplaces, BindLanRoute, BindBinding,
     BindLinkRoute, TypeInv, TypeOK, leased_ip, Leases
<1>b. /\ st' = st /\ lease' = lease /\ leased_ip' = leased_ip
  BY DEF BindDeletes, BindReplaces, BindLanRoute, BindBinding, BindLinkRoute,
     leased_ip
<1>1. CASE BindDeletes
  <2>1. OnlyKernel(applied)
    BY <1>1 DEF BindDeletes, Host
  <2>2. OnlyKernel(lease.ip)'
    <3>1. applied \in Addrs \cup {NoAddr}
      BY DEF TypeInv, TypeOK
    <3>2. CASE applied # NoAddr /\ applied # lease.ip
      BY <1>1, <1>a, <1>b, <2>1, <3>1, <3>2 DEF BindDeletes, OnlyKernel
    <3>3. CASE applied = NoAddr \/ applied = lease.ip
      BY <1>1, <1>a, <1>b, <2>1, <3>3, ConstAssumption
      DEF BindDeletes, OnlyKernel
    <3>. QED
      BY <3>2, <3>3
  <2>. QED
    BY <1>1, <1>a, <1>b, <2>2 DEF BindDeletes, Host, SessionIsRouted
<1>2. CASE BindReplaces
  <2>1. OnlyKernel(lease.ip)
    BY <1>2 DEF BindReplaces, Host
  <2>2. KernelFits'
    BY <1>2, <1>a, <1>b, <2>1
    DEF BindReplaces, OnlyKernel, KernelFits, AtLeast
  <2>. QED
    BY <1>2, <1>a, <1>b, <2>2 DEF BindReplaces, Host, SessionIsRouted
<1>3. CASE BindLanRoute
  BY <1>3, <1>a, <1>b DEF BindLanRoute, Host, SessionIsRouted, KernelFits
<1>4. CASE BindBinding
  BY <1>4, <1>a, <1>b DEF BindBinding, Host, SessionIsRouted, KernelFits
<1>5. CASE BindLinkRoute
  <2>1. KernelFits' /\ LinkFits'
    BY <1>5, <1>a, <1>b DEF BindLinkRoute, Host, KernelFits, LinkFits
  <2>2. fromRecv'
    BY <1>5 DEF BindLinkRoute, TypeInv, TypeOK, Host
  <2>. QED
    BY <1>5, <1>a, <1>b, <2>1, <2>2 DEF BindLinkRoute, Host, SessionIsRouted
<1>. QED
  BY <1>1, <1>2, <1>3, <1>4, <1>5

\* Each await of release takes one item off the host.
LEMMA ReleaseHost ==
    ASSUME TypeInv, Host,
           ReleaseDeletes \/ ReleaseSession \/ ReleaseLinkRoute
                          \/ ReleaseLanRoute \/ ReleaseUnbinds
    PROVE  Host'
<1>. USE DEF fsmVars
<1>a. /\ st \notin Leased /\ leased_ip = NoAddr /\ lease = NoLease
      /\ kernel \in [Addrs -> Nat] /\ NoAddr \notin Addrs
  BY ConstAssumption DEF ReleaseDeletes, ReleaseSession, ReleaseLinkRoute,
     ReleaseLanRoute, ReleaseUnbinds, Host, leased_ip, TypeInv, TypeOK
<1>b. st' = st /\ lease' = lease /\ leased_ip' = leased_ip
  BY DEF ReleaseDeletes, ReleaseSession, ReleaseLinkRoute, ReleaseLanRoute,
     ReleaseUnbinds, leased_ip
<1>1. CASE ReleaseDeletes
  <2>1. OnlyKernel(NoAddr)'
    BY <1>1, <1>a, <1>b DEF ReleaseDeletes, Host, OnlyKernel, TypeInv, TypeOK
  <2>. QED
    BY <1>1, <1>a, <1>b, <2>1 DEF ReleaseDeletes, Host, SessionIsRouted
<1>2. CASE ReleaseSession
  BY <1>2, <1>a, <1>b DEF ReleaseSession, Host, SessionIsRouted, OnlyKernel
<1>3. CASE ReleaseLinkRoute
  BY <1>3, <1>a, <1>b DEF ReleaseLinkRoute, Host, SessionIsRouted, OnlyKernel
<1>4. CASE ReleaseLanRoute
  BY <1>4, <1>a, <1>b DEF ReleaseLanRoute, Host, SessionIsRouted, OnlyKernel
<1>5. CASE ReleaseUnbinds
  <2>1. HostClean' /\ KernelFits' /\ LinkFits'
    BY <1>5, <1>a, <1>b
    DEF ReleaseUnbinds, Host, HostClean, OnlyKernel, KernelFits, LinkFits, NoLease
  <2>. QED
    BY <1>5, <1>a, <1>b, <2>1
    DEF ReleaseUnbinds, Host, SessionIsRouted, HostClean
<1>. QED
  BY <1>1, <1>2, <1>3, <1>4, <1>5

\* Sending, the tail, stopping and the world.
LEMMA OtherHost ==
    ASSUME TypeInv, Host,
           Sends \/ Tail \/ StopBreaks \/ Tick \/ RequestStop \/ ServerReplies
                 \/ NetLoses
    PROVE  Host'
<1>. USE DEF fsmVars, sysVars
<1>1. CASE Sends
  BY <1>1 DEF Sends, Host, KernelFits, LinkFits, SessionIsRouted, leased_ip
<1>2. CASE Tail
  BY <1>2 DEF Tail, Host, KernelFits, LinkFits, SessionIsRouted, leased_ip
<1>3. CASE StopBreaks
  BY <1>3 DEF StopBreaks, Host, KernelFits, OnlyKernel, SessionIsRouted
<1>4. CASE Tick
  <2>1. /\ pc = "select" /\ pc' = pc /\ st' = st /\ leased_ip' = leased_ip
        /\ UNCHANGED <<applied, lanRoute, linkRoute, binding, session>>
    BY <1>4 DEF Tick, leased_ip, Older
  <2>2. lease'.gw = lease.gw
    BY <1>4 DEF Tick, Older
  <2>3. KernelFits'
    <3>1. CASE st \in Leased
      <4>1. lease'.left = lease.left - 1 /\ lease.left \in Int
        BY <1>4, <3>1 DEF Tick, Older, TypeInv, TypeOK, Leases
      <4>2. \A a \in Addrs : kernel'[a] = AtLeast(kernel[a] - 1, 0)
        BY <1>4 DEF Tick
      <4>. QED
        BY <2>1, <4>1, <4>2 DEF Host, KernelFits, AtLeast
    <3>2. CASE st \notin Leased
      BY <1>4, <2>1, <3>2, ConstAssumption
      DEF Tick, Host, KernelFits, AtLeast, leased_ip
    <3>. QED
      BY <3>1, <3>2
  <2>. QED
    BY <2>1, <2>2, <2>3 DEF Host, LinkFits, SessionIsRouted
<1>5. CASE RequestStop \/ ServerReplies \/ NetLoses
  <2>1. UNCHANGED <<fsmVars, sysVars, pc, fromRecv>> /\ leased_ip' = leased_ip
    BY <1>5 DEF RequestStop, ServerReplies, NetLoses, leased_ip
  <2>. QED
    BY <2>1 DEF Host, KernelFits, LinkFits, OnlyKernel, SessionIsRouted, HostClean
<1>. QED
  BY <1>1, <1>2, <1>3, <1>4, <1>5

\* The host holds what the driver's location says, in every state.
THEOREM HostInvariance == Spec => []Host
<1>1. Init => Host
  BY ConstAssumption
  DEF Init, Host, KernelFits, LinkFits, SessionIsRouted, NoLease, leased_ip
<1>2. TypeInv /\ Host /\ [Next]_vars => Host'
  <2>1. CASE Next
    BY <2>1, TimerHost, RecvHost, BindHost, ReleaseHost, OtherHost
    DEF Next, Effects
  <2>2. CASE UNCHANGED vars
    BY <2>2 DEF vars, fsmVars, sysVars, Host, KernelFits, LinkFits, OnlyKernel,
       SessionIsRouted, HostClean, leased_ip
  <2>. QED
    BY <2>1, <2>2
<1>. QED
  BY <1>1, <1>2, TypeInvariance, PTL DEF Spec

\* Whenever the driver waits the host shows exactly the machine's lease.
THEOREM HostFollows == Spec => []HostFollowsLease
<1>1. Host => HostFollowsLease
  BY DEF Host, HostFollowsLease, KernelFits, LinkFits
<1>. QED
  BY <1>1, HostInvariance, PTL

\* No await of bind or release shows a session without its routes.
THEOREM SessionRouted == Spec => []SessionIsRouted
<1>1. Host => SessionIsRouted
  BY DEF Host
<1>. QED
  BY <1>1, HostInvariance, PTL

\* A stopped client leaves nothing on the host.
THEOREM StopLeavesNothing == Spec => []StoppedIsClean
<1>1. Host => StoppedIsClean
  BY DEF Host, StoppedIsClean
<1>. QED
  BY <1>1, HostInvariance, PTL

\* The four facts together: at every await of driver and machine the host
\* carries what the machine's lease says, for every sequence of replies, losses
\* and timeouts, and after a stop nothing.
THEOREM HostSound == Spec => []HostInv
BY TypeCorrect, HostFollows, SessionRouted, StopLeavesNothing, PTL DEF HostInv

(***************************************************************************)
(* The exchange.                                                           *)
(***************************************************************************)
\* A drawn transaction id is on no datagram.
LEMMA DrawnIsFresh ==
    ASSUME NEW x \in Xids, Draw(x)
    PROVE  x # xid /\ asked.xid # x /\ \A m \in net : m.xid # x
BY DEF Draw, FreshXids

\* Timer events send under the current id or under a fresh one.
LEMMA TimerExchange ==
    ASSUME TypeInv, Exchange, OnTimer
    PROVE  Exchange'
<1>. USE DEF TimerFires, envVars
<1>1. pc = "select" /\ UNCHANGED envVars /\ out.kind = "none"
  BY DEF OnTimer, DiscoverTimer, RequestTimer, BoundTimer, RenewTimer,
         WaitToRebindTimer, RebindTimer, TypeInv, TypeOK
<1>2. ASSUME \E x \in Xids : Draw(x) /\ xid' = x,
             \/ out' = out
             \/ out' = Ask("Discover", xid') /\ st' = "Discovering"
             \/ out' = Ask("Renew", xid') /\ st' \in Leased
      PROVE  Exchange'
  BY <1>1, <1>2, DrawnIsFresh DEF Exchange, Ask
<1>3. ASSUME xid' = xid,
             \/ out' = Ask("Discover", xid) /\ st = "Discovering" /\ st' = st
             \/ out' = Ask("Request", xid) /\ st = "Requesting" /\ st' = st
             \/ out' = Ask("Renew", xid) /\ st \in Leased /\ st' \in Leased
      PROVE  Exchange'
  BY <1>1, <1>3 DEF Exchange, Ask
<1>4. CASE DiscoverTimer
  BY <1>2, <1>3, <1>4 DEF DiscoverTimer, Rediscover, SendNow
<1>5. CASE RequestTimer
  BY <1>2, <1>3, <1>5 DEF RequestTimer, Rediscover, SendNow
<1>6. CASE BoundTimer
  BY <1>2, <1>6 DEF BoundTimer, Renew, SendNow
<1>7. CASE RenewTimer
  BY <1>3, <1>7 DEF RenewTimer, Renew, SendNow
<1>8. CASE WaitToRebindTimer
  BY <1>2, <1>8 DEF WaitToRebindTimer, RebindTurn, Rediscover, SendNow
<1>9. CASE RebindTimer
  BY <1>2, <1>3, <1>9 DEF RebindTimer, RebindTurn, Rediscover, SendNow
<1>. QED
  BY <1>4, <1>5, <1>6, <1>7, <1>8, <1>9 DEF OnTimer

\* A datagram is dropped, moves the machine on under its id, or ends the
\* exchange.
LEMMA RecvExchange ==
    ASSUME TypeInv, Exchange, OnRecv
    PROVE  Exchange'
<1>1. /\ pc = "select" /\ asked' = asked /\ net' \subseteq net
      /\ out' = out /\ out.kind = "none"
  BY DEF OnRecv, RecvOffer, handle_ack, RecvNak, RecvIgnored, Receive, TypeInv,
         TypeOK
<1>2. CASE RecvOffer
  BY <1>1, <1>2 DEF RecvOffer, Exchange
<1>3. CASE handle_ack
  BY <1>1, <1>3, DrawnIsFresh DEF handle_ack, Exchange
<1>4. CASE RecvNak
  BY <1>1, <1>4, DrawnIsFresh DEF RecvNak, Rediscover, Exchange
<1>5. CASE RecvIgnored
  BY <1>1, <1>5 DEF RecvIgnored, fsmVars, Exchange
<1>. QED
  BY <1>2, <1>3, <1>4, <1>5 DEF OnRecv

\* Sending, effects and the world.
LEMMA OtherExchange ==
    ASSUME TypeInv, Exchange, Next, ~OnTimer, ~OnRecv
    PROVE  Exchange'
<1>. USE DEF fsmVars, envVars
<1>1. CASE Sends
  <2>1. /\ UNCHANGED <<st, xid, net>> /\ asked' = out /\ out'.kind = "none"
        /\ out.kind \in {"Discover", "Request", "Renew"} /\ out.xid = xid
        /\ out.kind = "Discover" <=> st = "Discovering"
    BY <1>1, ConstTypes DEF Sends, Exchange, TypeInv, TypeOK, Asks
  <2>2. \A m \in net : m.xid = xid /\ m.type = "Ack" => st # "Discovering"
    BY DEF Exchange
  <2>. QED
    BY <2>1, <2>2 DEF Exchange
<1>2. CASE Effects /\ ~Sends
  <2>1. UNCHANGED <<st, xid, out, asked, net>>
    BY <1>2 DEF Effects, BindDeletes, BindReplaces, BindLanRoute, BindBinding,
       BindLinkRoute, ReleaseDeletes, ReleaseSession, ReleaseLinkRoute,
       ReleaseLanRoute, ReleaseUnbinds, Tail
  <2>. QED
    BY <2>1 DEF Exchange
<1>3. CASE StopBreaks
  BY <1>3 DEF StopBreaks, Exchange, TypeInv, TypeOK
<1>4. CASE Tick \/ RequestStop \/ NetLoses
  <2>1. UNCHANGED <<st, xid, out, asked>> /\ net' \subseteq net
    BY <1>4 DEF Tick, RequestStop, NetLoses
  <2>. QED
    BY <2>1 DEF Exchange
<1>5. CASE ServerReplies
  <2>1. UNCHANGED <<st, xid, out, asked>>
    BY <1>5 DEF ServerReplies
  <2>2. \E m : /\ net' = net \cup {m} /\ m.xid = asked.xid
               /\ m.type = "Ack" => asked.kind \in {"Request", "Renew"}
    <3>1. \A t, a, o, c : /\ Reply(t, asked.xid, a, o, c).xid = asked.xid
                          /\ Reply(t, asked.xid, a, o, c).type = t
      BY DEF Reply
    <3>2. CASE asked.kind = "Discover"
      <4>1. PICK a \in Addrs : net' = net \cup
                {Reply("Offer", asked.xid, a, AnyOptions, TRUE)}
        BY <1>5, <3>2 DEF ServerReplies
      <4>2. /\ Reply("Offer", asked.xid, a, AnyOptions, TRUE).xid = asked.xid
            /\ Reply("Offer", asked.xid, a, AnyOptions, TRUE).type # "Ack"
        BY DEF Reply
      <4>. QED
        BY <4>1, <4>2, Zenon
    <3>3. CASE asked.kind \in {"Request", "Renew"}
      <4>1. \E t, a, o, c : net' = net \cup {Reply(t, asked.xid, a, o, c)}
        BY <1>5, <3>3 DEF ServerReplies
      <4>. QED
        BY <3>1, <3>3, <4>1
    <3>. QED
      BY <1>5, <3>2, <3>3 DEF ServerReplies
  <2>. QED
    BY <2>1, <2>2 DEF Exchange
<1>. QED
  BY <1>1, <1>2, <1>3, <1>4, <1>5 DEF Next

\* Datagrams with the current id answer the last one sent, in every state.
THEOREM ExchangeInvariance == Spec => []Exchange
<1>1. Init => Exchange
  BY ConstTypes DEF Init, Exchange
<1>2. TypeInv /\ Exchange /\ [Next]_vars => Exchange'
  <2>1. CASE Next
    BY <2>1, TimerExchange, RecvExchange, OtherExchange
  <2>2. CASE UNCHANGED vars
    BY <2>2 DEF vars, fsmVars, envVars, Exchange
  <2>. QED
    BY <2>1, <2>2
<1>. QED
  BY <1>1, <1>2, TypeInvariance, PTL DEF Spec

\* The first DISCOVER of a new round finds the host clean.
THEOREM DiscoverFindsClean == Spec => DiscoversClean
<1>1. /\ TypeInv /\ Host /\ Exchange
      /\ [Next]_vars
      => [asked' # asked /\ asked'.kind = "Discover" => HostClean]_vars
  <2>. SUFFICES ASSUME TypeInv, Host, Exchange, Next,
                       asked' # asked, asked'.kind = "Discover"
                PROVE  HostClean
    BY DEF vars
  <2>1. Sends
    BY DEF Next, OnTimer, DiscoverTimer, RequestTimer, BoundTimer, RenewTimer,
       WaitToRebindTimer, RebindTimer, OnRecv, RecvOffer, handle_ack, RecvNak,
       RecvIgnored, Receive, Effects, BindDeletes, BindReplaces, BindLanRoute,
       BindBinding, BindLinkRoute, ReleaseDeletes, ReleaseSession,
       ReleaseLinkRoute, ReleaseLanRoute, ReleaseUnbinds, Tail, StopBreaks, Tick,
       RequestStop, ServerReplies, NetLoses, envVars
  <2>2. pc = "send" /\ st = "Discovering"
    BY <2>1 DEF Sends, Exchange
  <2>3. leased_ip = NoAddr /\ lease = NoLease
    BY <2>2 DEF leased_ip, TypeInv, TypeOK
  <2>. QED
    BY <2>2, <2>3, ConstAssumption
    DEF Host, HostClean, KernelFits, LinkFits
<1>. QED
  BY <1>1, TypeInvariance, HostInvariance, ExchangeInvariance, PTL
  DEF Spec, DiscoversClean

\* Only an answer to the last request becomes a lease.
THEOREM BindsCurrent == Spec => BindsCurrentAnswer
<1>1. /\ TypeInv /\ Exchange /\ [Next]_vars
      => [st' = "Bound" /\ st # "Bound" =>
             /\ asked.kind \in {"Request", "Renew"}
             /\ \E m \in net : /\ m.type = "Ack" /\ m.xid = asked.xid
                               /\ lease'.ip = m.yiaddr]_vars
  <2>. SUFFICES ASSUME TypeInv, Exchange, Next, st' = "Bound", st # "Bound"
                PROVE  /\ asked.kind \in {"Request", "Renew"}
                       /\ \E m \in net : /\ m.type = "Ack" /\ m.xid = asked.xid
                                         /\ lease'.ip = m.yiaddr
    BY DEF vars
  <2>1. handle_ack
    BY DEF Next, OnTimer, DiscoverTimer, RequestTimer, BoundTimer, RenewTimer,
       Renew, WaitToRebindTimer, RebindTimer, RebindTurn, Rediscover, OnRecv,
       RecvOffer, RecvNak, RecvIgnored, Effects, BindDeletes, BindReplaces,
       BindLanRoute, BindBinding, BindLinkRoute, ReleaseDeletes, ReleaseSession,
       ReleaseLinkRoute, ReleaseLanRoute, ReleaseUnbinds, Sends, Tail,
       StopBreaks, Tick, RequestStop, ServerReplies, NetLoses, fsmVars
  <2>2. PICK m \in net : /\ Matches(m) /\ Acceptable(m)
                         /\ lease' = NewLease(m.yiaddr, m.opts)
    BY <2>1 DEF handle_ack
  <2>3. m.xid = asked.xid /\ m.type = "Ack" /\ asked.kind \in {"Request", "Renew"}
    BY <2>2 DEF Matches, Acceptable, Exchange
  <2>4. lease'.ip = m.yiaddr
    BY <2>2 DEF NewLease
  <2>. QED
    BY <2>3, <2>4
<1>. QED
  BY <1>1, TypeInvariance, ExchangeInvariance, PTL DEF Spec, BindsCurrentAnswer

==============================================================================
