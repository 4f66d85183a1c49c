---------------------------- MODULE Links_proofs ----------------------------
(***************************************************************************)
(* Proofs about what a WAN link leaves on the host: the native PPPoE       *)
(* client's configuration follows its session, and a delegated prefix is   *)
(* used exactly while it is held, on the link and on the LAN.              *)
(***************************************************************************)
EXTENDS PppoeClient, LanPrefixes, TLAPS

(***************************************************************************)
(* PppoeClient                                                             *)
(***************************************************************************)
PppAddrs == PppIps \cup {0}
PppMrus == Mrus \cup {requested_mru}
PppHosts == [bind : PppAddrs, mtu : Nat, addr : PppAddrs, lan : PppAddrs, wan : PppAddrs,
             ll : {"own", "cp"}, tc : BOOLEAN]
PppNegos == [auth : BOOLEAN, ip : PppAddrs, peer : BOOLEAN, v6mine : BOOLEAN, v6peer : BOOLEAN, v6off : BOOLEAN]
PppLcps == [acked : BOOLEAN, peer : BOOLEAN, mru : PppMrus]
PppTrying == [main : Nat, ip : 0 .. MAX_NCP_RETRIES, v6 : 0 .. MAX_NCP_RETRIES]

\* The types of the records, whole: PppTypeOK names the fields with a bound.
PppRecords ==
  /\ pppTries \in PppTrying /\ lcpState \in PppLcps /\ nego \in PppNegos /\ pppHost \in PppHosts
  /\ sess \in [up : BOOLEAN, ip : PppAddrs, newll : BOOLEAN, prevll : {"own", "cp"}]
  /\ sessUp \in BOOLEAN /\ pppLeaked \in BOOLEAN

Applying == {"apply", "applyLan", "applyWan", "attach"}
TakingDown == {"downWan", "downLan", "downEnd"}

\* The handle and the link's session go together; a handle exists from Attach
\* to the end of its shutdown, and a session is created only without one.
Handle ==
  /\ sessUp = sess.up
  /\ ~sess.up => sess = NoHandle
  /\ ph \in {"online", "hangup"} \cup TakingDown => sess.up
  /\ sess.up => ph \in {"online", "hangup", "down"} \cup TakingDown
  /\ sess.up /\ ph \in {"down"} \cup TakingDown => pppAfter # "apply"

\* create_session runs with an address.
Addressed ==
  /\ ph \in Applying \cup {"online", "hangup"} => nego.ip # 0
  /\ ph = "down" /\ pppAfter = "apply" => nego.ip # 0

\* No MTU larger than the one asked for.
MruBound ==
  /\ lcpState.mru <= requested_mru
  /\ pppHost.mtu = FullMtu \/ pppHost.mtu <= requested_mru

\* What create_session has set so far, also on top of what a refused session
\* left behind.
Built ==
  /\ ph \in {"applyLan", "applyWan", "attach", "online", "hangup"} =>
       pppHost.bind = nego.ip /\ pppHost.addr = nego.ip /\ pppHost.mtu = lcpState.mru
  /\ ph \in {"applyWan", "attach", "online", "hangup"} => pppHost.lan = nego.ip
  /\ ph \in {"attach", "online", "hangup"} => pppHost.wan = nego.ip
  /\ ph \in {"online", "hangup"} => pppHost.tc

\* Without a refused session: what is not set yet, and what the shutdown still
\* has to restore.
Clean ==
  ~pppLeaked =>
    /\ ~sess.up /\ ph \notin {"applyLan", "applyWan", "attach"} => pppHost = CleanHost
    /\ ph \in {"applyLan", "applyWan", "attach"} => pppHost.ll = "own" /\ ~pppHost.tc
    /\ ph \in {"applyLan", "applyWan"} => pppHost.wan = 0
    /\ ph = "applyLan" => pppHost.lan = 0
    /\ ph \in {"online", "hangup"} => sess.newll = nego.v6mine
    /\ sess.up => sess.prevll = "own"
    /\ ph \in {"online", "hangup", "down"} /\ sess.up => pppHost.ll = IF sess.newll THEN "cp" ELSE "own"
    /\ ph \in TakingDown => pppHost.ll = "own" /\ pppHost.addr = 0
    /\ ph \in {"downLan", "downEnd"} => pppHost.wan = 0
    /\ ph = "downEnd" => pppHost.lan = 0

PppIInv == PppTypeOK /\ PppRecords /\ Handle /\ Addressed /\ MruBound /\ Built /\ Clean

\* The updates of a host configuration, written out.
LEMMA PppHostApplied ==
  ASSUME NEW h \in PppHosts, NEW a \in PppAddrs, NEW m \in Nat
  PROVE  [h EXCEPT !.bind = a, !.mtu = m, !.addr = a] =
           [bind |-> a, mtu |-> m, addr |-> a, lan |-> h.lan, wan |-> h.wan, ll |-> h.ll, tc |-> h.tc]
<1> DEFINE g == [h EXCEPT !.bind = a]
           k == [g EXCEPT !.mtu = m]
<1>1. g \in PppHosts /\ g = [bind |-> a, mtu |-> h.mtu, addr |-> h.addr, lan |-> h.lan, wan |-> h.wan, ll |-> h.ll, tc |-> h.tc]  BY DEF PppHosts
<1>2. [h EXCEPT !.bind = a, !.mtu = m, !.addr = a] = [k EXCEPT !.addr = a]  OBVIOUS
<1> HIDE DEF g
<1>3. k \in PppHosts /\ k = [bind |-> g.bind, mtu |-> m, addr |-> g.addr, lan |-> g.lan, wan |-> g.wan, ll |-> g.ll, tc |-> g.tc]  BY <1>1 DEF PppHosts
<1> HIDE DEF k
<1>4. [k EXCEPT !.addr = a] = [bind |-> k.bind, mtu |-> k.mtu, addr |-> a, lan |-> k.lan, wan |-> k.wan, ll |-> k.ll, tc |-> k.tc]  BY <1>1, <1>3 DEF PppHosts
<1> QED  BY <1>1, <1>2, <1>3, <1>4

LEMMA PppHostAttached ==
  ASSUME NEW h \in PppHosts, NEW l \in {"own", "cp"}, NEW t \in BOOLEAN
  PROVE  [h EXCEPT !.ll = l, !.tc = t] =
           [bind |-> h.bind, mtu |-> h.mtu, addr |-> h.addr, lan |-> h.lan, wan |-> h.wan, ll |-> l, tc |-> t]
<1> DEFINE g == [h EXCEPT !.ll = l]
<1>1. g \in PppHosts /\ g = [bind |-> h.bind, mtu |-> h.mtu, addr |-> h.addr, lan |-> h.lan, wan |-> h.wan, ll |-> l, tc |-> h.tc]  BY DEF PppHosts
<1>2. [h EXCEPT !.ll = l, !.tc = t] = [g EXCEPT !.tc = t]  OBVIOUS
<1> HIDE DEF g
<1>4. [g EXCEPT !.tc = t] = [bind |-> g.bind, mtu |-> g.mtu, addr |-> g.addr, lan |-> g.lan, wan |-> g.wan, ll |-> g.ll, tc |-> t]  BY <1>1 DEF PppHosts
<1> QED  BY <1>1, <1>2, <1>4

LEMMA PppHostLowered ==
  ASSUME NEW h \in PppHosts, NEW a \in PppAddrs, NEW l \in {"own", "cp"}
  PROVE  [h EXCEPT !.addr = a, !.ll = l] =
           [bind |-> h.bind, mtu |-> h.mtu, addr |-> a, lan |-> h.lan, wan |-> h.wan, ll |-> l, tc |-> h.tc]
<1> DEFINE g == [h EXCEPT !.addr = a]
<1>1. g \in PppHosts /\ g = [bind |-> h.bind, mtu |-> h.mtu, addr |-> a, lan |-> h.lan, wan |-> h.wan, ll |-> h.ll, tc |-> h.tc]  BY DEF PppHosts
<1>2. [h EXCEPT !.addr = a, !.ll = l] = [g EXCEPT !.ll = l]  OBVIOUS
<1> HIDE DEF g
<1>4. [g EXCEPT !.ll = l] = [bind |-> g.bind, mtu |-> g.mtu, addr |-> g.addr, lan |-> g.lan, wan |-> g.wan, ll |-> l, tc |-> g.tc]  BY <1>1 DEF PppHosts
<1> QED  BY <1>1, <1>2, <1>4

LEMMA PppHostEnded ==
  ASSUME NEW h \in PppHosts, NEW a \in PppAddrs, NEW m \in Nat, NEW t \in BOOLEAN
  PROVE  [h EXCEPT !.bind = a, !.mtu = m, !.tc = t] =
           [bind |-> a, mtu |-> m, addr |-> h.addr, lan |-> h.lan, wan |-> h.wan, ll |-> h.ll, tc |-> t]
<1> DEFINE g == [h EXCEPT !.bind = a]
           k == [g EXCEPT !.mtu = m]
<1>1. g \in PppHosts /\ g = [bind |-> a, mtu |-> h.mtu, addr |-> h.addr, lan |-> h.lan, wan |-> h.wan, ll |-> h.ll, tc |-> h.tc]  BY DEF PppHosts
<1>2. [h EXCEPT !.bind = a, !.mtu = m, !.tc = t] = [k EXCEPT !.tc = t]  OBVIOUS
<1> HIDE DEF g
<1>3. k \in PppHosts /\ k = [bind |-> g.bind, mtu |-> m, addr |-> g.addr, lan |-> g.lan, wan |-> g.wan, ll |-> g.ll, tc |-> g.tc]  BY <1>1 DEF PppHosts
<1> HIDE DEF k
<1>4. [k EXCEPT !.tc = t] = [bind |-> k.bind, mtu |-> k.mtu, addr |-> k.addr, lan |-> k.lan, wan |-> k.wan, ll |-> k.ll, tc |-> t]  BY <1>1, <1>3 DEF PppHosts
<1> QED  BY <1>1, <1>2, <1>3, <1>4

LEMMA PppTryUpdates ==
  ASSUME NEW t \in PppTrying, NEW a \in 0 .. MAX_NCP_RETRIES, NEW b \in 0 .. MAX_NCP_RETRIES
  PROVE  [t EXCEPT !.ip = a, !.v6 = b] \in PppTrying
BY DEF PppTrying

LEMMA PppV6Off ==
  ASSUME NEW n \in PppNegos, NEW b \in BOOLEAN
  PROVE  [n EXCEPT !.v6off = b] \in PppNegos /\ [n EXCEPT !.v6off = b].ip = n.ip
BY DEF PppNegos

LEMMA PppNegoTypes ==
  ASSUME nego \in PppNegos, NEW m \in NegoMsgs \cup {"echo"}, NEW ip \in PppAddrs
  PROVE  NegoAfter(m, ip) \in PppNegos
<1>1. CASE m = "authOk"  BY <1>1 DEF NegoAfter, PppNegos
<1>2. CASE m = "ipAck"  BY <1>2 DEF NegoAfter, PppNegos
<1>3. CASE m = "ipReq"  BY <1>3 DEF NegoAfter, PppNegos
<1>4. CASE m = "v6Ack"  BY <1>4 DEF NegoAfter, PppNegos
<1>5. CASE m = "v6Req"  BY <1>5 DEF NegoAfter, PppNegos
<1>6. CASE m = "v6Rej"  BY <1>6 DEF NegoAfter, PppNegos
<1>7. CASE m \in {"nak", "echo"}  BY <1>7 DEF NegoAfter
<1> QED  BY <1>1, <1>2, <1>3, <1>4, <1>5, <1>6, <1>7 DEF NegoMsgs

LEMMA PppLcpTypes ==
  ASSUME lcpState \in PppLcps, lcpState.mru <= requested_mru, NEW m \in LcpMsgs, NEW mru \in Mrus
  PROVE  LcpAfter(m, mru) \in PppLcps /\ LcpAfter(m, mru).mru <= requested_mru
<1>1. PppMrus \subseteq Nat /\ mru \in PppMrus /\ lcpState.mru \in PppMrus
  BY PppConstants DEF PppMrus, PppLcps
<1>2. CASE m = "req"  BY <1>1, <1>2 DEF LcpAfter, PppLcps
<1>3. CASE m = "ack"  BY <1>1, <1>3 DEF LcpAfter, PppLcps
<1>4. CASE m = "nak"
  <2>1. LcpAfter(m, mru) = [acked |-> FALSE, peer |-> lcpState.peer, mru |-> IF mru < lcpState.mru THEN mru ELSE lcpState.mru]
    BY <1>4 DEF LcpAfter, PppLcps
  <2>2. lcpState.mru \in Nat /\ mru \in Nat /\ requested_mru \in Nat /\ lcpState.peer \in BOOLEAN  BY <1>1, PppConstants DEF PppLcps
  <2>3. LcpAfter(m, mru).mru <= requested_mru  BY <2>1, <2>2
  <2> QED  BY <1>1, <2>1, <2>2, <2>3 DEF PppLcps
<1> QED  BY <1>2, <1>3, <1>4 DEF LcpMsgs

\* A phase without a session, or the session itself, is left for a redial or
\* the end of the run.
LEMMA PppLeaves ==
  ASSUME PppIInv, NEW next \in {"backoff", "ended"}, LeaveFor(next),
         ph \in Dialing \cup {"backoff", "nego", "online", "hangup"},
         pppRetry' \in 0 .. BackoffCap, UNCHANGED hostSide
  PROVE  PppIInv'
<1> USE PppConstants DEF PppIInv, PppTypeOK, PppRecords, PppHosts, PppNegos, PppLcps, PppTrying, PppAddrs, PppMrus, PppPhases, Dialing, Applying, TakingDown,
         Handle, Addressed, MruBound, Built, Clean, NoTries, NoLcp, NoNego, NoHandle, CleanHost, FullMtu,
         LeaveFor, DropLocals, DropTimers, hostSide
<1> QED  BY SMTT(60)

\* Negotiation has given an address: create_session follows.
LEMMA PppNegotiated ==
  ASSUME PppIInv, ph = "nego", NEW n, LeaveToApply(n), UNCHANGED << lcpState, pppRetry, hostSide >>, n.ip # 0,
         n \in PppNegos
  PROVE  PppIInv'
<1> USE PppConstants DEF PppIInv, PppTypeOK, PppRecords, PppHosts, PppNegos, PppLcps, PppTrying, PppAddrs, PppMrus, PppPhases, Dialing, Applying, TakingDown,
         Handle, Addressed, MruBound, Built, Clean, NoTries, NoLcp, NoNego, NoHandle, CleanHost, FullMtu,
         LeaveToApply, DropTimers, hostSide
<1> QED  BY SMTT(60)

\* A phase goes on: only its counters, timers and what it has learned change.
LEMMA PppStays ==
  ASSUME PppIInv, UNCHANGED << ph, pppAfter, hostSide >>, ph \in Dialing \cup {"nego", "online"},
         PppTypeOK', PppRecords', lcpState'.mru <= requested_mru,
         ph = "online" => UNCHANGED << lcpState, nego >>
  PROVE  PppIInv'
<1> USE PppConstants DEF PppIInv, PppTypeOK, PppRecords, PppHosts, PppNegos, PppLcps, PppTrying, PppAddrs, PppMrus, PppPhases, Dialing, Applying, TakingDown,
         Handle, Addressed, MruBound, Built, Clean, NoTries, NoLcp, NoNego, NoHandle, CleanHost, FullMtu,
         hostSide
<1> QED  BY SMTT(60)

LEMMA PppRetryBound ==
  ASSUME PppIInv PROVE RetryAgain \in 0 .. BackoffCap
BY PppConstants DEF PppIInv, PppTypeOK, RetryAgain

\* The waits for LCP grow with the retries, up to the last one.
LEMMA PppWaits ==
  ASSUME NEW k \in Nat, k <= MAX_LCP_RETRIES
  PROVE  DEFAULT_TIMEOUT * (k + 1) \in 0 .. DEFAULT_TIMEOUT * (MAX_LCP_RETRIES + 1)
<1>1. DEFAULT_TIMEOUT \in Nat /\ MAX_LCP_RETRIES \in Nat  BY PppConstants
<1>2. PICK d \in Nat : MAX_LCP_RETRIES = k + d
  <2>1. MAX_LCP_RETRIES - k \in Nat /\ MAX_LCP_RETRIES = k + (MAX_LCP_RETRIES - k)  BY <1>1
  <2> QED  BY <2>1
<1>3. /\ DEFAULT_TIMEOUT * (k + 1) \in Nat /\ DEFAULT_TIMEOUT * d \in Nat
      /\ DEFAULT_TIMEOUT * (MAX_LCP_RETRIES + 1) = DEFAULT_TIMEOUT * (k + 1) + DEFAULT_TIMEOUT * d
  BY <1>1, <1>2
<1> QED  BY <1>3

\* No session to take down: what the phase before it left is as it was.
LEMMA PppDownIdle ==
  ASSUME PppIInv, DownIdle PROVE PppIInv'
<1>1. /\ ph = "down" /\ ~sess.up /\ ph' = pppAfter /\ sessUp' = FALSE
      /\ UNCHANGED << pppAfter, pppRetry, pppTries, lcpState, nego, pppLeft, pppEcho, pppMissed, pppHost, sess, pppLeaked >>
  BY DEF DownIdle, dialSide, pppTimers
<1>2. pppAfter \in {"apply", "backoff", "ended"}  BY DEF PppIInv, PppTypeOK
<1>3. PppTypeOK'  BY <1>1, <1>2 DEF PppIInv, PppTypeOK, PppPhases
<1>4. PppRecords'  BY <1>1 DEF PppIInv, PppRecords
<1>5. Handle'
  <2>1. sess.up \in BOOLEAN  BY DEF PppIInv, PppRecords
  <2> QED  BY <2>1, <1>1, <1>2 DEF PppIInv, Handle, TakingDown
<1>6. Addressed'  BY <1>1, <1>2 DEF PppIInv, Addressed, Applying
<1>7. MruBound'  BY <1>1 DEF PppIInv, MruBound
<1>8. Built'  BY <1>1, <1>2 DEF Built
<1>9. Clean'
  <2>1. ~pppLeaked => pppHost = CleanHost  BY <1>1 DEF PppIInv, Clean
  <2> QED  BY <2>1, <1>1, <1>2 DEF Clean, TakingDown
<1> QED  BY <1>3, <1>4, <1>5, <1>6, <1>7, <1>8, <1>9 DEF PppIInv

\* The last step of the shutdown leaves a clean host.
LEMMA PppDownEnd ==
  ASSUME PppIInv, DownEnd,
         pppHost' = [bind |-> 0, mtu |-> FullMtu, addr |-> pppHost.addr, lan |-> pppHost.lan, wan |-> pppHost.wan, ll |-> pppHost.ll, tc |-> FALSE]
  PROVE  PppIInv'
<1>1. /\ ph = "downEnd" /\ ph' = pppAfter /\ sess' = NoHandle /\ sessUp' = FALSE
      /\ UNCHANGED << pppAfter, pppRetry, pppTries, lcpState, nego, pppLeft, pppEcho, pppMissed, pppLeaked >>
  BY DEF DownEnd, HostTo, dialSide, pppTimers
<1>2. pppAfter \in {"backoff", "ended"}
  <2>1. sess.up  BY <1>1 DEF PppIInv, Handle, TakingDown
  <2> QED  BY <2>1, <1>1 DEF PppIInv, PppTypeOK, Handle, TakingDown
<1>3. PppTypeOK'  BY <1>1, <1>2 DEF PppIInv, PppTypeOK, PppPhases
<1>4. PppRecords'
  <2>1. pppHost' \in PppHosts
    <3>1. pppHost.addr \in PppAddrs /\ pppHost.lan \in PppAddrs /\ pppHost.wan \in PppAddrs /\ pppHost.ll \in {"own", "cp"} /\ 0 \in PppAddrs
      BY DEF PppIInv, PppRecords, PppHosts, PppAddrs
    <3> QED  BY <3>1 DEF PppHosts, FullMtu
  <2>2. sess' \in [up : BOOLEAN, ip : PppAddrs, newll : BOOLEAN, prevll : {"own", "cp"}]
    BY <1>1 DEF NoHandle, PppAddrs
  <2> QED  BY <1>1, <2>1, <2>2 DEF PppIInv, PppRecords
<1>5. Handle'  BY <1>1, <1>2 DEF Handle, TakingDown, NoHandle
<1>6. Addressed'  BY <1>1, <1>2 DEF Addressed, Applying
<1>7. MruBound'  BY <1>1 DEF PppIInv, MruBound
<1>8. Built'  BY <1>1, <1>2 DEF Built
<1>9. Clean'
  <2>1. ASSUME ~pppLeaked PROVE pppHost' = CleanHost
    <3>1. pppHost.addr = 0 /\ pppHost.lan = 0 /\ pppHost.wan = 0 /\ pppHost.ll = "own"
      BY <2>1, <1>1 DEF PppIInv, Clean, TakingDown
    <3> QED  BY <3>1 DEF CleanHost
  <2>2. ~sess'.up  BY <1>1 DEF NoHandle
  <2> QED  BY <2>1, <2>2, <1>1, <1>2 DEF Clean, TakingDown
<1> QED  BY <1>3, <1>4, <1>5, <1>6, <1>7, <1>8, <1>9 DEF PppIInv

\* Every step of the client preserves the inductive invariant.
LEMMA PppActionsPreserve ==
  ASSUME PppIInv, PppNext PROVE PppIInv'
<1>a. /\ pppHost \in PppHosts /\ lcpState \in PppLcps /\ nego \in PppNegos /\ pppTries \in PppTrying
      /\ lcpState.mru <= requested_mru
  BY DEF PppIInv, PppRecords, MruBound
<1>b. nego.ip \in PppAddrs /\ nego.v6mine \in BOOLEAN  BY <1>a DEF PppNegos
<1>l. lcpState.mru \in Nat
  <2>1. lcpState.mru \in PppMrus  BY <1>a DEF PppLcps
  <2> QED  BY <2>1, PppConstants DEF PppMrus
<1>m. pppHost.ll \in {"own", "cp"}  BY <1>a DEF PppHosts
<1>n. LinkLocal \in {"own", "cp"}  BY <1>b, <1>m DEF LinkLocal
<1>o. (IF sess.newll THEN sess.prevll ELSE pppHost.ll) \in {"own", "cp"}
  <2>1. sess.newll \in BOOLEAN /\ sess.prevll \in {"own", "cp"}  BY DEF PppIInv, PppRecords
  <2> QED  BY <2>1, <1>m
<1>p. 0 \in PppAddrs /\ FullMtu \in Nat  BY DEF PppAddrs, FullMtu
<1>c. Apply => pppHost' = [bind |-> nego.ip, mtu |-> lcpState.mru, addr |-> nego.ip, lan |-> pppHost.lan, wan |-> pppHost.wan, ll |-> pppHost.ll, tc |-> pppHost.tc]
  <2> DEFINE a == nego.ip  m == lcpState.mru
  <2>1. a \in PppAddrs /\ m \in Nat  BY <1>b, <1>l
  <2>2. Apply => pppHost' = [pppHost EXCEPT !.bind = a, !.mtu = m, !.addr = a]  BY DEF Apply, HostTo
  <2> HIDE DEF a, m
  <2>3. Apply => pppHost' = [bind |-> a, mtu |-> m, addr |-> a, lan |-> pppHost.lan, wan |-> pppHost.wan, ll |-> pppHost.ll, tc |-> pppHost.tc]
    BY <2>1, <2>2, <1>a, PppHostApplied
  <2> QED  BY <2>3 DEF a, m
<1>d. Attach => pppHost' = [bind |-> pppHost.bind, mtu |-> pppHost.mtu, addr |-> pppHost.addr, lan |-> pppHost.lan, wan |-> pppHost.wan, ll |-> LinkLocal, tc |-> TRUE]
  BY <1>a, <1>n, PppHostAttached DEF Attach
<1>e. Down => pppHost' = [bind |-> pppHost.bind, mtu |-> pppHost.mtu, addr |-> 0, lan |-> pppHost.lan, wan |-> pppHost.wan, ll |-> (IF sess.newll THEN sess.prevll ELSE pppHost.ll), tc |-> pppHost.tc]
  <2> DEFINE l == IF sess.newll THEN sess.prevll ELSE pppHost.ll
  <2>1. Down => pppHost' = [pppHost EXCEPT !.addr = 0, !.ll = l]  BY DEF Down, HostTo
  <2>2. l \in {"own", "cp"}  BY <1>o
  <2> HIDE DEF l
  <2>3. Down => pppHost' = [bind |-> pppHost.bind, mtu |-> pppHost.mtu, addr |-> 0, lan |-> pppHost.lan, wan |-> pppHost.wan, ll |-> l, tc |-> pppHost.tc]
    BY <2>1, <2>2, <1>a, <1>p, PppHostLowered
  <2> QED  BY <2>3 DEF l
<1>f. DownEnd => pppHost' = [bind |-> 0, mtu |-> FullMtu, addr |-> pppHost.addr, lan |-> pppHost.lan, wan |-> pppHost.wan, ll |-> pppHost.ll, tc |-> FALSE]
  BY <1>a, <1>p, PppHostEnded DEF DownEnd, HostTo
<1>g. ASSUME NEW b \in BOOLEAN PROVE [nego EXCEPT !.v6off = b] \in PppNegos /\ [nego EXCEPT !.v6off = b].ip = nego.ip
  BY <1>a, PppV6Off
<1>h. ASSUME NEW p \in 0 .. MAX_NCP_RETRIES, NEW q \in 0 .. MAX_NCP_RETRIES
      PROVE  [pppTries EXCEPT !.ip = p, !.v6 = q] \in PppTrying
  BY <1>a, PppTryUpdates
<1>i. ASSUME NEW m \in LcpMsgs, NEW mru \in Mrus
      PROVE  LcpAfter(m, mru) \in PppLcps /\ LcpAfter(m, mru).mru <= requested_mru
  BY <1>a, PppLcpTypes
<1>j. ASSUME NEW m \in NegoMsgs \cup {"echo"}, NEW ip \in PppAddrs PROVE NegoAfter(m, ip) \in PppNegos
  BY <1>a, PppNegoTypes
<1> USE PppConstants DEF PppIInv, PppTypeOK, PppRecords, PppHosts, PppNegos, PppLcps, PppTrying, PppAddrs, PppMrus, PppPhases, Dialing, Applying, TakingDown,
         Handle, Addressed, MruBound, Built, Clean, NoTries, NoLcp, NoNego, NoHandle, CleanHost, FullMtu,
         hostSide, pppTimers, dialSide
<1>1. ASSUME NEW ok \in BOOLEAN, PppStart(ok) PROVE PppIInv'
  BY <1>1, SMTT(60) DEF PppStart, RetryAgain
<1>2. ASSUME NEW ok \in BOOLEAN, DialAgain(ok) PROVE PppIInv'
  BY <1>2, SMTT(60) DEF DialAgain, RetryAgain
<1>3. CASE BackoffOver
  BY <1>3, SMTT(60) DEF BackoffOver
<1>4. CASE ChannelCloses
  BY <1>4, SMTT(60) DEF ChannelCloses
<1>5. CASE AskPppStop
  BY <1>5, SMTT(60) DEF AskPppStop
<1>6. CASE PppTick
  BY <1>6, SMTT(60) DEF PppTick
<1>7. CASE Discovered
  BY <1>7, SMTT(60) DEF Discovered
<1>8. CASE OnlineEcho
  BY <1>8, SMTT(60) DEF OnlineEcho
<1>9. CASE OnlineStops
  BY <1>9, SMTT(60) DEF OnlineStops
<1>10. CASE LcpRejected
  BY <1>10, PppLeaves DEF LcpRejected
<1>11. CASE NegoRefused
  BY <1>11, PppLeaves DEF NegoRefused
<1>12. CASE HangupOver
  BY <1>12, PppLeaves DEF HangupOver
<1>13. CASE BackoffStops
  BY <1>13, PppLeaves DEF BackoffStops
<1>14. CASE PhaseStops
  BY <1>14, PppLeaves DEF PhaseStops
<1>15. CASE SeesClosed
  BY <1>15, PppLeaves, PppRetryBound DEF SeesClosed, Redial
<1>16. CASE PeerTerminates
  BY <1>16, PppLeaves, PppRetryBound DEF PeerTerminates, Redial
<1>17. CASE EchoTimer
  <2>1. CASE pppMissed + 1 > MAX_ECHO_FAILURES
    BY <2>1, <1>17, PppLeaves, PppRetryBound DEF EchoTimer, Redial
  <2>2. CASE ~(pppMissed + 1 > MAX_ECHO_FAILURES)
    <3>1. PppTypeOK' /\ PppRecords' /\ lcpState'.mru <= requested_mru  BY <2>2, <1>17, SMTT(60) DEF EchoTimer
    <3> QED  BY <3>1, <2>2, <1>17, PppStays DEF EchoTimer
  <2> QED  BY <2>1, <2>2
<1>18. CASE DialTimeout
  <2> DEFINE limit == IF ph = "lcp" THEN MAX_LCP_RETRIES ELSE MAX_DISCOVERY_RETRIES
  <2>1. CASE ~(pppTries.main < limit)
    BY <2>1, <1>18, PppLeaves, PppRetryBound DEF DialTimeout, Redial
  <2>2. CASE pppTries.main < limit
    <3>1. /\ pppTries' = [pppTries EXCEPT !.main = @ + 1] /\ UNCHANGED << ph, pppAfter, pppRetry, lcpState, nego, pppEcho, pppMissed, hostSide >>
          /\ pppLeft' = DEFAULT_TIMEOUT * (IF ph = "lcp" THEN pppTries'.main + 1 ELSE 1)
      BY <2>2, <1>18 DEF DialTimeout
    <3>2. PppRecords' /\ pppTries'.main \in Nat /\ (ph = "lcp" => pppTries'.main <= MAX_LCP_RETRIES)
      BY <3>1, <2>2, SMTT(60)
    <3>3. pppLeft' \in 0 .. DEFAULT_TIMEOUT * (MAX_LCP_RETRIES + 1)
      <4>1. CASE ph = "lcp"  BY <4>1, <3>1, <3>2, PppWaits
      <4>2. CASE ph # "lcp"
        <5>1. pppLeft' = DEFAULT_TIMEOUT * (0 + 1)  BY <4>2, <3>1
        <5> QED  BY <5>1, PppWaits
      <4> QED  BY <4>1, <4>2
    <3>4. PppTypeOK'  BY <3>1, <3>2, <3>3, SMTT(60)
    <3> QED  BY <3>1, <3>2, <3>4, <1>18, PppStays DEF DialTimeout
  <2> QED  BY <2>1, <2>2
<1>19. CASE AuthTimeout
  <2>1. CASE ~(pppTries.main < MAX_AUTH_RETRIES)
    BY <2>1, <1>19, PppLeaves DEF AuthTimeout
  <2>2. CASE pppTries.main < MAX_AUTH_RETRIES
    <3>1. PppTypeOK' /\ PppRecords' /\ lcpState'.mru <= requested_mru
      <4>1. DEFAULT_TIMEOUT \in 0 .. DEFAULT_TIMEOUT * (MAX_LCP_RETRIES + 1)
        <5>1. DEFAULT_TIMEOUT = DEFAULT_TIMEOUT * (0 + 1)  OBVIOUS
        <5> QED  BY <5>1, PppWaits
      <4> QED  BY <4>1, <2>2, <1>19, SMTT(60) DEF AuthTimeout
    <3> QED  BY <3>1, <2>2, <1>19, PppStays DEF AuthTimeout
  <2> QED  BY <2>1, <2>2
<1>20. CASE NcpTimeout
  <2> DEFINE ipAgain == ~IpcpDone(nego)
             v6Again == ~Ipv6cpDone(nego) /\ pppTries.v6 < MAX_NCP_RETRIES
             off == [nego EXCEPT !.v6off = nego.v6off \/ (~Ipv6cpDone(nego) /\ ~v6Again)]
  <2>1. CASE ipAgain /\ pppTries.ip = MAX_NCP_RETRIES
    BY <2>1, <1>20, PppLeaves, PppRetryBound DEF NcpTimeout, Redial
  <2>2. CASE ~(ipAgain /\ pppTries.ip = MAX_NCP_RETRIES)
    <3>1. /\ off \in PppNegos
          /\ off.ip = nego.ip
      BY <1>g, ZenonT(60) DEF Ipv6cpDone
    <3>2. CASE NegoDone(off)
      <4>1. LeaveToApply(off)  BY <3>2, <2>2, <1>20 DEF NcpTimeout
      <4>2. off.ip # 0  BY <3>2 DEF NegoDone, IpcpDone
      <4> QED  BY <4>1, <4>2, <3>1, <1>20, <2>2, PppNegotiated DEF NcpTimeout
    <3>3. CASE ~NegoDone(off)
      <4>1. /\ pppTries' = [pppTries EXCEPT !.ip = IF ipAgain THEN pppTries.ip + 1 ELSE pppTries.ip,
                                            !.v6 = IF v6Again THEN pppTries.v6 + 1 ELSE pppTries.v6]
            /\ nego' = off /\ pppLeft' = DEFAULT_TIMEOUT
            /\ UNCHANGED << ph, pppAfter, pppRetry, lcpState, pppEcho, pppMissed, hostSide >>
        BY <3>3, <2>2, <1>20 DEF NcpTimeout
      <4>2. PppTypeOK' /\ PppRecords'
        <5>1. DEFAULT_TIMEOUT \in 0 .. DEFAULT_TIMEOUT * (MAX_LCP_RETRIES + 1)
          <6>1. DEFAULT_TIMEOUT = DEFAULT_TIMEOUT * (0 + 1)  OBVIOUS
          <6> QED  BY <6>1, PppWaits
        <5>2. pppTries' \in [main : Nat, ip : 0 .. MAX_NCP_RETRIES, v6 : 0 .. MAX_NCP_RETRIES]
          <6>1. /\ (IF ipAgain THEN pppTries.ip + 1 ELSE pppTries.ip) \in 0 .. MAX_NCP_RETRIES
                /\ (IF v6Again THEN pppTries.v6 + 1 ELSE pppTries.v6) \in 0 .. MAX_NCP_RETRIES
            BY <2>2
          <6> QED  BY <6>1, <4>1, <1>h, ZenonT(60)
        <5> HIDE DEF off
        <5>3. PppRecords'  BY <4>1, <5>2, <3>1
        <5>4. nego'.ip = nego.ip  BY <4>1, <3>1
        <5>5. pppTries'.ip \in 0 .. MAX_NCP_RETRIES /\ pppTries'.v6 \in 0 .. MAX_NCP_RETRIES  BY <5>2
        <5>6. PppTypeOK'  BY <4>1, <5>1, <5>4, <5>5
        <5> QED  BY <5>3, <5>6
      <4> QED  BY <4>1, <4>2, <1>20, PppStays DEF NcpTimeout
    <3> QED  BY <3>2, <3>3
  <2> QED  BY <2>1, <2>2
<1>21. CASE Apply
  <2>1. pppHost' = [bind |-> nego.ip, mtu |-> lcpState.mru, addr |-> nego.ip, lan |-> pppHost.lan, wan |-> pppHost.wan, ll |-> pppHost.ll, tc |-> pppHost.tc]
    BY <1>21, <1>c
  <2>2. PppTypeOK' /\ PppRecords'  BY <2>1, <1>21, SMTT(60) DEF Apply, HostTo
  <2>3. Handle' /\ Addressed'  BY <1>21, SMTT(60) DEF Apply, HostTo
  <2>4. MruBound'  BY <2>1, <1>21, SMTT(60) DEF Apply, HostTo
  <2>5. Built'  BY <2>1, <1>21, SMTT(60) DEF Apply, HostTo
  <2>6. Clean'  BY <2>1, <1>21, SMTT(60) DEF Apply, HostTo
  <2> QED  BY <2>2, <2>3, <2>4, <2>5, <2>6
<1>22. CASE ApplyLan
  <2>1. pppHost' = [bind |-> pppHost.bind, mtu |-> pppHost.mtu, addr |-> pppHost.addr, lan |-> nego.ip, wan |-> pppHost.wan, ll |-> pppHost.ll, tc |-> pppHost.tc]
    BY <1>22, SMTT(60) DEF ApplyLan, HostTo
  <2>2. PppTypeOK' /\ PppRecords'  BY <2>1, <1>22, SMTT(60) DEF ApplyLan, HostTo
  <2>3. Handle' /\ Addressed'  BY <1>22, SMTT(60) DEF ApplyLan, HostTo
  <2>4. MruBound'  BY <2>1, <1>22, SMTT(60) DEF ApplyLan, HostTo
  <2>5. Built'  BY <2>1, <1>22, SMTT(60) DEF ApplyLan, HostTo
  <2>6. Clean'  BY <2>1, <1>22, SMTT(60) DEF ApplyLan, HostTo
  <2> QED  BY <2>2, <2>3, <2>4, <2>5, <2>6
<1>23. CASE ApplyWan
  <2>1. pppHost' = [bind |-> pppHost.bind, mtu |-> pppHost.mtu, addr |-> pppHost.addr, lan |-> pppHost.lan, wan |-> nego.ip, ll |-> pppHost.ll, tc |-> pppHost.tc]
    BY <1>23, SMTT(60) DEF ApplyWan, HostTo
  <2>2. PppTypeOK' /\ PppRecords'  BY <2>1, <1>23, SMTT(60) DEF ApplyWan, HostTo
  <2>3. Handle' /\ Addressed'  BY <1>23, SMTT(60) DEF ApplyWan, HostTo
  <2>4. MruBound'  BY <2>1, <1>23, SMTT(60) DEF ApplyWan, HostTo
  <2>5. Built'  BY <2>1, <1>23, SMTT(60) DEF ApplyWan, HostTo
  <2>6. Clean'  BY <2>1, <1>23, SMTT(60) DEF ApplyWan, HostTo
  <2> QED  BY <2>2, <2>3, <2>4, <2>5, <2>6
<1>24. CASE Attach
  <2>1. pppHost' = [bind |-> pppHost.bind, mtu |-> pppHost.mtu, addr |-> pppHost.addr, lan |-> pppHost.lan, wan |-> pppHost.wan, ll |-> LinkLocal, tc |-> TRUE]
    BY <1>24, <1>d
  <2>2. PppTypeOK' /\ PppRecords'  BY <2>1, <1>24, SMTT(60) DEF Attach, LinkLocal
  <2>3. Handle' /\ Addressed'  BY <1>24, SMTT(60) DEF Attach, LinkLocal
  <2>4. MruBound'  BY <2>1, <1>24, SMTT(60) DEF Attach, LinkLocal
  <2>5. Built'  BY <2>1, <1>24, SMTT(60) DEF Attach, LinkLocal
  <2>6. Clean'  BY <2>1, <1>24, SMTT(60) DEF Attach, LinkLocal
  <2> QED  BY <2>2, <2>3, <2>4, <2>5, <2>6
<1>25. CASE AttachFails
  <2>1. pppHost' = [bind |-> pppHost.bind, mtu |-> pppHost.mtu, addr |-> pppHost.addr, lan |-> pppHost.lan, wan |-> pppHost.wan, ll |-> LinkLocal, tc |-> pppHost.tc]
    BY <1>25, SMTT(60) DEF AttachFails, LinkLocal, DropLocals, DropTimers
  <2>2. PppTypeOK' /\ PppRecords'  BY <2>1, <1>25, SMTT(60) DEF AttachFails, LinkLocal, DropLocals, DropTimers
  <2>3. Handle' /\ Addressed'  BY <1>25, SMTT(60) DEF AttachFails, LinkLocal, DropLocals, DropTimers
  <2>4. MruBound'  BY <2>1, <1>25, SMTT(60) DEF AttachFails, LinkLocal, DropLocals, DropTimers
  <2>5. Built'  BY <2>1, <1>25, SMTT(60) DEF AttachFails, LinkLocal, DropLocals, DropTimers
  <2>6. Clean'  BY <2>1, <1>25, SMTT(60) DEF AttachFails, LinkLocal, DropLocals, DropTimers
  <2> QED  BY <2>2, <2>3, <2>4, <2>5, <2>6
<1>26. CASE DownIdle
  BY <1>26, PppDownIdle
<1>27. CASE Down
  <2>1. pppHost' = [bind |-> pppHost.bind, mtu |-> pppHost.mtu, addr |-> 0, lan |-> pppHost.lan, wan |-> pppHost.wan, ll |-> (IF sess.newll THEN sess.prevll ELSE pppHost.ll), tc |-> pppHost.tc]
    BY <1>27, <1>e
  <2>2. PppTypeOK' /\ PppRecords'  BY <2>1, <1>27, SMTT(60) DEF Down, HostTo
  <2>3. Handle' /\ Addressed'  BY <1>27, SMTT(60) DEF Down, HostTo
  <2>4. MruBound'  BY <2>1, <1>27, SMTT(60) DEF Down, HostTo
  <2>5. Built'  BY <2>1, <1>27, SMTT(60) DEF Down, HostTo
  <2>6. Clean'  BY <2>1, <1>27, SMTT(60) DEF Down, HostTo
  <2> QED  BY <2>2, <2>3, <2>4, <2>5, <2>6
<1>28. CASE DownWan
  <2>1. pppHost' = [bind |-> pppHost.bind, mtu |-> pppHost.mtu, addr |-> pppHost.addr, lan |-> pppHost.lan, wan |-> 0, ll |-> pppHost.ll, tc |-> pppHost.tc]
    BY <1>28, SMTT(60) DEF DownWan, HostTo
  <2>2. PppTypeOK' /\ PppRecords'  BY <2>1, <1>28, SMTT(60) DEF DownWan, HostTo
  <2>3. Handle' /\ Addressed'  BY <1>28, SMTT(60) DEF DownWan, HostTo
  <2>4. MruBound'  BY <2>1, <1>28, SMTT(60) DEF DownWan, HostTo
  <2>5. Built'  BY <2>1, <1>28, SMTT(60) DEF DownWan, HostTo
  <2>6. Clean'  BY <2>1, <1>28, SMTT(60) DEF DownWan, HostTo
  <2> QED  BY <2>2, <2>3, <2>4, <2>5, <2>6
<1>29. CASE DownLan
  <2>1. pppHost' = [bind |-> pppHost.bind, mtu |-> pppHost.mtu, addr |-> pppHost.addr, lan |-> 0, wan |-> pppHost.wan, ll |-> pppHost.ll, tc |-> pppHost.tc]
    BY <1>29, SMTT(60) DEF DownLan, HostTo
  <2>2. PppTypeOK' /\ PppRecords'  BY <2>1, <1>29, SMTT(60) DEF DownLan, HostTo
  <2>3. Handle' /\ Addressed'  BY <1>29, SMTT(60) DEF DownLan, HostTo
  <2>4. MruBound'  BY <2>1, <1>29, SMTT(60) DEF DownLan, HostTo
  <2>5. Built'  BY <2>1, <1>29, SMTT(60) DEF DownLan, HostTo
  <2>6. Clean'  BY <2>1, <1>29, SMTT(60) DEF DownLan, HostTo
  <2> QED  BY <2>2, <2>3, <2>4, <2>5, <2>6
<1>30. CASE DownEnd
  BY <1>30, <1>f, PppDownEnd
<1>31. ASSUME NEW m \in LcpMsgs, NEW mru \in Mrus, handle_lcp_packet(m, mru) PROVE PppIInv'
  <2>1. /\ lcpState' = LcpAfter(m, mru) /\ ph = "lcp" /\ UNCHANGED << pppAfter, hostSide >>
    BY <1>31 DEF handle_lcp_packet
  <2>2. lcpState' \in [acked : BOOLEAN, peer : BOOLEAN, mru : PppMrus] /\ lcpState'.mru <= requested_mru
    BY <2>1, <1>i
  <2>3. DEFAULT_TIMEOUT \in 0 .. DEFAULT_TIMEOUT * (MAX_LCP_RETRIES + 1)
    <3>1. DEFAULT_TIMEOUT = DEFAULT_TIMEOUT * (0 + 1)  OBVIOUS
    <3> QED  BY <3>1, PppWaits
  <2>4. CASE lcpState'.acked /\ lcpState'.peer
    <3>1. EnterNego  BY <2>4, <1>31 DEF handle_lcp_packet
    <3> QED  BY <3>1, <2>1, <2>2, <2>3, SMTT(60) DEF EnterNego
  <2>5. CASE ~(lcpState'.acked /\ lcpState'.peer)
    <3>1. UNCHANGED << ph, pppRetry, nego, pppTries, pppTimers >>  BY <2>5, <1>31 DEF handle_lcp_packet
    <3> QED  BY <3>1, <2>1, <2>2, PppStays
  <2> QED  BY <2>4, <2>5
<1>32. ASSUME NEW m \in NegoMsgs \cup {"echo"}, NEW ip \in PppAddrs, NegoPacket(m, ip) PROVE PppIInv'
  <2> DEFINE n == NegoAfter(m, ip)
  <2>1. ph = "nego" /\ UNCHANGED << pppRetry, lcpState, hostSide >>  BY <1>32 DEF NegoPacket
  <2>2. n \in PppNegos
    BY <1>j
  <2>3. CASE NegoDone(n)
    <3>1. LeaveToApply(n) /\ n.ip # 0  BY <2>3, <1>32 DEF NegoPacket, NegoDone, IpcpDone
    <3> HIDE DEF n
    <3> QED  BY <3>1, <2>1, <2>2, PppNegotiated
  <2>4. CASE ~NegoDone(n)
    <3>1. /\ nego' = n /\ pppLeft' = DEFAULT_TIMEOUT /\ (pppMissed' = 0 \/ pppMissed' = pppMissed)
          /\ UNCHANGED << ph, pppAfter, pppTries, pppEcho >>
      BY <2>4, <1>32 DEF NegoPacket
    <3>2. DEFAULT_TIMEOUT \in 0 .. DEFAULT_TIMEOUT * (MAX_LCP_RETRIES + 1)
      <4>1. DEFAULT_TIMEOUT = DEFAULT_TIMEOUT * (0 + 1)  OBVIOUS
      <4> QED  BY <4>1, PppWaits
    <3> HIDE DEF n
    <3>3. PppTypeOK' /\ PppRecords'  BY <3>1, <3>2, <2>1, <2>2, SMTT(60)
    <3> QED  BY <3>1, <3>3, <2>1, PppStays
  <2> QED  BY <2>3, <2>4
<1>33. CASE NegoEcho
  BY <1>33, <1>32 DEF NegoEcho
<1> HIDE PppConstants DEF PppIInv, PppTypeOK, PppRecords, PppHosts, PppNegos, PppLcps, PppTrying, PppMrus, PppPhases, Dialing,
         Applying, TakingDown, Handle, Addressed, MruBound, Built, Clean, NoTries, NoLcp, NoNego, NoHandle, CleanHost
<1>k. ASSUME NEW m \in NegoMsgs, NEW ip \in PppIps, NegoPacket(m, ip) PROVE PppIInv'
  BY <1>k, <1>32 DEF PppAddrs
<1> QED
  BY PppNext, <1>1, <1>2, <1>3, <1>4, <1>5, <1>6, <1>7, <1>8, <1>9, <1>10, <1>11, <1>12, <1>13, <1>14, <1>15, <1>16, <1>17, <1>18, <1>19, <1>20, <1>21, <1>22, <1>23, <1>24, <1>25, <1>26, <1>27, <1>28, <1>29, <1>30, <1>31, <1>k, <1>33 DEF PppNext, PeerActs, PppEffects, PppStops, PppTimeouts, NegoMsgs

\* The host shows exactly the session: all of it while the client is online,
\* nothing of it outside a session, and the link names a session only with
\* address, routes, binding and data plane under it (create_session,
\* SessionHandle::shutdown and every error path of the redial loop).
THEOREM PppHostFollowsSession == PppSpec => []PppInv
<1>1. PppInit => PppIInv
  <2> SUFFICES ASSUME PppInit PROVE PppIInv
    OBVIOUS
  <2>1. DEFAULT_TIMEOUT * (MAX_LCP_RETRIES + 1) \in Nat  BY PppConstants
  <2>2. PppTypeOK  BY <2>1, PppConstants DEF PppInit, PppTypeOK, PppPhases, NoTries, NoLcp, NoNego
  <2>3. PppRecords
    <3>1. pppTries \in PppTrying /\ nego \in PppNegos
      BY PppConstants DEF PppInit, PppTrying, PppNegos, PppAddrs, NoTries, NoNego
    <3>2. lcpState \in PppLcps  BY DEF PppInit, PppLcps, PppMrus, NoLcp
    <3>3. pppHost \in PppHosts  BY DEF PppInit, PppHosts, PppAddrs, CleanHost, FullMtu
    <3>4. sess \in [up : BOOLEAN, ip : PppAddrs, newll : BOOLEAN, prevll : {"own", "cp"}]
      BY DEF PppInit, PppAddrs, NoHandle
    <3> QED  BY <3>1, <3>2, <3>3, <3>4 DEF PppInit, PppRecords
  <2>4. Handle /\ Addressed  BY DEF PppInit, Handle, Addressed, TakingDown, Applying, NoHandle
  <2>5. MruBound  BY PppConstants DEF PppInit, MruBound, NoLcp, CleanHost
  <2>6. Built /\ Clean  BY DEF PppInit, Built, Clean, TakingDown, NoHandle
  <2> QED  BY <2>2, <2>3, <2>4, <2>5, <2>6 DEF PppIInv
<1>2. PppIInv /\ [PppNext]_pppVars => PppIInv'
  <2>1. ASSUME PppIInv, UNCHANGED pppVars PROVE PppIInv'
    BY <2>1 DEF pppVars, PppIInv, PppTypeOK, PppRecords, PppAddrs, PppMrus, Handle, Addressed, MruBound, Built, Clean
  <2> QED  BY <2>1, PppActionsPreserve
<1>3. PppIInv => PppInv
  <2> SUFFICES ASSUME PppIInv PROVE PppInv
    OBVIOUS
  <2> USE DEF PppIInv, PppTypeOK, PppRecords, PppPhases, Dialing
  <2>1. HostFollowsSession
    <3>1. ASSUME ~pppLeaked, ph \in {"online", "hangup"}
          PROVE  pppHost = SessionHost(nego.ip, lcpState.mru, IF nego.v6mine THEN "cp" ELSE "own") /\ sessUp
      <4>1. pppHost = [bind |-> pppHost.bind, mtu |-> pppHost.mtu, addr |-> pppHost.addr, lan |-> pppHost.lan, wan |-> pppHost.wan,
                       ll |-> pppHost.ll, tc |-> pppHost.tc] /\ pppHost.tc \in BOOLEAN
        BY DEF PppHosts
      <4>2. /\ pppHost.bind = nego.ip /\ pppHost.addr = nego.ip /\ pppHost.mtu = lcpState.mru
            /\ pppHost.lan = nego.ip /\ pppHost.wan = nego.ip /\ pppHost.tc
        BY <3>1 DEF Built
      <4>3. sessUp /\ pppHost.ll = IF nego.v6mine THEN "cp" ELSE "own"
        BY <3>1 DEF Handle, Clean
      <4> QED  BY <4>1, <4>2, <4>3 DEF SessionHost
    <3>2. ASSUME ~pppLeaked, ph \notin Changing, ph \notin {"online", "hangup"} PROVE pppHost = CleanHost /\ ~sessUp
      BY <3>2, SMTT(60) DEF Changing, Handle, Clean, TakingDown
    <3> QED  BY <3>1, <3>2 DEF HostFollowsSession, MruBound
  <2>2. SessionHasHost
    BY SMTT(60) DEF SessionHasHost, Handle, Built, Addressed, TakingDown, Applying
  <2> QED  BY <2>1, <2>2 DEF PppInv
<1> QED  BY <1>1, <1>2, <1>3, PTL DEF PppSpec


(***************************************************************************)
(* PdClient: the delegated prefix on the host.                             *)
(***************************************************************************)
\* While a lease is held it has a prefix; a binding in progress is a fresh one.
LeaseHeld ==
  /\ pdState \in Active => pdLease.p # 0
  /\ pdAt \in {"bind_route", "bind_map", "bind_event"} => pdState = "Bound" /\ pdAge = 0

\* How far the handler at its await has come on the host.
HandlerSoFar ==
  /\ pdAt \in {"bind_map", "bind_event"} => linkRoute.on
  /\ pdAt = "bind_event" => prefixMap = pdLease.p /\ bound6 = pdLease.p
  /\ pdAt \in {"clear_route", "clear_event"} => prefixMap = 0
  /\ pdAt = "clear_event" => wanPdAddr = 0 /\ bound6 = 0 /\ linkRoute = NoLinkRoute

\* Inside the handlers too the kernel has no address but the known one, and
\* the Release is the last thing a run does.
KnownThroughout == \A p \in PdPrefixes : kernAddr[p] > 0 => p = wanPdAddr
ReleaseIsLast == releaseSent => pdAt = "ended"

PdIInv == PdInv /\ LeaseHeld /\ HandlerSoFar /\ KnownThroughout /\ ReleaseIsLast

(***************************************************************************)
(* LanPrefixes                                                             *)
(***************************************************************************)
\* The client has written the map and its event is still to be sent.
EventDue == pdAt = "bind_event" \/ (pdAt \in {"clear_route", "clear_event"} /\ pdNext.tell)

\* A server whose cache is not what the map says is going to be rung.
Informed ==
  observer /\ lanAt \in {"setup", "idle", "remove", "add"} /\ cachedSubnets # Served =>
    lanBell \/ pdUnread > 0 \/ pdQueue > 0 \/ EventDue

\* A reader that lagged has a full broadcast to read.
LaggedReads == pdLagged => pdUnread > 0

\* What is routed at each step of the server, up to what failed starts left.
RoutedSoFar ==
  /\ lanAt \in {"off", "failed", "read", "setup"} => lanRoutes = lanLeft
  /\ lanAt = "idle" => cachedSubnets \subseteq lanRoutes /\ lanRoutes \subseteq cachedSubnets \cup lanLeft
  /\ lanAt \in {"remove", "add"} => cachedSubnets \ lanDiff.added \subseteq lanRoutes /\ lanDiff.added \subseteq cachedSubnets
  /\ lanAt = "remove" => /\ lanDiff.removed \cap cachedSubnets = {}
                         /\ lanRoutes \subseteq cachedSubnets \cup lanDiff.removed \cup lanLeft
  /\ lanAt = "add" => lanRoutes \subseteq cachedSubnets \cup lanLeft

LanIInv == LanInv /\ Informed /\ LaggedReads /\ RoutedSoFar

\* A timer armed in an active state ends with the lease at the latest.
LEMMA PdTimers ==
  ASSUME NEW s \in PdStates, NEW l, l.terms.t1 \in Nat, l.terms.t2 \in Nat, l.terms.valid \in Nat,
         NEW age \in Nat, NEW tries \in Nat
  PROVE  /\ status_timeout_duration(s, l, age, tries) \in Nat
         /\ s \in Active => status_timeout_duration(s, l, age, tries) <= active_prefix_remaining(l, age)
         /\ active_prefix_remaining(l, age) \in Nat
BY PdConstants DEF status_timeout_duration, active_prefix_remaining, ProtocolTimeout, T2, Less, PdStates, Active

\* The fields of a lease.
LEMMA PdLeaseFields ==
  ASSUME PdTypeOK
  PROVE  /\ pdLease.p \in PdPrefixes \cup {0}
         /\ pdLease.terms.t1 \in Nat /\ pdLease.terms.t2 \in Nat /\ pdLease.terms.valid \in Nat
<1>1. pdLease.p \in PdPrefixes \cup {0} /\ pdLease.terms \in Terms \cup {NoTerms}
  BY DEF PdTypeOK, PdLeases
<1>2. pdLease.terms \in [t1 : Nat, t2 : Nat, valid : Nat]
  BY <1>1, PdConstants DEF NoTerms
<1> QED  BY <1>1, <1>2

\* The parts of the type invariant.
TaskTyped == pdAt \in PdAts /\ pdNext \in PdNexts /\ pdState \in PdStates /\ pdLease \in PdLeases
CountsTyped == pdSends \in 0..REQUEST_LIMIT + 1 /\ pdAge \in Nat /\ pdTimer \in Nat /\ pdTries \in Nat /\ pdFails \in Nat
RoomsTyped == pdQueue \in 0..PdEventRoom /\ pdRuns \in 0..MaxPdRuns
FlagsTyped == pdAsked \in BOOLEAN /\ pdStop \in BOOLEAN /\ releaseSent \in BOOLEAN
HostTyped ==
  /\ wanPdAddr \in PdPrefixes \cup {0} /\ bound6 \in PdPrefixes \cup {0} /\ prefixMap \in PdPrefixes \cup {0}
  /\ kernAddr \in [PdPrefixes -> Nat] /\ srcRoute \in [PdPrefixes -> Nat] /\ linkRoute \in LinkRoutes

LEMMA PdTypeParts == PdTypeOK <=> TaskTyped /\ CountsTyped /\ RoomsTyped /\ FlagsTyped /\ HostTyped
BY DEF PdTypeOK, TaskTyped, CountsTyped, RoomsTyped, FlagsTyped, HostTyped

LEMMA PdTypedNext ==
  ASSUME TaskTyped', CountsTyped', RoomsTyped', FlagsTyped', HostTyped' PROVE PdTypeOK'
BY DEF PdTypeOK, TaskTyped, CountsTyped, RoomsTyped, FlagsTyped, HostTyped

LEMMA PdHostTyped == ASSUME HostTyped, UNCHANGED pdHost PROVE HostTyped'
BY DEF HostTyped, pdHost

\* The parts of PdIInv beside the types.
PdHostInv ==
  PrefixNotOutlived /\ MapIsUsable /\ AddressesKnown /\ ReleaseAfterUse /\ LeaseHeld /\ HandlerSoFar /\ KnownThroughout /\ ReleaseIsLast

\* A step that waits on without a prefix: nothing on the host changes.
LEMMA PdSearches ==
  ASSUME PdIInv, pdAt \in {"select", "off", "ended"}, prefixMap = 0, pdAt' = "select", UNCHANGED pdHost,
         releaseSent' = FALSE, pdState' \notin Active
  PROVE  PdHostInv'
BY DEF PdHostInv, PdIInv, PdInv, PrefixNotOutlived, MapIsUsable, AddressesKnown, ReleaseAfterUse, LeaseHeld, HandlerSoFar,
       KnownThroughout, ReleaseIsLast, pdHost

\* A lease in use is kept: the client goes on to the next state, its timer
\* armed within the lifetime left.
LEMMA PdKeeps ==
  ASSUME PdIInv, pdAt = "select", pdAt' = "select", UNCHANGED << pdHost, pdLease, pdAge, releaseSent >>,
         pdState \in Active, pdState' \in Active, pdTimer' <= active_prefix_remaining(pdLease, pdAge)
  PROVE  PdHostInv'
<1>1. active_prefix_remaining(pdLease, pdAge)' = active_prefix_remaining(pdLease, pdAge)
  BY DEF active_prefix_remaining
<1> QED
  BY <1>1 DEF PdHostInv, PdIInv, PdInv, PrefixNotOutlived, MapIsUsable, AddressesKnown, ReleaseAfterUse, LeaseHeld, HandlerSoFar,
       KnownThroughout, ReleaseIsLast, pdHost

LEMMA PdBackoff ==
  ASSUME NEW n \in Nat PROVE Backoff(n) \in Nat
BY PdConstants DEF Backoff, Less

\* A handler ends, or none begins: the timer is armed and the client waits on.
LEMMA PdArms ==
  ASSUME PdIInv, pdAt \in {"select", "bind_event", "clear_event"}, pdAt' = "select",
         UNCHANGED << pdTask, pdHost, releaseSent >>,
         pdState \in Active => pdTimer' <= active_prefix_remaining(pdLease, pdAge)
  PROVE  PdHostInv'
<1>0. UNCHANGED << pdState, pdLease, pdAge, wanPdAddr, kernAddr, srcRoute, linkRoute, bound6, prefixMap, releaseSent >>
  BY DEF pdTask, pdHost
<1>1. active_prefix_remaining(pdLease, pdAge)' = active_prefix_remaining(pdLease, pdAge)
  BY <1>0 DEF active_prefix_remaining
<1>2. PrefixNotOutlived'
  <2>1. CASE pdAt = "select"
    BY <2>1, <1>0, <1>1 DEF PdIInv, PdInv, PrefixNotOutlived
  <2>2. CASE pdAt = "bind_event"
    <3>1. pdState = "Bound" /\ pdAge = 0 /\ pdLease.p = prefixMap
      BY <2>2 DEF PdIInv, LeaseHeld, HandlerSoFar
    <3>2. pdAge <= pdLease.terms.valid
      BY <3>1, PdLeaseFields DEF PdIInv, PdInv
    <3> QED  BY <3>1, <3>2, <1>0, <1>1 DEF PrefixNotOutlived, Active
  <2>3. CASE pdAt = "clear_event"
    <3>1. prefixMap = 0  BY <2>3 DEF PdIInv, HandlerSoFar
    <3> QED  BY <3>1, <1>0 DEF PrefixNotOutlived
  <2> QED  BY <2>1, <2>2, <2>3
<1>3. MapIsUsable'
  <2>1. CASE pdAt \in {"select", "bind_event"}
    BY <2>1, <1>0 DEF PdIInv, PdInv, MapIsUsable
  <2>2. CASE pdAt = "clear_event"
    <3>1. prefixMap = 0  BY <2>2 DEF PdIInv, HandlerSoFar
    <3> QED  BY <3>1, <1>0 DEF MapIsUsable
  <2> QED  BY <2>1, <2>2
<1>4. AddressesKnown' /\ KnownThroughout'
  BY <1>0 DEF PdIInv, AddressesKnown, KnownThroughout
<1>5. ReleaseAfterUse' /\ ReleaseIsLast'
  BY <1>0 DEF PdIInv, PdInv, ReleaseAfterUse, ReleaseIsLast
<1>6. LeaseHeld' /\ HandlerSoFar'
  BY <1>0 DEF PdIInv, LeaseHeld, HandlerSoFar
<1> QED  BY <1>2, <1>3, <1>4, <1>5, <1>6 DEF PdHostInv

LEMMA PdStepsPreserve ==
  ASSUME PdIInv, PdSteps \/ (HubTakes /\ UNCHANGED << pdAt, pdNext, pdTask, pdTimers, pdAsked, pdStop, pdHost, releaseSent, pdRuns >>)
  PROVE PdIInv'
<1>a. /\ pdLease.p \in PdPrefixes \cup {0}
      /\ pdLease.terms.t1 \in Nat /\ pdLease.terms.t2 \in Nat /\ pdLease.terms.valid \in Nat
  BY PdLeaseFields DEF PdIInv, PdInv
<1>b. 0 \notin PdPrefixes /\ PdPrefixes \subseteq Nat /\ NoTerms \in [t1 : Nat, t2 : Nat, valid : Nat]
  BY PdConstants DEF NoTerms
<1>c. ASSUME NEW s \in PdStates, NEW tries \in Nat
      PROVE  /\ status_timeout_duration(s, pdLease, pdAge, tries) \in Nat
             /\ s \in Active => status_timeout_duration(s, pdLease, pdAge, tries) <= active_prefix_remaining(pdLease, pdAge)
             /\ active_prefix_remaining(pdLease, pdAge) \in Nat
  BY <1>a, PdTimers DEF PdIInv, PdInv, PdTypeOK
<1>d. PdTypeOK /\ (pdState \notin Active /\ pdAt = "select" => prefixMap = 0) /\ (pdAt = "select" => releaseSent = FALSE)
  BY DEF PdIInv, PdInv, PdTypeOK, PdNexts, PdLeases, LinkRoutes, PrefixNotOutlived, ReleaseIsLast
<1>t. TaskTyped /\ CountsTyped /\ RoomsTyped /\ FlagsTyped /\ HostTyped
  BY <1>d, PdTypeParts
<1>e. SUFFICES PdTypeOK' /\ PdHostInv'
  BY DEF PdIInv, PdInv, PdHostInv
<1>f. NoLease \in PdLeases
  BY DEF NoLease, PdLeases
<1>1. CASE SolicitGivesUp
  <2>1. PdTypeOK'  BY <1>1, <1>d, PdBackoff DEF PdTypeOK, SolicitGivesUp, pdTask, pdHost
  <2>2. PdHostInv'  BY <1>1, <1>d, PdSearches DEF SolicitGivesUp, TimerDue, Active, pdTask
  <2> QED  BY <2>1, <2>2
<1>2. CASE SendExpired
  <2>1. PdTypeOK'  BY <1>2, <1>d, <1>f DEF PdNexts, PdTypeOK, SendExpired, BeginClear, pdTimers, PdStates, PdAts
  <2>2. /\ pdAt = "select" /\ pdAt' = "clear_route" /\ prefixMap' = 0 /\ pdState' = "Solicit"
        /\ UNCHANGED << wanPdAddr, kernAddr, linkRoute, bound6, releaseSent >>
    BY <1>2 DEF SendExpired, Sending, TimerDue, BeginClear
  <2>3. PdHostInv'
    BY <2>2, <1>d DEF PdHostInv, PdIInv, PdInv, PrefixNotOutlived, MapIsUsable, AddressesKnown, ReleaseAfterUse, LeaseHeld, HandlerSoFar,
       KnownThroughout, ReleaseIsLast, Active
  <2> QED  BY <2>1, <2>3
<1>3. CASE SendSolicit
  <2>1. PdTypeOK'
    <3>1. TaskTyped'
      BY <1>3, <1>t DEF TaskTyped, SendSolicit, Arm, pdTask, PdStates, PdAts
    <3>2. CountsTyped'
      BY <1>3, <1>t, PdConstants, <1>c DEF CountsTyped, PdStates, SendSolicit, Arm, pdTask
    <3>3. RoomsTyped'
      BY <1>3, <1>t, PdConstants DEF RoomsTyped, SendSolicit, Arm, pdTask
    <3>4. FlagsTyped'
      BY <1>3, <1>t DEF FlagsTyped, SendSolicit, Arm, pdTask
    <3>5. HostTyped'
      BY <1>3, <1>t, PdHostTyped DEF SendSolicit, Arm, pdTask
    <3> QED  BY <3>1, <3>2, <3>3, <3>4, <3>5, PdTypedNext
  <2>2. PdHostInv'  BY <1>3, <1>d, PdSearches DEF SendSolicit, Sending, TimerDue, Active, pdTask
  <2> QED  BY <2>1, <2>2
<1>4. CASE SendRequest
  <2>1. CASE pdSends > REQUEST_LIMIT
    <3>1. status_timeout_duration("Solicit", NoLease, 0, 0) \in Nat
      BY DEF status_timeout_duration, ProtocolTimeout, Active
    <3>2. PdTypeOK'
      <4>1. TaskTyped'
        BY <1>4, <2>1, <1>f, <1>t DEF TaskTyped, SendRequest, Arm, PdStates, PdAts
      <4>2. CountsTyped'
        BY <1>4, <2>1, <1>f, <1>t, PdConstants, <3>1 DEF CountsTyped, SendRequest, Arm
      <4>3. RoomsTyped'
        BY <1>4, <2>1, <1>f, <1>t, PdConstants DEF RoomsTyped, SendRequest, Arm
      <4>4. FlagsTyped'
        BY <1>4, <2>1, <1>f, <1>t DEF FlagsTyped, SendRequest, Arm
      <4>5. HostTyped'
        BY <1>4, <2>1, <1>f, <1>t, PdHostTyped DEF SendRequest, Arm
      <4> QED  BY <4>1, <4>2, <4>3, <4>4, <4>5, PdTypedNext
    <3>3. pdAt = "select" /\ pdAt' = "select" /\ pdState' = "Solicit" /\ pdState = "Request" /\ UNCHANGED << pdHost, releaseSent >>
      BY <1>4, <2>1 DEF SendRequest, Sending, TimerDue
    <3> QED  BY <3>2, <3>3, <1>d, PdSearches DEF Active
  <2>2. CASE ~(pdSends > REQUEST_LIMIT)
    <3>1. PdTypeOK'
      <4>1. TaskTyped'
        BY <1>4, <2>2, <1>t DEF TaskTyped, SendRequest, Arm, PdStates, PdAts
      <4>2. CountsTyped'
        BY <1>4, <2>2, <1>t, PdConstants, <1>c DEF CountsTyped, PdStates, SendRequest, Arm
      <4>3. RoomsTyped'
        BY <1>4, <2>2, <1>t, PdConstants DEF RoomsTyped, SendRequest, Arm
      <4>4. FlagsTyped'
        BY <1>4, <2>2, <1>t DEF FlagsTyped, SendRequest, Arm
      <4>5. HostTyped'
        BY <1>4, <2>2, <1>t, PdHostTyped DEF SendRequest, Arm
      <4> QED  BY <4>1, <4>2, <4>3, <4>4, <4>5, PdTypedNext
    <3>2. pdAt = "select" /\ pdAt' = "select" /\ pdState' = "Request" /\ pdState = "Request" /\ UNCHANGED << pdHost, releaseSent >>
      BY <1>4, <2>2 DEF SendRequest, Sending, TimerDue
    <3> QED  BY <3>1, <3>2, <1>d, PdSearches DEF Active
  <2> QED  BY <2>1, <2>2
<1>5. CASE BoundTurns
  <2>0. pdTimer' \in Nat /\ pdTimer' <= active_prefix_remaining(pdLease, pdAge) /\ pdTries' \in Nat
    BY <1>5, <1>c, <1>t DEF BoundTurns, Arm, CountsTyped, PdStates, Active
  <2>1. PdTypeOK'
    <3>1. TaskTyped'
      BY <1>5, <1>t DEF TaskTyped, BoundTurns, pdTask, PdStates, PdAts
    <3>2. CountsTyped'
      BY <1>5, <1>t, PdConstants, <2>0 DEF CountsTyped, BoundTurns, pdTask
    <3>3. RoomsTyped'
      BY <1>5, <1>t, PdConstants DEF RoomsTyped, BoundTurns, pdTask
    <3>4. FlagsTyped'
      BY <1>5, <1>t DEF FlagsTyped, BoundTurns, pdTask
    <3>5. HostTyped'
      BY <1>5, <1>t, PdHostTyped DEF BoundTurns, pdTask
    <3> QED  BY <3>1, <3>2, <3>3, <3>4, <3>5, PdTypedNext
  <2>2. PdHostInv'  BY <1>5, <2>0, PdKeeps DEF BoundTurns, Sending, TimerDue, Active, pdTask
  <2> QED  BY <2>1, <2>2
<1>6. CASE SendRenew
  <2>0. pdTimer' \in Nat /\ pdTimer' <= active_prefix_remaining(pdLease, pdAge) /\ pdTries' \in Nat
    <3>1. pdTries \in Nat /\ {"Renew", "WaitToRebind"} \subseteq Active /\ Active \subseteq PdStates
      BY <1>t DEF CountsTyped, Active, PdStates
    <3>2. \/ pdTimer' = status_timeout_duration("WaitToRebind", pdLease, pdAge, 0) /\ pdTries' = 0 + 1
          \/ pdTimer' = status_timeout_duration("Renew", pdLease, pdAge, pdTries) /\ pdTries' = pdTries + 1
      BY <1>6 DEF SendRenew, Arm
    <3> QED  BY <3>1, <3>2, <1>c
  <2>1. PdTypeOK'
    <3>1. TaskTyped'
      BY <1>6, <1>t DEF TaskTyped, SendRenew, pdTask, PdStates, PdAts
    <3>2. CountsTyped'
      BY <1>6, <1>t, PdConstants, <2>0 DEF CountsTyped, SendRenew, pdTask
    <3>3. RoomsTyped'
      BY <1>6, <1>t, PdConstants DEF RoomsTyped, SendRenew, pdTask
    <3>4. FlagsTyped'
      BY <1>6, <1>t DEF FlagsTyped, SendRenew, pdTask
    <3>5. HostTyped'
      BY <1>6, <1>t, PdHostTyped DEF SendRenew, pdTask
    <3> QED  BY <3>1, <3>2, <3>3, <3>4, <3>5, PdTypedNext
  <2>2. PdHostInv'  BY <1>6, <2>0, PdKeeps DEF SendRenew, Sending, TimerDue, Active, pdTask
  <2> QED  BY <2>1, <2>2
<1>7. CASE WaitTurns
  <2>0. pdTimer' \in Nat /\ pdTimer' <= active_prefix_remaining(pdLease, pdAge) /\ pdTries' \in Nat
    BY <1>7, <1>c, <1>t DEF WaitTurns, Arm, CountsTyped, PdStates, Active
  <2>1. PdTypeOK'
    <3>1. TaskTyped'
      BY <1>7, <1>t DEF TaskTyped, WaitTurns, pdTask, PdStates, PdAts
    <3>2. CountsTyped'
      BY <1>7, <1>t, PdConstants, <2>0 DEF CountsTyped, WaitTurns, pdTask
    <3>3. RoomsTyped'
      BY <1>7, <1>t, PdConstants DEF RoomsTyped, WaitTurns, pdTask
    <3>4. FlagsTyped'
      BY <1>7, <1>t DEF FlagsTyped, WaitTurns, pdTask
    <3>5. HostTyped'
      BY <1>7, <1>t, PdHostTyped DEF WaitTurns, pdTask
    <3> QED  BY <3>1, <3>2, <3>3, <3>4, <3>5, PdTypedNext
  <2>2. PdHostInv'  BY <1>7, <2>0, PdKeeps DEF WaitTurns, Sending, TimerDue, Active, pdTask
  <2> QED  BY <2>1, <2>2
<1>8. CASE SendRebind
  <2>0. pdTimer' \in Nat /\ pdTimer' <= active_prefix_remaining(pdLease, pdAge) /\ pdTries' \in Nat
    BY <1>8, <1>c, <1>t DEF SendRebind, Arm, CountsTyped, PdStates, Active
  <2>1. PdTypeOK'
    <3>1. TaskTyped'
      BY <1>8, <1>t DEF TaskTyped, SendRebind, pdTask, PdStates, PdAts
    <3>2. CountsTyped'
      BY <1>8, <1>t, PdConstants, <2>0 DEF CountsTyped, SendRebind, pdTask
    <3>3. RoomsTyped'
      BY <1>8, <1>t, PdConstants DEF RoomsTyped, SendRebind, pdTask
    <3>4. FlagsTyped'
      BY <1>8, <1>t DEF FlagsTyped, SendRebind, pdTask
    <3>5. HostTyped'
      BY <1>8, <1>t, PdHostTyped DEF SendRebind, pdTask
    <3> QED  BY <3>1, <3>2, <3>3, <3>4, <3>5, PdTypedNext
  <2>2. PdHostInv'  BY <1>8, <2>0, PdKeeps DEF SendRebind, Sending, TimerDue, Active, pdTask
  <2> QED  BY <2>1, <2>2
<1>9. CASE Advertised
  <2>1. status_timeout_duration("Request", NoLease, 0, 0) \in Nat
    BY DEF status_timeout_duration, ProtocolTimeout, Active
  <2>4. pdLease' \in PdLeases  BY <1>9 DEF Advertised, PdLeases
  <2>2. PdTypeOK'
    <3>1. TaskTyped'
      BY <1>9, <2>4, <1>t DEF TaskTyped, Advertised, Arm, PdStates, PdAts
    <3>2. CountsTyped'
      BY <1>9, <2>4, <1>t, PdConstants, <2>1 DEF CountsTyped, Advertised, Arm
    <3>3. RoomsTyped'
      BY <1>9, <2>4, <1>t, PdConstants DEF RoomsTyped, Advertised, Arm
    <3>4. FlagsTyped'
      BY <1>9, <2>4, <1>t DEF FlagsTyped, Advertised, Arm
    <3>5. HostTyped'
      BY <1>9, <2>4, <1>t, PdHostTyped DEF Advertised, Arm
    <3> QED  BY <3>1, <3>2, <3>3, <3>4, <3>5, PdTypedNext
  <2>3. PdHostInv'  BY <1>9, <1>d, PdSearches DEF Advertised, Active
  <2> QED  BY <2>2, <2>3
<1>10. CASE Replied
  <2>1. PICK p \in PdPrefixes, t \in Terms : pdLease' = [p |-> p, terms |-> t] /\ Readdress(p, t.valid)
    BY <1>10 DEF Replied
  <2>2. /\ pdAt = "select" /\ pdAt' = "bind_route" /\ pdState' = "Bound" /\ pdAge' = 0 /\ pdSends' = 0 /\ pdAsked' = FALSE
        /\ UNCHANGED << pdNext, pdTimer, pdTries, pdFails, pdStop, srcRoute, linkRoute, bound6, prefixMap, pdQueue, releaseSent, pdRuns >>
    BY <1>10 DEF Replied, pdTimers
  <2>3. t.valid \in Nat /\ p # 0 /\ pdLease'.p = p  BY <2>1, <1>b, PdConstants
  <2>4. /\ wanPdAddr' \in PdPrefixes \cup {0} /\ kernAddr' \in [PdPrefixes -> Nat]
        /\ \A q \in PdPrefixes : kernAddr'[q] > 0 => q = wanPdAddr'
    <3>1. kernAddr \in [PdPrefixes -> Nat] /\ wanPdAddr \in PdPrefixes \cup {0} /\ KnownThroughout
      BY DEF PdIInv, PdInv, PdTypeOK
    <3>2. CASE Derived(p) = 0  BY <3>1, <3>2, <2>1 DEF Readdress, KnownThroughout
    <3>3. CASE Derived(p) # 0
      <4>1. /\ wanPdAddr' = p
            /\ kernAddr' = [q \in PdPrefixes |-> IF q = p THEN t.valid ELSE IF q = wanPdAddr THEN 0 ELSE kernAddr[q]]
        BY <3>3, <2>1 DEF Readdress
      <4> QED  BY <4>1, <3>1, <2>3 DEF KnownThroughout
    <3> QED  BY <3>2, <3>3
  <2>5. PdTypeOK'
    <3>1. pdLease' \in PdLeases  BY <2>1 DEF PdLeases
    <3>2. TaskTyped'  BY <3>1, <2>2, <1>t DEF TaskTyped, PdStates, PdAts
    <3>3. CountsTyped'  BY <2>2, <1>t, PdConstants DEF CountsTyped
    <3>4. RoomsTyped' /\ FlagsTyped'  BY <2>2, <1>t DEF RoomsTyped, FlagsTyped
    <3>5. HostTyped'  BY <2>2, <2>4, <1>t DEF HostTyped
    <3> QED  BY <3>2, <3>3, <3>4, <3>5, PdTypedNext
  <2>6. PdHostInv'
    BY <2>2, <2>3, <2>4, <1>d DEF PdHostInv, PdIInv, PdInv, PrefixNotOutlived, MapIsUsable, AddressesKnown, ReleaseAfterUse, LeaseHeld,
       HandlerSoFar, KnownThroughout, ReleaseIsLast
  <2> QED  BY <2>5, <2>6
<1>19. CASE ClearThenEnd
  <2>1. PdTypeOK'
    <3>1. TaskTyped'
      BY <1>19, <1>f, <1>t DEF TaskTyped, ClearThenEnd, TellExpired, PdStates, PdAts, Onward, PdNexts
    <3>2. CountsTyped'
      BY <1>19, <1>f, <1>t, PdConstants DEF CountsTyped, ClearThenEnd, TellExpired
    <3>3. RoomsTyped'
      BY <1>19, <1>f, <1>t, PdConstants DEF RoomsTyped, ClearThenEnd, TellExpired
    <3>4. FlagsTyped'
      BY <1>19, <1>f, <1>t DEF FlagsTyped, ClearThenEnd, TellExpired
    <3>5. HostTyped'
      BY <1>19, <1>f, <1>t, PdHostTyped DEF ClearThenEnd, TellExpired
    <3> QED  BY <3>1, <3>2, <3>3, <3>4, <3>5, PdTypedNext
  <2>2. pdAt = "clear_event" /\ pdAt' = "ended" /\ pdState' = "Stop" /\ UNCHANGED pdHost
    BY <1>19 DEF ClearThenEnd
  <2>3. /\ prefixMap = 0 /\ wanPdAddr = 0 /\ bound6 = 0 /\ linkRoute = NoLinkRoute
        /\ \A p \in PdPrefixes : kernAddr[p] = 0
    BY <2>2, <1>b, <1>d DEF PdIInv, HandlerSoFar, KnownThroughout, PdTypeOK
  <2>4. PdHostInv'
    BY <2>2, <2>3 DEF PdHostInv, PrefixNotOutlived, MapIsUsable, AddressesKnown, ReleaseAfterUse, LeaseHeld, HandlerSoFar,
       KnownThroughout, ReleaseIsLast, Active, pdHost
  <2> QED  BY <2>1, <2>4
<1>20. CASE PdStarts
  <2>1. PdTypeOK'
    <3>1. TaskTyped'
      BY <1>20, <1>t DEF TaskTyped, PdStarts, PdStates, PdAts
    <3>2. CountsTyped'
      BY <1>20, <1>t, PdConstants DEF CountsTyped, PdStarts
    <3>3. RoomsTyped'
      BY <1>20, <1>t, PdConstants DEF RoomsTyped, PdStarts
    <3>4. FlagsTyped'
      BY <1>20, <1>t DEF FlagsTyped, PdStarts
    <3>5. HostTyped'
      BY <1>20, <1>t, PdHostTyped DEF PdStarts
    <3> QED  BY <3>1, <3>2, <3>3, <3>4, <3>5, PdTypedNext
  <2>2. prefixMap = 0  BY <1>20 DEF PdStarts, PdIInv, PdInv, AddressesKnown
  <2>3. PdHostInv'  BY <1>20, <2>2, PdSearches DEF PdStarts, Active
  <2> QED  BY <2>1, <2>3
<1>21. CASE PdStartFails
  <2>1. PdTypeOK'
    <3>1. TaskTyped'
      BY <1>21, <1>t DEF TaskTyped, PdStartFails, pdTask, pdTimers, PdStates, PdAts
    <3>2. CountsTyped'
      BY <1>21, <1>t, PdConstants DEF CountsTyped, PdStartFails, pdTask, pdTimers
    <3>3. RoomsTyped'
      BY <1>21, <1>t, PdConstants DEF RoomsTyped, PdStartFails, pdTask, pdTimers
    <3>4. FlagsTyped'
      BY <1>21, <1>t DEF FlagsTyped, PdStartFails, pdTask, pdTimers
    <3>5. HostTyped'
      BY <1>21, <1>t, PdHostTyped DEF PdStartFails, pdTask, pdTimers
    <3> QED  BY <3>1, <3>2, <3>3, <3>4, <3>5, PdTypedNext
  <2>2. PdHostInv'
    BY <1>21 DEF PdStartFails, PdHostInv, PdIInv, PdInv, PrefixNotOutlived, MapIsUsable, AddressesKnown, ReleaseAfterUse, LeaseHeld,
       HandlerSoFar, KnownThroughout, ReleaseIsLast, pdTask, pdHost
  <2> QED  BY <2>1, <2>2
<1>13. CASE BindEvent
  <2>1. pdTimer' = status_timeout_duration("Bound", pdLease, pdAge, 0) /\ pdTries' = 1
    BY <1>13 DEF BindEvent, Arm
  <2>2. "Bound" \in PdStates
    BY <1>t DEF TaskTyped, PdStates
  <2>3. pdTimer' \in Nat /\ ("Bound" \in Active => pdTimer' <= active_prefix_remaining(pdLease, pdAge))
    BY <2>1, <2>2, <1>c
  <2>4. PdTypeOK'
    <3>1. TaskTyped'
      BY <1>13, <1>t DEF TaskTyped, BindEvent, pdTask, PdAts
    <3>2. CountsTyped'
      BY <1>13, <1>t, <2>1, <2>3 DEF CountsTyped, BindEvent, pdTask
    <3>3. RoomsTyped' /\ FlagsTyped'
      BY <1>13, <1>t, PdConstants DEF RoomsTyped, FlagsTyped, BindEvent
    <3>4. HostTyped'
      BY <1>13, <1>t, PdHostTyped DEF BindEvent
    <3> QED  BY <3>1, <3>2, <3>3, <3>4, PdTypedNext
  <2>5. pdState = "Bound"
    BY <1>13 DEF BindEvent, PdIInv, LeaseHeld
  <2>6. PdHostInv'
    BY <1>13, <2>3, <2>5, PdArms DEF BindEvent
  <2> QED  BY <2>4, <2>6
<1>14. CASE Undecodable
  <2>1. pdTimer' = status_timeout_duration(pdState, pdLease, pdAge, 0) /\ pdTries' = 1
    BY <1>14 DEF Undecodable, Arm
  <2>2. pdState \in PdStates
    BY <1>t DEF TaskTyped, PdStates
  <2>3. pdTimer' \in Nat /\ (pdState \in Active => pdTimer' <= active_prefix_remaining(pdLease, pdAge))
    BY <2>1, <2>2, <1>c
  <2>4. PdTypeOK'
    <3>1. TaskTyped'
      BY <1>14, <1>t DEF TaskTyped, Undecodable, pdTask, PdAts
    <3>2. CountsTyped'
      BY <1>14, <1>t, <2>1, <2>3 DEF CountsTyped, Undecodable, pdTask
    <3>3. RoomsTyped' /\ FlagsTyped'
      BY <1>14, <1>t, PdConstants DEF RoomsTyped, FlagsTyped, Undecodable
    <3>4. HostTyped'
      BY <1>14, <1>t, PdHostTyped DEF Undecodable
    <3> QED  BY <3>1, <3>2, <3>3, <3>4, PdTypedNext
  <2>5. PdHostInv'
    BY <1>14, <2>3, PdArms DEF Undecodable
  <2> QED  BY <2>4, <2>5
<1>18. CASE ClearThenWait
  <2>1. pdTimer' = status_timeout_duration(pdState, pdLease, pdAge, 0) /\ pdTries' = 1
    BY <1>18 DEF ClearThenWait, Arm
  <2>2. pdState \in PdStates
    BY <1>t DEF TaskTyped, PdStates
  <2>3. pdTimer' \in Nat /\ (pdState \in Active => pdTimer' <= active_prefix_remaining(pdLease, pdAge))
    BY <2>1, <2>2, <1>c
  <2>4. PdTypeOK'
    <3>1. TaskTyped'
      BY <1>18, <1>t DEF TaskTyped, ClearThenWait, pdTask, PdAts, Onward, PdNexts
    <3>2. CountsTyped'
      BY <1>18, <1>t, <2>1, <2>3 DEF CountsTyped, ClearThenWait, pdTask
    <3>3. RoomsTyped' /\ FlagsTyped'
      BY <1>18, <1>t, PdConstants DEF RoomsTyped, FlagsTyped, ClearThenWait, TellExpired
    <3>4. HostTyped'
      BY <1>18, <1>t, PdHostTyped DEF ClearThenWait
    <3> QED  BY <3>1, <3>2, <3>3, <3>4, PdTypedNext
  <2>5. PdHostInv'
    BY <1>18, <2>3, PdArms DEF ClearThenWait
  <2> QED  BY <2>4, <2>5
<1> USE <1>a, <1>b, PdConstants DEF PdIInv, PdInv, PdHostInv, PdTypeOK, PdNexts, PdLeases, LinkRoutes, PrefixNotOutlived, MapIsUsable, AddressesKnown, ReleaseAfterUse,
      LeaseHeld, HandlerSoFar, KnownThroughout, ReleaseIsLast, pdTask, pdTimers, pdHost, PdAts, PdStates, Active,
      NoLinkRoute, Onward
<1>11. CASE BindRoute  BY <1>11, SMTT(60) DEF BindRoute, Derived
<1>12. CASE BindMap  BY <1>12, SMTT(60) DEF BindMap
<1>15. CASE StopBegins  BY <1>15, SMTT(60) DEF StopBegins, BeginClear
<1>16. CASE ReceiverLost  BY <1>16, SMTT(60) DEF ReceiverLost, BeginClear
<1>17. CASE ClearRoute  BY <1>17, SMTT(60) DEF ClearRoute
<1>22. CASE PdStopRequested  BY <1>22, SMTT(60) DEF PdStopRequested
<1>23. CASE PdTick  BY <1>23, SMTT(60) DEF PdTick, Sub1, active_prefix_remaining
<1>24. CASE HubTakes /\ UNCHANGED << pdAt, pdNext, pdTask, pdTimers, pdAsked, pdStop, pdHost, releaseSent, pdRuns >>
  BY <1>24, SMTT(60) DEF HubTakes
<1> HIDE <1>a, <1>b, PdConstants DEF PdIInv, PdInv, PdHostInv, PdTypeOK, PdNexts, PdLeases, LinkRoutes, PrefixNotOutlived, MapIsUsable, AddressesKnown, ReleaseAfterUse,
      LeaseHeld, HandlerSoFar, KnownThroughout, ReleaseIsLast, pdTask, pdTimers, pdHost, PdAts, PdStates, Active,
      NoLinkRoute, Onward
<1> QED
  BY <1>1, <1>2, <1>3, <1>4, <1>5, <1>6, <1>7, <1>8, <1>9, <1>10, <1>11, <1>12, <1>13, <1>14, <1>15, <1>16, <1>17, <1>18,
     <1>19, <1>20, <1>21, <1>22, <1>23, <1>24 DEF PdSteps, PdHandlers, SendTurn

\* No step of the client changes the map without an event to come, and none
\* takes an event back.
LEMMA PdTells ==
  ASSUME PdIInv, PdSteps
  PROVE  /\ prefixMap' = prefixMap \/ EventDue'
         /\ EventDue => EventDue' \/ pdQueue' > 0
         /\ pdQueue' >= pdQueue
<1>a. pdQueue \in Nat  BY PdConstants DEF PdIInv, PdInv, PdTypeOK
<1>b. pdNext \in PdNexts  BY DEF PdIInv, PdInv, PdTypeOK
<1>1. CASE UNCHANGED << pdQueue, prefixMap >> /\ pdAt \in {"select", "off", "ended", "bind_route"}
  BY <1>1, <1>a DEF EventDue
<1>2. CASE SendExpired \/ StopBegins \/ ReceiverLost
  <2>1. pdAt = "select" /\ pdAt' = "clear_route" /\ (prefixMap # 0 => pdNext'.tell) /\ prefixMap' = 0 /\ pdQueue' = pdQueue
    <3>1. PICK then : BeginClear(then)  BY <1>2 DEF SendExpired, StopBegins, ReceiverLost
    <3>2. prefixMap # 0 => pdNext'.tell  BY <3>1 DEF BeginClear
    <3> QED  BY <1>2, <3>1, <3>2 DEF SendExpired, StopBegins, ReceiverLost, Sending, TimerDue, BeginClear
  <2> QED  BY <2>1, <1>a DEF EventDue
<1>3. CASE BindMap  BY <1>3, <1>a DEF BindMap, EventDue
<1>4. CASE BindEvent  BY <1>4, <1>a DEF BindEvent, EventDue, pdHost
<1>5. CASE ClearRoute  BY <1>5, <1>a DEF ClearRoute, EventDue
<1>6. CASE ClearThenWait \/ ClearThenEnd
  <2>1. pdAt = "clear_event" /\ TellExpired(pdNext.tell) /\ prefixMap' = prefixMap
    BY <1>6 DEF ClearThenWait, ClearThenEnd, pdHost
  <2>2. pdNext.tell \in BOOLEAN  BY <1>b DEF PdNexts
  <2>3. CASE pdNext.tell  BY <2>1, <2>3, <1>a DEF EventDue, TellExpired
  <2>4. CASE ~pdNext.tell  BY <2>1, <2>4, <1>a DEF EventDue, TellExpired
  <2> QED  BY <2>2, <2>3, <2>4
<1>7. CASE PdStopRequested  BY <1>7, <1>a DEF PdStopRequested, EventDue, pdHost
<1>8. CASE SolicitGivesUp \/ SendSolicit \/ SendRequest \/ BoundTurns \/ SendRenew \/ WaitTurns \/ SendRebind
  BY <1>8, <1>1 DEF SolicitGivesUp, SendSolicit, SendRequest, BoundTurns, SendRenew, WaitTurns, SendRebind, Sending, TimerDue, pdHost
<1>9. CASE Advertised \/ Undecodable \/ PdTick \/ PdStarts \/ PdStartFails
  BY <1>9, <1>1 DEF Advertised, Undecodable, PdTick, PdStarts, PdStartFails, pdHost
<1>10. CASE Replied \/ BindRoute
  BY <1>10, <1>1 DEF Replied, BindRoute, pdHost
<1> QED
  BY <1>2, <1>3, <1>4, <1>5, <1>6, <1>7, <1>8, <1>9, <1>10 DEF PdSteps, PdHandlers, SendTurn

\* What the map offers to the LAN, under a prefix that does not change.
LEMMA ServedTyped ==
  ASSUME PdIInv PROVE Served \subseteq PdPrefixes
BY DEF PdIInv, PdInv, PdTypeOK, Served

\* The server and its channels: every step preserves LanIInv.
LEMMA LanStepsPreserve ==
  ASSUME PdIInv, LanIInv, PrefixNext PROVE LanIInv'
<1>a. pdQueue \in Nat /\ pdUnread \in Nat /\ BroadcastRoom \in Nat \ {0}
  BY PdConstants, LanConstants DEF PdIInv, PdInv, PdTypeOK, LanIInv, LanInv, LanTypeOK
<1>b. SUFFICES LanTypeOK' /\ LaggedReads' /\ RoutedSoFar' /\ Informed'
  BY DEF LanIInv, LanInv, LanFollows, LanStoppedClean, PrefixQuiet, Informed, EventDue, RoutedSoFar
<1>c. LanTypeOK /\ LaggedReads /\ RoutedSoFar /\ Informed
  BY DEF LanIInv, LanInv
<1>d. Served \subseteq PdPrefixes  BY ServedTyped
<1> DEFINE SameServer == UNCHANGED << lanAt, cachedSubnets, lanDiff, lanRoutes, lanLeft >>
<1>e. SameServer => RoutedSoFar'
  BY <1>c DEF RoutedSoFar
<1>f. ASSUME UNCHANGED << pdVars, lanChannels >>
      PROVE  Served' = Served /\ (EventDue' <=> EventDue) /\ LaggedReads' /\ UNCHANGED << pdQueue, pdUnread, observer >>
  BY <1>f, <1>c DEF pdVars, pdHost, lanChannels, Served, EventDue, LaggedReads
<1>1. CASE PdSteps /\ UNCHANGED lanVars
  <2>1. SameServer /\ UNCHANGED << pdUnread, pdLagged, observer, lanBell, lanRuns >>
    BY <1>1 DEF lanVars, lanChannels, lanServer
  <2>2. LanTypeOK'  BY <2>1, <1>c DEF LanTypeOK
  <2>3. LaggedReads'  BY <2>1, <1>c DEF LaggedReads
  <2>4. /\ Served' = Served \/ EventDue'
        /\ EventDue => EventDue' \/ pdQueue' > 0
        /\ pdQueue > 0 => pdQueue' > 0
    <3>1. pdQueue' \in Nat
      <4>1. PdIInv'  BY <1>1, PdStepsPreserve
      <4> QED  BY <4>1, PdConstants DEF PdIInv, PdInv, PdTypeOK
    <3> QED  BY <1>1, <1>a, <3>1, PdTells DEF Served
  <2>5. Informed'  BY <2>1, <2>4, <1>c DEF Informed
  <2> QED  BY <2>1, <2>2, <2>3, <2>5, <1>e
<1>2. CASE HubForwards
  <2>1. SameServer /\ UNCHANGED << observer, lanBell, lanRuns, pdAt, pdNext, prefixMap >> /\ pdUnread' \in 1..BroadcastRoom
    BY <1>2, <1>a, <1>c DEF HubForwards, lanServer, pdHost, LanTypeOK
  <2>2. pdLagged' \in BOOLEAN  BY <1>2, <1>c DEF HubForwards, LanTypeOK
  <2>3. LanTypeOK'
    <3>1. pdUnread' \in 0..BroadcastRoom  BY <2>1, <1>a
    <3> QED  BY <2>1, <2>2, <3>1, <1>c DEF LanTypeOK
  <2>4. LaggedReads' /\ Informed'  BY <2>1, <1>a DEF LaggedReads, Informed
  <2> QED  BY <2>1, <2>3, <2>4, <1>e
<1>3. CASE ObserverLagged
  <2>1. SameServer /\ UNCHANGED << observer, lanBell, lanRuns, pdUnread, pdQueue, pdAt, pdNext, prefixMap >> /\ pdLagged' = FALSE
    BY <1>3 DEF ObserverLagged, lanServer, pdVars, pdHost
  <2>2. LanTypeOK'  BY <2>1, <1>c DEF LanTypeOK
  <2>3. LaggedReads' /\ Informed'  BY <2>1, <1>c DEF LaggedReads, Informed, Served, EventDue
  <2> QED  BY <2>1, <2>2, <2>3, <1>e
<1>4. CASE ObserverRings
  <2>1. /\ SameServer /\ UNCHANGED << observer, pdLagged, lanRuns >> /\ ~pdLagged
        /\ pdUnread' = pdUnread - 1 /\ pdUnread > 0 /\ lanBell' = (lanAt \notin {"off", "failed"})
    BY <1>4 DEF ObserverRings, RingLan, lanServer
  <2>2. pdUnread' \in 0..BroadcastRoom  BY <2>1, <1>a, <1>c DEF LanTypeOK
  <2>3. LanTypeOK'  BY <2>1, <2>2, <1>c DEF LanTypeOK
  <2>4. LaggedReads' /\ Informed'  BY <2>1 DEF LaggedReads, Informed
  <2> QED  BY <2>1, <2>3, <2>4, <1>e
<1>5. CASE ObserverEnds
  <2>1. SameServer /\ UNCHANGED << pdUnread, pdLagged, lanBell, lanRuns >> /\ observer' = FALSE
    BY <1>5 DEF ObserverEnds, lanServer
  <2>2. LanTypeOK'  BY <2>1, <1>c DEF LanTypeOK
  <2>3. LaggedReads' /\ Informed'  BY <2>1, <1>c DEF LaggedReads, Informed
  <2> QED  BY <2>1, <2>2, <2>3, <1>e
<1>6. CASE LanStarts
  <2>3. lanRuns' \in 0..MaxLanRuns  BY <1>6, <1>c, LanConstants DEF LanStarts, LanTypeOK
  <2>1. LanTypeOK'  BY <2>3, <1>6, <1>c DEF LanStarts, LanTypeOK, lanChannels, LanAts
  <2>2. RoutedSoFar' /\ Informed'  BY <1>6, <1>c DEF LanStarts, RoutedSoFar, Informed
  <2> QED  BY <2>1, <2>2, <1>6, <1>f DEF LanStarts
<1>7. CASE LanFindsNoAddress
  <2>1. LanTypeOK'  BY <1>7, <1>c DEF LanFindsNoAddress, LanTypeOK, lanChannels, LanAts
  <2>2. RoutedSoFar' /\ Informed'  BY <1>7, <1>c DEF LanFindsNoAddress, RoutedSoFar, Informed
  <2> QED  BY <2>1, <2>2, <1>7, <1>f DEF LanFindsNoAddress
<1>8. CASE LanReads
  <2>1. LanTypeOK'  BY <1>8, <1>c, <1>d DEF LanReads, LanTypeOK, lanChannels, LanAts
  <2>2. RoutedSoFar' /\ Informed'  BY <1>8, <1>c, <1>f DEF LanReads, RoutedSoFar, Informed
  <2> QED  BY <2>1, <2>2, <1>8, <1>f DEF LanReads
<1>9. CASE LanSetup
  <2>1. LanTypeOK'  BY <1>9, <1>c DEF LanSetup, LanTypeOK, lanChannels, LanAts
  <2>2. RoutedSoFar'  BY <1>9, <1>c DEF LanSetup, RoutedSoFar
  <2>3. Informed'  BY <1>9, <1>c, <1>f DEF LanSetup, Informed
  <2> QED  BY <2>1, <2>2, <2>3, <1>9, <1>f DEF LanSetup
<1>10. CASE LanSetupFails
  <2>1. LanTypeOK'  BY <1>10, <1>c DEF LanSetupFails, LanTypeOK, lanChannels, LanAts
  <2>2. RoutedSoFar' /\ Informed'  BY <1>10, <1>c DEF LanSetupFails, RoutedSoFar, Informed
  <2> QED  BY <2>1, <2>2, <1>10, <1>f DEF LanSetupFails
<1>11. CASE LanRecomputes
  <2>1. LanTypeOK'  BY <1>11, <1>c, <1>d DEF LanRecomputes, LanTypeOK, lanChannels, LanAts
  <2>2. RoutedSoFar'  BY <1>11, <1>c DEF LanRecomputes, RoutedSoFar
  <2>3. Informed'  BY <1>11, <1>f DEF LanRecomputes, Informed
  <2> QED  BY <2>1, <2>2, <2>3, <1>11, <1>f DEF LanRecomputes
<1>12. CASE LanRemoves
  <2>1. LanTypeOK'  BY <1>12, <1>c DEF LanRemoves, LanTypeOK, lanChannels, LanAts
  <2>2. RoutedSoFar'  BY <1>12, <1>c DEF LanRemoves, RoutedSoFar
  <2>3. Informed'  BY <1>12, <1>c, <1>f DEF LanRemoves, Informed
  <2> QED  BY <2>1, <2>2, <2>3, <1>12, <1>f DEF LanRemoves
<1>13. CASE LanAdds
  <2>1. LanTypeOK'  BY <1>13, <1>c DEF LanAdds, LanTypeOK, lanChannels, LanAts, NoDiff
  <2>2. RoutedSoFar'  BY <1>13, <1>c DEF LanAdds, RoutedSoFar
  <2>3. Informed'  BY <1>13, <1>c, <1>f DEF LanAdds, Informed
  <2> QED  BY <2>1, <2>2, <2>3, <1>13, <1>f DEF LanAdds
<1>14. CASE LanCleans
  <2>1. LanTypeOK'  BY <1>14, <1>c DEF LanCleans, LanTypeOK, lanChannels, LanAts
  <2>2. RoutedSoFar' /\ Informed'  BY <1>14, <1>c DEF LanCleans, RoutedSoFar, Informed, LanTypeOK
  <2> QED  BY <2>1, <2>2, <1>14, <1>f DEF LanCleans
<1> QED
  BY <1>1, <1>2, <1>3, <1>4, <1>5, <1>6, <1>7, <1>8, <1>9, <1>10, <1>11, <1>12, <1>13, <1>14 DEF PrefixNext, Observer, LanTask

\* The steps of the chain, as the client sees them.
LEMMA PrefixStepsPreserve ==
  ASSUME PdIInv, LanIInv, [PrefixNext]_prefixVars PROVE PdIInv' /\ LanIInv'
<1>1. ASSUME UNCHANGED pdVars PROVE PdIInv'
  BY <1>1 DEF pdVars, pdTask, pdTimers, pdHost, PdIInv, PdInv, PdTypeOK, PrefixNotOutlived, MapIsUsable, AddressesKnown,
     ReleaseAfterUse, LeaseHeld, HandlerSoFar, KnownThroughout, ReleaseIsLast, active_prefix_remaining
<1>2. CASE PrefixNext
  <2>1. \/ PdSteps
        \/ HubTakes /\ UNCHANGED << pdAt, pdNext, pdTask, pdTimers, pdAsked, pdStop, pdHost, releaseSent, pdRuns >>
        \/ UNCHANGED pdVars
    BY <1>2 DEF PrefixNext, HubForwards, Observer, ObserverLagged, ObserverRings, ObserverEnds, LanTask, LanReads, LanSetup, LanRecomputes,
       LanRemoves, LanAdds, LanStarts, LanFindsNoAddress, LanSetupFails, LanCleans
  <2> QED  BY <2>1, <1>1, <1>2, PdStepsPreserve, LanStepsPreserve
<1>3. CASE UNCHANGED prefixVars
  <2>1. UNCHANGED pdVars /\ UNCHANGED lanVars  BY <1>3 DEF prefixVars
  <2>2. LanIInv'
    BY <2>1 DEF LanIInv, LanInv, LanTypeOK, LanFollows, LanStoppedClean, PrefixQuiet, Informed, LaggedReads, RoutedSoFar, EventDue, Served,
       pdVars, pdHost, lanVars, lanChannels, lanServer
  <2> QED  BY <2>1, <2>2, <1>1
<1> QED  BY <1>2, <1>3

LEMMA PrefixStarts == PrefixInit => PdIInv /\ LanIInv
<1> SUFFICES ASSUME PrefixInit PROVE PdIInv /\ LanIInv
  OBVIOUS
<1>1. PdTypeOK
  <2>1. TaskTyped  BY DEF PrefixInit, PdInit, TaskTyped, PdAts, PdNexts, PdStates, PdLeases, Onward, NoLease
  <2>2. CountsTyped /\ RoomsTyped  BY PdConstants DEF PrefixInit, PdInit, CountsTyped, RoomsTyped
  <2>3. FlagsTyped  BY DEF PrefixInit, PdInit, FlagsTyped
  <2>4. HostTyped  BY DEF PrefixInit, PdInit, HostTyped, Nothing, LinkRoutes, NoLinkRoute
  <2> QED  BY <2>1, <2>2, <2>3, <2>4, PdTypeParts
<1>2. PdHostInv
  BY DEF PrefixInit, PdInit, PdHostInv, PrefixNotOutlived, MapIsUsable, AddressesKnown, ReleaseAfterUse, LeaseHeld, HandlerSoFar,
     KnownThroughout, ReleaseIsLast, Nothing, NoLinkRoute, Active
<1>3. LanTypeOK
  <2>1. pdUnread \in 0..BroadcastRoom /\ lanRuns \in 0..MaxLanRuns  BY LanConstants DEF PrefixInit, LanInit
  <2> QED  BY <2>1 DEF PrefixInit, LanInit, LanTypeOK, LanAts, NoDiff
<1>4. LanIInv  BY <1>3 DEF PrefixInit, LanInit, LanIInv, LanInv, LanFollows, PrefixQuiet, LanStoppedClean, Informed, LaggedReads, RoutedSoFar
<1> QED  BY <1>1, <1>2, <1>4 DEF PdIInv, PdInv, PdHostInv

\* A delegated prefix is used exactly while it is held: never published past
\* its lifetime, named by the map only with route and binding under it, no
\* address unknown to the client, and released after its last use
\* (handle_packet, send_current_status_packet, clear_active_pd_prefix).
THEOREM PrefixHeldWhileUsed == PrefixSpec => []PdInv
<1>1. PdIInv => PdInv  BY DEF PdIInv
<1> QED  BY <1>1, PrefixStarts, PrefixStepsPreserve, PTL DEF PrefixSpec

\* Once every event has been taken in, a LAN server serves exactly the prefixes
\* of the map and routes what it serves, whatever the broadcast lost, and a
\* server that was stopped has left nothing of its own (recompute_and_diff and
\* the observer of prefix events).
THEOREM LanServesTheMap == PrefixSpec => []LanInv
<1>1. LanIInv => LanInv  BY DEF LanIInv
<1> QED  BY <1>1, PrefixStarts, PrefixStepsPreserve, PTL DEF PrefixSpec

=============================================================================
