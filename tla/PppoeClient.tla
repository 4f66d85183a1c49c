---------------------------- MODULE PppoeClient ----------------------------
(***************************************************************************)
(* The native PPPoE client of one link: the redial loop with discovery,    *)
(* LCP, authentication and network negotiation, the host configuration of  *)
(* a session, keepalive and hang-up.                                       *)
(*                                                                         *)
(* Nothing is assumed of the peer: in every phase any message the phase    *)
(* reacts to may arrive at any time, late, repeated or never.  Frames of   *)
(* another session and frames the phase ignores have no effect and are     *)
(* left out, as are session ids, magic numbers and request ids.            *)
(* `left' and `echo' are the time until the two timers of a phase fire.    *)
(* A delay of the redial loop grows with retry_count up to 30 minutes, so  *)
(* retry_count is kept only up to that point (BackoffCap).                 *)
(***************************************************************************)
EXTENDS Integers

CONSTANTS
  PppIps,                   \* addresses a peer may assign
  requested_mru,         \* of the configuration
  Mrus,                  \* MRUs a peer may suggest
  MAX_DISCOVERY_RETRIES, MAX_LCP_RETRIES, MAX_AUTH_RETRIES, MAX_NCP_RETRIES, MAX_ECHO_FAILURES,
  DEFAULT_TIMEOUT,       \* of a phase's answer
  LCP_ECHO_INTERVAL,
  BackoffCap,            \* retry_count at which the delay stops growing
  MaxPppRuns             \* bound: runs of the client

ASSUME PppConstants ==
  /\ PppIps \subseteq Nat \ {0} /\ requested_mru \in Nat \ {0} /\ Mrus \subseteq Nat \ {0}
  /\ {MAX_DISCOVERY_RETRIES, MAX_LCP_RETRIES, MAX_AUTH_RETRIES, MAX_NCP_RETRIES} \subseteq Nat
  /\ {MAX_ECHO_FAILURES, DEFAULT_TIMEOUT, LCP_ECHO_INTERVAL, BackoffCap, MaxPppRuns} \subseteq Nat \ {0}

VARIABLES
  ph,       \* where the client is
  pppAfter,    \* what follows the shutdown of a session
  pppRetry,    \* retry_count
  pppTries,    \* retries of the current phase: [main, ip, v6]
  lcpState, \* [acked, peer, mru]
  nego,     \* [auth, ip, peer, v6mine, v6peer, v6off]
  pppLeft, pppEcho, pppMissed,
  chanUp,   \* the eBPF channel is open
  pppStop,  \* the stop token
  pppHost,     \* what the system shows
  sess,   \* SessionHandle
  sessUp,   \* the link's session
  pppLeaked,   \* history: a session was left half applied
  pppRuns

pppVars == << ph, pppAfter, pppRetry, pppTries, lcpState, nego, pppLeft, pppEcho, pppMissed, chanUp, pppStop,
              pppHost, sess, sessUp, pppLeaked, pppRuns >>

Dialing == {"padi", "padr", "lcp"}
PppPhases == Dialing \cup {"backoff", "dial", "nego", "apply", "applyLan", "applyWan", "attach",
                        "online", "hangup", "down", "downWan", "downLan", "downEnd", "ended"}

NoTries == [main |-> 0, ip |-> 0, v6 |-> 0]
NoLcp == [acked |-> FALSE, peer |-> FALSE, mru |-> requested_mru]
NoNego == [auth |-> FALSE, ip |-> 0, peer |-> FALSE, v6mine |-> FALSE, v6peer |-> FALSE, v6off |-> FALSE]
FullMtu == 1500
\* Link-local address: the interface's own, or the one IPv6CP agreed on.
CleanHost == [bind |-> 0, mtu |-> FullMtu, addr |-> 0, lan |-> 0, wan |-> 0, ll |-> "own", tc |-> FALSE]
NoHandle == [up |-> FALSE, ip |-> 0, newll |-> FALSE, prevll |-> "own"]

PppInit ==
  /\ ph = "ended" /\ pppAfter = "ended" /\ pppRetry = 0 /\ pppTries = NoTries /\ lcpState = NoLcp /\ nego = NoNego
  /\ pppLeft = 0 /\ pppEcho = 0 /\ pppMissed = 0 /\ chanUp = FALSE /\ pppStop = FALSE
  /\ pppHost = CleanHost /\ sess = NoHandle /\ sessUp = FALSE /\ pppLeaked = FALSE /\ pppRuns = 0

hostSide == << pppHost, sess, sessUp, pppLeaked >>
pppTimers == << pppLeft, pppEcho, pppMissed >>
dialSide == << pppTries, lcpState, nego >>

RetryAgain == IF pppRetry < BackoffCap THEN pppRetry + 1 ELSE pppRetry

DropTimers == pppLeft' = 0 /\ pppEcho' = 0 /\ pppMissed' = 0
DropLocals == pppTries' = NoTries /\ lcpState' = NoLcp /\ nego' = NoNego /\ DropTimers

\* Mutant: a lost session is left on the host.
LeaveFor_dirty(next) == ph' = next /\ pppAfter' = next /\ DropLocals

\* shutdown_session, then `next': redial, or the end of the run.
LeaveFor(next) == ph' = "down" /\ pppAfter' = next /\ DropLocals

\* Negotiated: a session left over is shut down before the new one is created.
LeaveToApply(n) == ph' = "down" /\ pppAfter' = "apply" /\ nego' = n /\ pppTries' = NoTries /\ DropTimers

\* A retryable error of the running phase.
Redial == LeaveFor("backoff") /\ pppRetry' = RetryAgain

(***************************************************************************)
(* Start, backoff, channel                                                 *)
(***************************************************************************)
PppStart(ok) ==
  /\ ph = "ended" /\ pppRuns < MaxPppRuns
  /\ pppRuns' = pppRuns + 1 /\ pppStop' = FALSE /\ pppRetry' = 0 /\ chanUp' = ok
  /\ ph' = IF ok THEN "backoff" ELSE "ended"
  /\ UNCHANGED << pppAfter, dialSide, pppTimers, hostSide >>

\* The delay is over (there is none before the first attempt).
BackoffOver ==
  /\ ph = "backoff" /\ ph' = "dial"
  /\ UNCHANGED << pppAfter, pppRetry, dialSide, pppTimers, chanUp, pppStop, hostSide, pppRuns >>

BackoffStops ==
  /\ ph = "backoff" /\ pppRetry > 0 /\ pppStop
  /\ LeaveFor("ended")
  /\ UNCHANGED << pppRetry, chanUp, pppStop, hostSide, pppRuns >>

\* A closed channel is opened again; then the first PADI.
DialAgain(ok) ==
  /\ ph = "dial" /\ (chanUp => ok)
  /\ chanUp' = ok
  /\ IF ok THEN ph' = "padi" /\ pppLeft' = DEFAULT_TIMEOUT /\ UNCHANGED pppRetry
     ELSE ph' = "backoff" /\ pppRetry' = RetryAgain /\ UNCHANGED pppLeft
  /\ UNCHANGED << pppAfter, dialSide, pppEcho, pppMissed, pppStop, hostSide, pppRuns >>

\* The task behind the channel ends; a running phase fails with ChannelClosed.
ChannelCloses ==
  /\ chanUp /\ chanUp' = FALSE
  /\ UNCHANGED << ph, pppAfter, pppRetry, dialSide, pppTimers, pppStop, hostSide, pppRuns >>

SeesClosed ==
  /\ ph \in Dialing \cup {"nego", "online"} /\ ~chanUp
  /\ Redial
  /\ UNCHANGED << chanUp, pppStop, hostSide, pppRuns >>

(***************************************************************************)
(* Discovery and LCP                                                       *)
(***************************************************************************)
\* PADO or PADS: the next state of the discovery.
Discovered ==
  /\ ph \in {"padi", "padr"} /\ chanUp
  /\ ph' = IF ph = "padi" THEN "padr" ELSE "lcp"
  /\ pppTries' = NoTries /\ pppLeft' = DEFAULT_TIMEOUT
  /\ UNCHANGED << pppAfter, pppRetry, lcpState, nego, pppEcho, pppMissed, chanUp, pppStop, hostSide, pppRuns >>

\* The phase returns: negotiation begins with an echo request.
EnterNego ==
  /\ ph' = "nego" /\ pppRetry' = 0 /\ nego' = NoNego /\ pppTries' = NoTries
  /\ pppLeft' = DEFAULT_TIMEOUT /\ pppEcho' = LCP_ECHO_INTERVAL /\ pppMissed' = 1

LcpAfter(m, mru) ==
  CASE m = "req" -> [lcpState EXCEPT !.peer = TRUE]
    [] m = "ack" -> [lcpState EXCEPT !.acked = TRUE]
    [] m = "nak" -> [lcpState EXCEPT !.acked = FALSE, !.mru = IF mru < @ THEN mru ELSE @]

\* Config-Request, -Ack and -Nak; the timer runs on.
handle_lcp_packet(m, mru) ==
  /\ ph = "lcp" /\ chanUp
  /\ lcpState' = LcpAfter(m, mru)
  /\ IF lcpState'.acked /\ lcpState'.peer THEN EnterNego
     ELSE UNCHANGED << ph, pppRetry, nego, pppTries, pppTimers >>
  /\ UNCHANGED << pppAfter, chanUp, pppStop, hostSide, pppRuns >>

\* Config-Reject, or a request without MRU, magic number or authentication type.
LcpRejected ==
  /\ ph = "lcp" /\ chanUp
  /\ LeaveFor("ended")
  /\ UNCHANGED << pppRetry, chanUp, pppStop, hostSide, pppRuns >>

\* PADI or PADR again, or the LCP request while it is not acknowledged, each time
\* with a longer wait.
DialTimeout ==
  /\ ph \in Dialing /\ pppLeft = 0
  /\ IF pppTries.main < (IF ph = "lcp" THEN MAX_LCP_RETRIES ELSE MAX_DISCOVERY_RETRIES)
     THEN /\ pppTries' = [pppTries EXCEPT !.main = @ + 1]
          /\ pppLeft' = DEFAULT_TIMEOUT * (IF ph = "lcp" THEN pppTries'.main + 1 ELSE 1)
          /\ UNCHANGED << ph, pppAfter, pppRetry, lcpState, nego, pppEcho, pppMissed >>
     ELSE Redial
  /\ UNCHANGED << chanUp, pppStop, hostSide, pppRuns >>

(***************************************************************************)
(* Authentication, IPCP, IPv6CP                                            *)
(***************************************************************************)
IpcpDone(n) == n.ip # 0 /\ n.peer
Ipv6cpDone(n) == n.v6off \/ (n.v6mine /\ n.v6peer)
NegoDone(n) == IpcpDone(n) /\ Ipv6cpDone(n)

NegoAfter(m, ip) ==
  CASE m = "authOk" -> [nego EXCEPT !.auth = TRUE]
    [] m = "ipAck"  -> [nego EXCEPT !.ip = ip]
    [] m = "ipReq"  -> [nego EXCEPT !.peer = TRUE]
    [] m = "v6Ack"  -> [nego EXCEPT !.v6mine = TRUE]
    [] m = "v6Req"  -> [nego EXCEPT !.v6peer = TRUE]
    [] m = "v6Rej"  -> [nego EXCEPT !.v6off = TRUE]
    [] m \in {"nak", "echo"} -> nego

\* Any packet of the negotiation restarts the timeout; only echoes show that the
\* peer is there.
NegoPacket(m, ip) ==
  /\ ph = "nego" /\ chanUp
  /\ IF NegoDone(NegoAfter(m, ip)) THEN LeaveToApply(NegoAfter(m, ip))
     ELSE /\ nego' = NegoAfter(m, ip) /\ pppLeft' = DEFAULT_TIMEOUT
          /\ pppMissed' = IF m = "echo" THEN 0 ELSE pppMissed
          /\ UNCHANGED << ph, pppAfter, pppTries, pppEcho >>
  /\ UNCHANGED << pppRetry, lcpState, chanUp, pppStop, hostSide, pppRuns >>

\* The peer refuses the credentials, IPCP or PAP, or asked for an authentication
\* the client does not know.
NegoRefused ==
  /\ ph = "nego" /\ chanUp
  /\ LeaveFor("ended")
  /\ UNCHANGED << pppRetry, chanUp, pppStop, hostSide, pppRuns >>

\* A Terminate-Request or -Ack of the peer.
PeerTerminates ==
  /\ ph \in {"nego", "online"} /\ chanUp
  /\ Redial
  /\ UNCHANGED << chanUp, pppStop, hostSide, pppRuns >>

\* The answer to the credentials is waited for MAX_AUTH_RETRIES times.
AuthTimeout ==
  /\ ph = "nego" /\ pppLeft = 0 /\ ~nego.auth
  /\ IF pppTries.main < MAX_AUTH_RETRIES
     THEN /\ pppTries' = [pppTries EXCEPT !.main = @ + 1] /\ pppLeft' = DEFAULT_TIMEOUT
          /\ UNCHANGED << ph, pppAfter, lcpState, nego, pppEcho, pppMissed >>
     ELSE LeaveFor("ended")
  /\ UNCHANGED << pppRetry, chanUp, pppStop, hostSide, pppRuns >>

\* IPCP and IPv6CP requests are repeated; IPv6CP may fail, IPCP may not.
NcpTimeout ==
  /\ ph = "nego" /\ pppLeft = 0 /\ nego.auth
  /\ LET ipAgain == ~IpcpDone(nego)
         v6Again == ~Ipv6cpDone(nego) /\ pppTries.v6 < MAX_NCP_RETRIES
         off == [nego EXCEPT !.v6off = @ \/ (~Ipv6cpDone(nego) /\ ~v6Again)]
     IN  IF ipAgain /\ pppTries.ip = MAX_NCP_RETRIES THEN Redial
         ELSE /\ IF NegoDone(off) THEN LeaveToApply(off)
                 ELSE /\ pppTries' = [pppTries EXCEPT !.ip = IF ipAgain THEN @ + 1 ELSE @,
                                                      !.v6 = IF v6Again THEN @ + 1 ELSE @]
                      /\ nego' = off /\ pppLeft' = DEFAULT_TIMEOUT
                      /\ UNCHANGED << ph, pppAfter, pppEcho, pppMissed >>
              /\ UNCHANGED << pppRetry, lcpState >>
  /\ UNCHANGED << chanUp, pppStop, hostSide, pppRuns >>

(***************************************************************************)
(* Host configuration: create_session and SessionHandle::shutdown, one     *)
(* step per call of the route service.                                     *)
(***************************************************************************)
HostTo(h, next) == pppHost' = h /\ ph' = next /\ UNCHANGED << pppAfter, pppRetry, dialSide, pppTimers, chanUp, pppStop, pppLeaked, pppRuns >>

Apply ==
  /\ ph = "apply"
  /\ HostTo([pppHost EXCEPT !.bind = nego.ip, !.mtu = lcpState.mru, !.addr = nego.ip], "applyLan")
  /\ UNCHANGED << sess, sessUp >>

ApplyLan ==
  /\ ph = "applyLan" /\ HostTo([pppHost EXCEPT !.lan = nego.ip], "applyWan")
  /\ UNCHANGED << sess, sessUp >>

ApplyWan ==
  /\ ph = "applyWan" /\ HostTo([pppHost EXCEPT !.wan = nego.ip], "attach")
  /\ UNCHANGED << sess, sessUp >>

LinkLocal == IF nego.v6mine THEN "cp" ELSE pppHost.ll

\* The data plane takes the session: the link's session is up, keepalive begins.
Attach ==
  /\ ph = "attach" /\ ph' = "online"
  /\ pppHost' = [pppHost EXCEPT !.ll = LinkLocal, !.tc = TRUE]
  /\ sess' = [up |-> TRUE, ip |-> nego.ip, newll |-> nego.v6mine, prevll |-> pppHost.ll]
  /\ sessUp' = TRUE /\ pppRetry' = 0
  /\ pppLeft' = 0 /\ pppEcho' = LCP_ECHO_INTERVAL /\ pppMissed' = 1
  /\ UNCHANGED << pppAfter, dialSide, chanUp, pppStop, pppLeaked, pppRuns >>

\* It does not: the run ends.
AttachFails ==
  /\ ph = "attach" /\ ph' = "ended"
  /\ pppHost' = [pppHost EXCEPT !.ll = LinkLocal]
  /\ pppLeaked' = TRUE
  /\ DropLocals
  /\ UNCHANGED << pppAfter, pppRetry, chanUp, pppStop, sess, sessUp, pppRuns >>

\* No session to take down: the link is told all the same.
DownIdle ==
  /\ ph = "down" /\ ~sess.up
  /\ ph' = pppAfter /\ sessUp' = FALSE
  /\ UNCHANGED << pppAfter, pppRetry, dialSide, pppTimers, chanUp, pppStop, pppHost, sess, pppLeaked, pppRuns >>

Down ==
  /\ ph = "down" /\ sess.up
  /\ HostTo([pppHost EXCEPT !.addr = 0, !.ll = IF sess.newll THEN sess.prevll ELSE @], "downWan")
  /\ UNCHANGED << sess, sessUp >>

DownWan == ph = "downWan" /\ HostTo([pppHost EXCEPT !.wan = 0], "downLan") /\ UNCHANGED << sess, sessUp >>
DownLan == ph = "downLan" /\ HostTo([pppHost EXCEPT !.lan = 0], "downEnd") /\ UNCHANGED << sess, sessUp >>

DownEnd ==
  /\ ph = "downEnd" /\ HostTo([pppHost EXCEPT !.bind = 0, !.mtu = FullMtu, !.tc = FALSE], pppAfter)
  /\ sess' = NoHandle /\ sessUp' = FALSE

(***************************************************************************)
(* Keepalive, stop, time                                                   *)
(***************************************************************************)
OnlineEcho ==
  /\ ph = "online" /\ chanUp /\ pppMissed' = 0
  /\ UNCHANGED << ph, pppAfter, pppRetry, dialSide, pppLeft, pppEcho, chanUp, pppStop, hostSide, pppRuns >>

\* Mutant: every request starts the count anew.
EchoTimer_anew ==
  /\ ph \in {"nego", "online"} /\ pppEcho = 0
  /\ pppMissed' = 1 /\ pppEcho' = LCP_ECHO_INTERVAL
  /\ UNCHANGED << ph, pppAfter, pppRetry, dialSide, pppLeft, chanUp, pppStop, hostSide, pppRuns >>

EchoTimer ==
  /\ ph \in {"nego", "online"} /\ pppEcho = 0
  /\ IF pppMissed + 1 > MAX_ECHO_FAILURES THEN Redial
     ELSE /\ pppMissed' = pppMissed + 1 /\ pppEcho' = LCP_ECHO_INTERVAL
          /\ UNCHANGED << ph, pppAfter, pppRetry, dialSide, pppLeft >>
  /\ UNCHANGED << chanUp, pppStop, hostSide, pppRuns >>

AskPppStop ==
  /\ ph # "ended" /\ ~pppStop /\ pppStop' = TRUE
  /\ UNCHANGED << ph, pppAfter, pppRetry, dialSide, pppTimers, chanUp, hostSide, pppRuns >>

PhaseStops ==
  /\ ph \in Dialing \cup {"nego"} /\ pppStop
  /\ LeaveFor("ended")
  /\ UNCHANGED << pppRetry, chanUp, pppStop, hostSide, pppRuns >>

\* Mutant: the session goes on.
OnlineStops_ignored ==
  /\ ph = "online" /\ pppStop
  /\ UNCHANGED pppVars

\* Terminate-Request, then at most two seconds for the answer.
OnlineStops ==
  /\ ph = "online" /\ pppStop /\ ph' = "hangup"
  /\ UNCHANGED << pppAfter, pppRetry, dialSide, pppTimers, chanUp, pppStop, hostSide, pppRuns >>

HangupOver ==
  /\ ph = "hangup" /\ LeaveFor("ended")
  /\ UNCHANGED << pppRetry, chanUp, pppStop, hostSide, pppRuns >>

PppTick ==
  /\ pppLeft + pppEcho > 0
  /\ pppLeft' = (IF pppLeft > 0 THEN pppLeft - 1 ELSE 0) /\ pppEcho' = (IF pppEcho > 0 THEN pppEcho - 1 ELSE 0)
  /\ UNCHANGED << ph, pppAfter, pppRetry, dialSide, pppMissed, chanUp, pppStop, hostSide, pppRuns >>

LcpMsgs == {"req", "ack", "nak"}
NegoMsgs == {"authOk", "ipAck", "ipReq", "v6Ack", "v6Req", "v6Rej", "nak"}

NegoEcho == NegoPacket("echo", 0)
PeerActs ==
  \/ Discovered \/ LcpRejected \/ NegoRefused \/ PeerTerminates \/ OnlineEcho \/ NegoEcho
  \/ \E m \in LcpMsgs, mru \in Mrus : handle_lcp_packet(m, mru)
  \/ \E m \in NegoMsgs, ip \in PppIps : NegoPacket(m, ip)

PppEffects == Apply \/ ApplyLan \/ ApplyWan \/ Attach \/ DownIdle \/ Down \/ DownWan \/ DownLan \/ DownEnd \/ HangupOver
PppStops == BackoffStops \/ PhaseStops \/ OnlineStops
PppTimeouts == DialTimeout \/ AuthTimeout \/ NcpTimeout

PppNext ==
  \/ \E ok \in BOOLEAN : PppStart(ok) \/ DialAgain(ok)
  \/ BackoffOver \/ ChannelCloses \/ SeesClosed \/ AttachFails \/ AskPppStop \/ PppTick
  \/ PeerActs \/ PppEffects \/ PppStops \/ PppTimeouts \/ EchoTimer

\* tokio polls what is ready, select! starves no branch, time passes.
PppFairness ==
  /\ WF_pppVars(PppEffects \/ AttachFails) /\ WF_pppVars(BackoffOver) /\ WF_pppVars(DialAgain(chanUp))
  /\ WF_pppVars(SeesClosed) /\ WF_pppVars(PppTick)
  /\ SF_pppVars(PppStops) /\ SF_pppVars(PppTimeouts) /\ SF_pppVars(EchoTimer)
PppSpec == PppInit /\ [][PppNext]_pppVars /\ PppFairness

(***************************************************************************)
(* Properties                                                              *)
(***************************************************************************)
\* Types of the dial state, the timers and the host; no counter passes its limit.
PppTypeOK ==
  /\ ph \in PppPhases /\ pppAfter \in {"apply", "backoff", "ended"} /\ pppRetry \in 0 .. BackoffCap
  /\ lcpState.mru \in Mrus \cup {requested_mru} /\ nego.ip \in PppIps \cup {0}
  /\ pppTries.ip \in 0 .. MAX_NCP_RETRIES /\ pppTries.v6 \in 0 .. MAX_NCP_RETRIES
  /\ pppLeft \in 0 .. DEFAULT_TIMEOUT * (MAX_LCP_RETRIES + 1) /\ pppEcho \in 0 .. LCP_ECHO_INTERVAL /\ pppMissed \in 0 .. MAX_ECHO_FAILURES

Changing == {"apply", "applyLan", "applyWan", "attach", "down", "downWan", "downLan", "downEnd"}
SessionHost(ip, mru, ll) == [bind |-> ip, mtu |-> mru, addr |-> ip, lan |-> ip, wan |-> ip, ll |-> ll, tc |-> TRUE]

\* Outside create_session and shutdown the host shows exactly the session: every
\* failure, termination or stop takes all of it down, down to the link-local
\* address, and an online client has all of it, with an MTU no larger than asked
\* for; unless the data plane once refused a session.
HostFollowsSession ==
  /\ ph \notin Changing /\ ~pppLeaked =>
       IF ph \in {"online", "hangup"}
       THEN pppHost = SessionHost(nego.ip, lcpState.mru, IF nego.v6mine THEN "cp" ELSE "own") /\ sessUp
       ELSE pppHost = CleanHost /\ ~sessUp
  /\ pppHost.mtu = FullMtu \/ pppHost.mtu <= requested_mru

\* The same for every run: "still need cleanup".
EndedIsClean == ph = "ended" => pppHost = CleanHost

\* The link sees a session only with its address, routes and data plane in place,
\* except while it is being taken down.
SessionHasHost ==
  sessUp /\ ph \notin {"down", "downWan", "downLan", "downEnd"} =>
    pppHost.addr # 0 /\ pppHost.wan = pppHost.addr /\ pppHost.lan = pppHost.addr /\ pppHost.bind = pppHost.addr /\ pppHost.tc

\* The host shows exactly the session: all of it while the client is online,
\* nothing outside a session (unless the data plane once refused one), and the
\* link names a session only with address, routes, binding and data plane
\* under it.
PppInv == PppTypeOK /\ HostFollowsSession /\ SessionHasHost

\* A stop request ends the run, wherever it is and whatever the peer does.
PppStopEnds == pppStop ~> ph = "ended"

\* Discovery and LCP end, by success, failure or redial, whatever the peer sends.
DialEnds == []<>(ph \notin Dialing)

\* A session or negotiation whose peer stops answering echoes ends, even when other
\* packets keep coming.
SilentPeerNoticed == []<>(ph \notin {"nego", "online"}) \/ []<><<NegoEcho \/ OnlineEcho>>_pppVars

\* No phase lasts for ever: discovery and LCP end whatever the peer sends or
\* leaves out, and a peer that stops answering echoes is noticed whatever else
\* it sends.
PhasesEnd == DialEnds /\ SilentPeerNoticed
=============================================================================
