------------------------------ MODULE WanLink ------------------------------
(***************************************************************************)
(* One WAN link of landscape/src/wan_link_service: the environment task    *)
(* that follows the attach interface and the stored configuration, the     *)
(* supervisor of the v4 section, which produces the link's session, and    *)
(* one supervisor for each dependent section (nat, mss, firewall, pd,      *)
(* health check), which attaches to a session and re-attaches when the     *)
(* session or its configuration changes.                                   *)
(*                                                                         *)
(* The tasks share three channels: a watch with the configuration, a watch *)
(* with the LinkState (carrier and session), and a broadcast of            *)
(* SectionTags of bounded length, in which every receiver has a cursor of  *)
(* its own. Each read of a watch, each receive and each await is a step.   *)
(*                                                                         *)
(* The status board and the runtime slots are outputs that none of these   *)
(* tasks reads back; they are left out.                                    *)
(***************************************************************************)
EXTENDS Integers, Sequences

CONSTANTS
    Sections,     \* the dependent sections of the instance
    NeedsLease,   \* those whose `ready` is has_v4_lease, not is_up
    Ifaces,       \* names an attach interface may have
    Boots,        \* configurations the link may be started with
    Modes,        \* kind and v4 part of a configuration, see AllModes
    Versions,     \* an enabled section has a configuration in 1..Versions
    Leases,       \* addresses a lease may carry: 1..Leases
    Cap,          \* capacity of the reconfig broadcast (32)
    IfCap,        \* capacity of the interface event broadcast (128)
    Prompt,       \* TRUE: a save waits until the environment task has
                  \* handled the previous one
    MayStop,      \* whether the link may be told to stop
    MaxSaves, MaxDeaths, MaxIndex, MaxAcquired   \* bounds of an instance

\* What kind, v4.enable and v4.model amount to: an ethernet link with v4
\* disabled, or enabled with a model that acquires nothing, or enabled with
\* a static or DHCP model; a PPP link with v4 enabled or disabled.
AllModes == {"off", "nothing", "lease", "ppp", "pppoff"}

\* enum SectionTag, in the order in which config_change_tags lists them.
TagOrder == <<"V4", "Nat", "Mss", "Firewall", "Pd", "HealthCheck">>

ASSUME WanLinkAssumption ==
    /\ Sections \subseteq {"Nat", "Mss", "Firewall", "Pd", "HealthCheck"}
    /\ NeedsLease \subseteq Sections
    /\ Modes \subseteq AllModes
    /\ Versions \in Nat /\ Leases \in Nat
    /\ Cap \in Nat \ {0} /\ IfCap \in Nat \ {0}
    /\ Prompt \in BOOLEAN /\ MayStop \in BOOLEAN
    /\ MaxSaves \in Nat /\ MaxDeaths \in Nat
    /\ MaxIndex \in Nat \ {0} /\ MaxAcquired \in Nat

VARIABLES
    dev,     \* the kernel: for each name its ifindex (0: absent) and IFF_UP
    ifq,     \* interface events on their way to the environment task
    cfg,     \* value of the configuration watch
    dirty,   \* the environment task has not seen that value
    env,     \* environment task: where it is, `applied`, tags to send
    link,    \* LinkState: carrier (ifindex or 0), session phase and epoch
    inbox,   \* the reconfig broadcast, as each receiver sees it
    sup,     \* v4 supervisor
    vrun,    \* its current v4::run
    sec,     \* supervisor of each dependent section
    srun,    \* its current run
    stop,    \* the link's stop token
    spent    \* use of the bounds

vars == <<dev, ifq, cfg, dirty, env, link, inbox, sup, vrun, sec, srun,
          stop, spent>>

-----------------------------------------------------------------------------
(* Configurations *)

Receivers == {"V4"} \cup Sections

Configs == [att : Ifaces, v4 : Modes, sec : [Sections -> 0..Versions]]

ASSUME BootsAssumption == Boots \subseteq Configs

PdOn(c) == "Pd" \in Sections /\ c.sec["Pd"] # 0

Enabled(c, s) == c.sec[s] # 0

\* WanLinkConfig::active.
Active(c) == \/ c.v4 \in {"nothing", "lease", "ppp"}
             \/ c.v4 = "off" /\ PdOn(c)

\* Whether v4::run publishes a session for this configuration, at once (an
\* anchor without a lease) or once it has acquired an address.
Acquires(c) == c.v4 \in {"lease", "ppp"}
Publishes(c) == Acquires(c) \/ PdOn(c)

\* config_change_tags: which tags a change of configuration requires.
Changed(old, new, t) ==
    IF t = "V4" THEN \/ new.att # old.att
                     \/ new.v4 # old.v4
                     \/ Active(new) # Active(old)
    ELSE new.sec[t] # old.sec[t]

config_change_tags(old, new) == {t \in Receivers : Changed(old, new, t)}

-----------------------------------------------------------------------------
(* Broadcast channels *)

Empty == [q |-> <<>>, lag |-> FALSE]

\* tokio broadcast: a full ring forgets the oldest message, and the receiver
\* that had not read it is told Lagged at its next recv.
Push(c, m, cap) ==
    IF Len(c.q) < cap THEN [q |-> Append(c.q, m), lag |-> c.lag]
    ELSE [q |-> Append(Tail(c.q), m), lag |-> TRUE]

IsEmpty(c) == c.q = <<>> /\ ~c.lag

Lagged(c) == c.lag
NextIs(c, m) == ~c.lag /\ c.q # <<>> /\ Head(c.q) = m
NextIsNot(c, m) == ~c.lag /\ c.q # <<>> /\ Head(c.q) # m

\* The channel after one recv, of a message or of Lagged.
Pop(c) == IF c.lag THEN [q |-> c.q, lag |-> FALSE]
          ELSE [q |-> Tail(c.q), lag |-> FALSE]

\* The environment task holds the only sender.
Closed(r) == env.pc = "over" /\ IsEmpty(inbox[r])

-----------------------------------------------------------------------------
(* LinkStateHandle *)

Down == [up |-> FALSE, idx |-> 0, lease |-> 0]
Up(i, l) == [up |-> TRUE, idx |-> i, lease |-> l]

\* set_carrier: indexes are unique, so the index alone is the identity.
set_carrier(i) == [link EXCEPT !.carrier = i]

session_up(i, l) ==
    IF link.phase = Up(i, l) THEN link
    ELSE [carrier |-> link.carrier, phase |-> Up(i, l), epoch |-> link.epoch + 1]

session_down == [link EXCEPT !.phase = Down]

Ready(s, phase) == phase.up /\ (s \in NeedsLease => phase.lease # 0)

-----------------------------------------------------------------------------
(* Types and initial state *)

SupPcs == {"top", "idle", "carrier", "attach", "run", "restarting",
           "stopping", "backoff", "ended"}
SecPcs == {"top", "disabled", "wait", "snap", "run", "restarting",
           "stopping", "backoff", "ended"}

Indexes == 0..MaxIndex
Phases == [up : BOOLEAN, idx : Indexes, lease : 0..Leases]
Wanted == [v4 : Modes \cup {"none"}, pub : BOOLEAN]

NoWant == [v4 |-> "none", pub |-> FALSE]
NoVrun == [on |-> FALSE, stop |-> FALSE, v4 |-> "none", pub |-> FALSE,
           idx |-> 0, held |-> FALSE]
NoSrun == [on |-> FALSE, stop |-> FALSE, cfg |-> 0, epoch |-> 0,
           phase |-> Down]

\* A run whose token is cancelled, and one that is over.
Cancelled(r) == [on |-> r.on, stop |-> TRUE, cfg |-> r.cfg,
                 epoch |-> r.epoch, phase |-> r.phase]
Over(r) == [on |-> FALSE, stop |-> r.stop, cfg |-> r.cfg,
            epoch |-> r.epoch, phase |-> r.phase]

\* Before start: a stored configuration, any state of the interfaces.
Init ==
    /\ dev \in [Ifaces -> [idx : {0, 1}, up : BOOLEAN]]
    /\ \A n \in Ifaces : dev[n].up => dev[n].idx # 0
    /\ \A m, n \in Ifaces : m # n => dev[m].idx = 0 \/ dev[n].idx = 0
    /\ cfg \in Boots
    /\ ifq = Empty /\ dirty = FALSE
    /\ env = [pc |-> "lookup", applied |-> cfg, todo |-> {}]
    /\ link = [carrier |-> 0, phase |-> Down, epoch |-> 0]
    /\ inbox = [r \in Receivers |-> Empty]
    /\ sup = [pc |-> "top", want |-> NoWant]
    /\ vrun = NoVrun
    /\ sec = [s \in Sections |-> [pc |-> "top", cfg |-> 0]]
    /\ srun = [s \in Sections |-> NoSrun]
    /\ stop = FALSE
    /\ spent = [saves |-> 0, deaths |-> 0, index |-> 1,
                acquired |-> 0]

\* The tasks of the link exist.
Started == env.pc \notin {"lookup", "subscribe"}

-----------------------------------------------------------------------------
(* The world: the kernel's interfaces, the operator, runs that fail *)

Emit(n, up) == ifq' = IF env.pc \in {"lookup", "subscribe", "over"} THEN ifq
                      ELSE Push(ifq, [name |-> n, up |-> up], IfCap)

SetFlag(n, up) == [dev EXCEPT ![n] = [idx |-> dev[n].idx, up |-> up]]

\* An interface is set up, appearing under a new index when it was absent.
DevUp(n) ==
    /\ ~dev[n].up
    /\ \/ dev[n].idx # 0 /\ dev' = SetFlag(n, TRUE) /\ spent' = spent
       \/ /\ dev[n].idx = 0 /\ spent.index < MaxIndex
          /\ dev' = [dev EXCEPT ![n] = [idx |-> spent.index + 1, up |-> TRUE]]
          /\ spent' = [spent EXCEPT !.index = @ + 1]
    /\ Emit(n, TRUE)
    /\ UNCHANGED <<cfg, dirty, env, link, inbox, sup, vrun, sec, srun, stop>>

\* An interface is set down; spent.index bounds the flapping too.
DevDown(n) ==
    /\ dev[n].up /\ spent.index < MaxIndex
    /\ dev' = SetFlag(n, FALSE)
    /\ spent' = [spent EXCEPT !.index = @ + 1]
    /\ Emit(n, FALSE)
    /\ UNCHANGED <<cfg, dirty, env, link, inbox, sup, vrun, sec, srun, stop>>

\* An interface that is down is removed: filter_message_status reports no
\* event for DelLink.
DevGone(n) ==
    /\ dev[n].idx # 0 /\ ~dev[n].up
    /\ dev' = [dev EXCEPT ![n].idx = 0]
    /\ UNCHANGED <<ifq, cfg, dirty, env, link, inbox, sup, vrun, sec, srun,
                   stop, spent>>

\* handle_service_config of a running link: the saved value goes into the
\* configuration watch.
Save ==
    /\ env.pc \notin {"lookup", "over"} /\ ~stop
    /\ spent.saves < MaxSaves
    /\ Prompt => ~dirty /\ env.todo = {}
    /\ cfg' \in Configs \ {cfg}
    /\ dirty' = TRUE
    /\ spent' = [spent EXCEPT !.saves = @ + 1]
    /\ UNCHANGED <<dev, ifq, env, link, inbox, sup, vrun, sec, srun, stop>>

RequestStop ==
    /\ MayStop /\ Started /\ ~stop
    /\ stop' = TRUE
    /\ UNCHANGED <<dev, ifq, cfg, dirty, env, link, inbox, sup, vrun, sec,
                   srun, spent>>

-----------------------------------------------------------------------------
(* start and run_environment *)

\* start looks the attach interface up, ...
StartLooksUp ==
    /\ env.pc = "lookup"
    /\ link' = set_carrier(dev[env.applied.att].idx)
    /\ env' = [env EXCEPT !.pc = "subscribe"]
    /\ UNCHANGED <<dev, ifq, cfg, dirty, inbox, sup, vrun, sec, srun, stop,
                   spent>>

\* ... awaits the status board, and subscribes the tasks to their channels.
StartSubscribes ==
    /\ env.pc = "subscribe"
    /\ env' = [env EXCEPT !.pc = "boot"]
    /\ UNCHANGED <<dev, ifq, cfg, dirty, link, inbox, sup, vrun, sec, srun,
                   stop, spent>>

\* Mutant: no second look after the subscription.
EnvBoots_skip ==
    /\ env.pc = "boot"
    /\ env' = [env EXCEPT !.pc = "loop"]
    /\ UNCHANGED <<dev, ifq, cfg, dirty, link, inbox, sup, vrun, sec, srun,
                   stop, spent>>

\* The environment task covers an interface that appeared in between.
EnvBoots ==
    /\ env.pc = "boot"
    /\ env' = [env EXCEPT !.pc = "loop"]
    /\ LET i == dev[env.applied.att].idx IN
       link' = IF i # 0 THEN set_carrier(i) ELSE link
    /\ UNCHANGED <<dev, ifq, cfg, dirty, inbox, sup, vrun, sec, srun, stop,
                   spent>>

AtSelect == env.pc = "loop" /\ env.todo = {}

\* An interface event: Up looks the interface up again, Down drops the
\* carrier, Lagged takes what the kernel says now.
CarrierAfter(e, i) == IF ~e.up THEN set_carrier(0)
                      ELSE IF i # 0 THEN set_carrier(i) ELSE link

EnvIface ==
    /\ AtSelect /\ ~IsEmpty(ifq)
    /\ LET i == dev[env.applied.att].idx IN
       \/ Lagged(ifq) /\ link' = set_carrier(i)
       \/ /\ ~Lagged(ifq)
          /\ link' = IF Head(ifq.q).name = env.applied.att
                     THEN CarrierAfter(Head(ifq.q), i) ELSE link
    /\ ifq' = Pop(ifq)
    /\ UNCHANGED <<dev, cfg, dirty, env, inbox, sup, vrun, sec, srun, stop,
                   spent>>

\* A new configuration: the carrier follows the attach name, then the tags
\* of what changed are due. `applied` is not read before they are sent.
EnvConfig ==
    /\ AtSelect /\ dirty
    /\ dirty' = FALSE
    /\ link' = IF cfg.att # env.applied.att THEN set_carrier(dev[cfg.att].idx)
               ELSE link
    /\ env' = [pc |-> "loop", applied |-> cfg,
               todo |-> config_change_tags(env.applied, cfg)]
    /\ UNCHANGED <<dev, ifq, cfg, inbox, sup, vrun, sec, srun, stop, spent>>

\* One reconfig_tx.send.
EnvSends ==
    /\ env.pc = "loop"
    /\ \E i \in DOMAIN TagOrder :
        /\ TagOrder[i] \in env.todo
        /\ \A j \in 1..(i - 1) : TagOrder[j] \notin env.todo
        /\ inbox' = [r \in Receivers |-> Push(inbox[r], TagOrder[i], Cap)]
        /\ env' = [env EXCEPT !.todo = @ \ {TagOrder[i]}]
    /\ UNCHANGED <<dev, ifq, cfg, dirty, link, sup, vrun, sec, srun, stop,
                   spent>>

EnvStops ==
    /\ AtSelect /\ stop
    /\ env' = [env EXCEPT !.pc = "over"]
    /\ ifq' = Empty
    /\ UNCHANGED <<dev, cfg, dirty, link, inbox, sup, vrun, sec, srun, stop,
                   spent>>

-----------------------------------------------------------------------------
(* run_v4_supervisor *)

SupIdle(pc) == sup' = [pc |-> pc, want |-> NoWant]

\* Loop head: read the configuration.
SupTop ==
    /\ Started /\ sup.pc = "top"
    /\ IF Active(cfg)
       THEN sup' = [pc |-> "carrier",
                    want |-> [v4 |-> cfg.v4, pub |-> Publishes(cfg)]]
       ELSE SupIdle("idle")
    /\ UNCHANGED <<dev, ifq, cfg, dirty, env, link, inbox, vrun, sec, srun,
                   stop, spent>>

\* Inactive: any message, and Lagged too, leads back to the loop head.
SupWakes ==
    /\ sup.pc = "idle" /\ ~IsEmpty(inbox["V4"])
    /\ inbox' = [inbox EXCEPT !["V4"] = Pop(@)]
    /\ SupIdle("top")
    /\ UNCHANGED <<dev, ifq, cfg, dirty, env, link, vrun, sec, srun, stop,
                   spent>>

\* Mutant: the stop is noticed only while the link is inactive.
SupGivesUp_idleonly ==
    /\ sup.pc = "idle" /\ (stop \/ Closed("V4"))
    /\ SupIdle("ended")
    /\ UNCHANGED <<dev, ifq, cfg, dirty, env, link, inbox, vrun, sec, srun,
                   stop, spent>>

\* The returns outside a run: inactive, waiting for a carrier, backing off.
SupGivesUp ==
    /\ \/ sup.pc = "idle" /\ (stop \/ Closed("V4"))
       \/ sup.pc = "carrier" /\ link.carrier = 0 /\ stop
       \/ sup.pc = "backoff" /\ stop
    /\ SupIdle("ended")
    /\ UNCHANGED <<dev, ifq, cfg, dirty, env, link, inbox, vrun, sec, srun,
                   stop, spent>>

\* wait_carrier_up sees a carrier; the supervisor then reads it again.
SupSeesCarrier ==
    /\ sup.pc = "carrier" /\ link.carrier # 0
    /\ sup' = [sup EXCEPT !.pc = "attach"]
    /\ UNCHANGED <<dev, ifq, cfg, dirty, env, link, inbox, vrun, sec, srun,
                   stop, spent>>

SupAttaches ==
    /\ sup.pc = "attach"
    /\ IF link.carrier = 0 THEN SupIdle("top") /\ vrun' = vrun
       ELSE /\ SupIdle("run")
            /\ vrun' = [on |-> TRUE, stop |-> FALSE, v4 |-> sup.want.v4,
                        pub |-> sup.want.pub, idx |-> link.carrier,
                        held |-> FALSE]
    /\ UNCHANGED <<dev, ifq, cfg, dirty, env, link, inbox, sec, srun, stop,
                   spent>>

\* Step::Stop: run.wait_stop, then return.
SupStops ==
    /\ sup.pc = "run" /\ (stop \/ Closed("V4"))
    /\ SupIdle("stopping")
    /\ vrun' = [vrun EXCEPT !.stop = TRUE]
    /\ UNCHANGED <<dev, ifq, cfg, dirty, env, link, inbox, sec, srun, stop,
                   spent>>

\* Step::Restart, on another carrier or on a V4 tag: the session goes down
\* first, then the run is stopped.
SupRestarts ==
    /\ sup.pc = "run"
    /\ \/ link.carrier # vrun.idx /\ inbox' = inbox
       \/ NextIs(inbox["V4"], "V4") /\ inbox' = [inbox EXCEPT !["V4"] = Pop(@)]
    /\ SupIdle("restarting")
    /\ link' = session_down
    /\ vrun' = [vrun EXCEPT !.stop = TRUE]
    /\ UNCHANGED <<dev, ifq, cfg, dirty, env, sec, srun, stop, spent>>

\* Another section's tag, or Lagged.
SupIgnores ==
    /\ sup.pc = "run"
    /\ Lagged(inbox["V4"]) \/ NextIsNot(inbox["V4"], "V4")
    /\ inbox' = [inbox EXCEPT !["V4"] = Pop(@)]
    /\ UNCHANGED <<dev, ifq, cfg, dirty, env, link, sup, vrun, sec, srun,
                   stop, spent>>

\* Step::Ended: the run is over by itself.
SupEnded ==
    /\ sup.pc = "run" /\ ~vrun.on
    /\ SupIdle("backoff")
    /\ link' = session_down
    /\ vrun' = NoVrun
    /\ UNCHANGED <<dev, ifq, cfg, dirty, env, inbox, sec, srun, stop, spent>>

\* wait_stop returns once the run is over.
SupWaited ==
    /\ sup.pc \in {"restarting", "stopping"} /\ ~vrun.on
    /\ SupIdle(IF sup.pc = "restarting" THEN "top" ELSE "ended")
    /\ vrun' = NoVrun
    /\ UNCHANGED <<dev, ifq, cfg, dirty, env, link, inbox, sec, srun, stop,
                   spent>>

SupRetries ==
    /\ sup.pc = "backoff"
    /\ SupIdle("top")
    /\ UNCHANGED <<dev, ifq, cfg, dirty, env, link, inbox, vrun, sec, srun,
                   stop, spent>>

-----------------------------------------------------------------------------
(* v4::run, as far as the session shows it *)

Acquiring == vrun.v4 \in {"lease", "ppp"}

\* An anchor is published once, before the run looks at its stop token.
V4Anchors ==
    /\ vrun.on /\ ~Acquiring /\ ~vrun.held
    /\ link' = IF vrun.pub THEN session_up(vrun.idx, 0) ELSE link
    /\ vrun' = [vrun EXCEPT !.held = TRUE]
    /\ UNCHANGED <<dev, ifq, cfg, dirty, env, inbox, sup, sec, srun, stop,
                   spent>>

\* A static, DHCP or PPP run acquires or renews an address, or loses it, as
\* long as it has not seen its stop token. A session of a PPP device is named
\* by the interface that device rides on.
V4Acquires ==
    /\ vrun.on /\ Acquiring /\ spent.acquired < MaxAcquired
    /\ \E l \in 1..Leases : link' = session_up(vrun.idx, l)
    /\ spent' = [spent EXCEPT !.acquired = @ + 1]
    /\ UNCHANGED <<dev, ifq, cfg, dirty, env, inbox, sup, vrun, sec, srun,
                   stop>>

V4Loses ==
    /\ vrun.on /\ Acquiring /\ link.phase.up
    /\ link' = session_down
    /\ UNCHANGED <<dev, ifq, cfg, dirty, env, inbox, sup, vrun, sec, srun,
                   stop, spent>>

\* The stop token: every kind of run takes its session down before it ends.
V4Stops ==
    /\ vrun.on /\ vrun.stop /\ (~Acquiring => vrun.held)
    /\ link' = IF vrun.pub THEN session_down ELSE link
    /\ vrun' = [vrun EXCEPT !.on = FALSE]
    /\ UNCHANGED <<dev, ifq, cfg, dirty, env, inbox, sup, sec, srun, stop,
                   spent>>

\* A run that fails may leave its session as it was.
V4Dies ==
    /\ vrun.on /\ ~vrun.stop /\ spent.deaths < MaxDeaths
    /\ vrun' = [vrun EXCEPT !.on = FALSE]
    /\ spent' = [spent EXCEPT !.deaths = @ + 1]
    /\ UNCHANGED <<dev, ifq, cfg, dirty, env, link, inbox, sup, sec, srun,
                   stop>>

-----------------------------------------------------------------------------
(* run_dependent_section *)

SecAt(s, pc) == sec' = [sec EXCEPT ![s] = [pc |-> pc, cfg |-> 0]]

\* Loop head: read the configuration.
SecTop(s) ==
    /\ Started /\ sec[s].pc = "top"
    /\ IF Enabled(cfg, s)
       THEN sec' = [sec EXCEPT ![s] = [pc |-> "wait", cfg |-> cfg.sec[s]]]
       ELSE SecAt(s, "disabled")
    /\ UNCHANGED <<dev, ifq, cfg, dirty, env, link, inbox, sup, vrun, srun,
                   stop, spent>>

\* Disabled: any message, and Lagged too, leads back to the loop head.
SecWakes(s) ==
    /\ sec[s].pc = "disabled" /\ ~IsEmpty(inbox[s])
    /\ inbox' = [inbox EXCEPT ![s] = Pop(@)]
    /\ SecAt(s, "top")
    /\ UNCHANGED <<dev, ifq, cfg, dirty, env, link, sup, vrun, srun, stop,
                   spent>>

\* The returns outside a run: disabled, waiting for a session, backing off.
SecGivesUp(s) ==
    /\ \/ sec[s].pc = "disabled" /\ (stop \/ Closed(s))
       \/ sec[s].pc = "wait" /\ ~Ready(s, link.phase) /\ stop
       \/ sec[s].pc = "backoff" /\ stop
    /\ SecAt(s, "ended")
    /\ UNCHANGED <<dev, ifq, cfg, dirty, env, link, inbox, sup, vrun, srun,
                   stop, spent>>

\* wait_session_ready sees a session; the section then reads it again.
SecSeesSession(s) ==
    /\ sec[s].pc = "wait" /\ Ready(s, link.phase)
    /\ sec' = [sec EXCEPT ![s] = [pc |-> "snap", cfg |-> sec[s].cfg]]
    /\ UNCHANGED <<dev, ifq, cfg, dirty, env, link, inbox, sup, vrun, srun,
                   stop, spent>>

SecAttaches(s) ==
    /\ sec[s].pc = "snap"
    /\ IF ~link.phase.up THEN SecAt(s, "top") /\ srun' = srun
       ELSE /\ SecAt(s, "run")
            /\ srun' = [srun EXCEPT ![s] =
                    [on |-> TRUE, stop |-> FALSE, cfg |-> sec[s].cfg,
                     epoch |-> link.epoch, phase |-> link.phase]]
    /\ UNCHANGED <<dev, ifq, cfg, dirty, env, link, inbox, sup, vrun, stop,
                   spent>>

\* Step::Stop.
SecStops(s) ==
    /\ sec[s].pc = "run" /\ (stop \/ Closed(s))
    /\ SecAt(s, "stopping")
    /\ srun' = [srun EXCEPT ![s] = Cancelled(srun[s])]
    /\ UNCHANGED <<dev, ifq, cfg, dirty, env, link, inbox, sup, vrun, stop,
                   spent>>

Invalid(s) == ~link.phase.up \/ link.epoch # srun[s].epoch

\* Mutant: only the loss of the session is noticed, not a new epoch.
SecRestarts_noepoch(s) ==
    /\ sec[s].pc = "run"
    /\ \/ ~link.phase.up /\ inbox' = inbox
       \/ NextIs(inbox[s], s) /\ inbox' = [inbox EXCEPT ![s] = Pop(@)]
    /\ SecAt(s, "restarting")
    /\ srun' = [srun EXCEPT ![s] = Cancelled(srun[s])]
    /\ UNCHANGED <<dev, ifq, cfg, dirty, env, link, sup, vrun, stop, spent>>

\* Mutant: the section is restarted without waiting for its run.
SecRestarts_nowait(s) ==
    /\ sec[s].pc = "run"
    /\ \/ Invalid(s) /\ inbox' = inbox
       \/ NextIs(inbox[s], s) /\ inbox' = [inbox EXCEPT ![s] = Pop(@)]
    /\ SecAt(s, "top")
    /\ srun' = [srun EXCEPT ![s] = Cancelled(srun[s])]
    /\ UNCHANGED <<dev, ifq, cfg, dirty, env, link, sup, vrun, stop, spent>>

\* Step::Restart, on another session or on the section's tag.
SecRestarts(s) ==
    /\ sec[s].pc = "run"
    /\ \/ Invalid(s) /\ inbox' = inbox
       \/ NextIs(inbox[s], s) /\ inbox' = [inbox EXCEPT ![s] = Pop(@)]
    /\ SecAt(s, "restarting")
    /\ srun' = [srun EXCEPT ![s] = Cancelled(srun[s])]
    /\ UNCHANGED <<dev, ifq, cfg, dirty, env, link, sup, vrun, stop, spent>>

\* Another section's tag, or Lagged.
SecIgnores(s) ==
    /\ sec[s].pc = "run"
    /\ Lagged(inbox[s]) \/ NextIsNot(inbox[s], s)
    /\ inbox' = [inbox EXCEPT ![s] = Pop(@)]
    /\ UNCHANGED <<dev, ifq, cfg, dirty, env, link, sup, vrun, sec, srun,
                   stop, spent>>

\* Step::Ended.
SecEnded(s) ==
    /\ sec[s].pc = "run" /\ ~srun[s].on
    /\ SecAt(s, "backoff")
    /\ srun' = [srun EXCEPT ![s] = NoSrun]
    /\ UNCHANGED <<dev, ifq, cfg, dirty, env, link, inbox, sup, vrun, stop,
                   spent>>

\* Mutant: after a restart the section keeps the configuration it had.
SecWaited_samecfg(s) ==
    /\ sec[s].pc \in {"restarting", "stopping"} /\ ~srun[s].on
    /\ IF sec[s].pc = "restarting"
       THEN sec' = [sec EXCEPT ![s] = [pc |-> "wait", cfg |-> srun[s].cfg]]
       ELSE SecAt(s, "ended")
    /\ srun' = [srun EXCEPT ![s] = NoSrun]
    /\ UNCHANGED <<dev, ifq, cfg, dirty, env, link, inbox, sup, vrun, stop,
                   spent>>

SecWaited(s) ==
    /\ sec[s].pc \in {"restarting", "stopping"} /\ ~srun[s].on
    /\ SecAt(s, IF sec[s].pc = "restarting" THEN "top" ELSE "ended")
    /\ srun' = [srun EXCEPT ![s] = NoSrun]
    /\ UNCHANGED <<dev, ifq, cfg, dirty, env, link, inbox, sup, vrun, stop,
                   spent>>

SecRetries(s) ==
    /\ sec[s].pc = "backoff"
    /\ SecAt(s, "top")
    /\ UNCHANGED <<dev, ifq, cfg, dirty, env, link, inbox, sup, vrun, srun,
                   stop, spent>>

\* The run of a section (nat::run, mss::run, ...) detaches when stopped ...
SrunStops(s) ==
    /\ srun[s].on /\ srun[s].stop
    /\ srun' = [srun EXCEPT ![s] = Over(srun[s])]
    /\ UNCHANGED <<dev, ifq, cfg, dirty, env, link, inbox, sup, vrun, sec,
                   stop, spent>>

\* ... and ends by itself when its attach fails.
SrunDies(s) ==
    /\ srun[s].on /\ ~srun[s].stop /\ spent.deaths < MaxDeaths
    /\ srun' = [srun EXCEPT ![s] = Over(srun[s])]
    /\ spent' = [spent EXCEPT !.deaths = @ + 1]
    /\ UNCHANGED <<dev, ifq, cfg, dirty, env, link, inbox, sup, vrun, sec,
                   stop>>

-----------------------------------------------------------------------------
(* Specification *)

World == \/ \E n \in Ifaces : DevUp(n) \/ DevDown(n) \/ DevGone(n)
         \/ Save \/ RequestStop
         \/ V4Acquires \/ V4Loses \/ V4Dies
         \/ \E s \in Sections : SrunDies(s)

EnvStep == \/ StartLooksUp \/ StartSubscribes \/ EnvBoots
           \/ EnvIface \/ EnvConfig \/ EnvSends \/ EnvStops

SupStep == \/ SupTop \/ SupWakes \/ SupGivesUp \/ SupSeesCarrier
           \/ SupAttaches \/ SupStops \/ SupRestarts \/ SupIgnores
           \/ SupEnded \/ SupWaited \/ SupRetries

VrunStep == V4Anchors \/ V4Stops

SecStep(s) == \/ SecTop(s) \/ SecWakes(s) \/ SecGivesUp(s)
              \/ SecSeesSession(s) \/ SecAttaches(s) \/ SecStops(s)
              \/ SecRestarts(s) \/ SecIgnores(s) \/ SecEnded(s)
              \/ SecWaited(s) \/ SecRetries(s)

Next == \/ World \/ EnvStep \/ SupStep \/ VrunStep
        \/ \E s \in Sections : SecStep(s) \/ SrunStops(s)

Spec == Init /\ [][Next]_vars

\* Each task is scheduled, and a select! does not starve a ready branch: the
\* stop branches get a fairness of their own.
Fairness == /\ WF_vars(EnvStep) /\ WF_vars(SupStep) /\ WF_vars(VrunStep)
            /\ WF_vars(EnvStops) /\ WF_vars(SupStops)
            /\ \A s \in Sections : /\ WF_vars(SecStep(s))
                                   /\ WF_vars(SecStops(s))
                                   /\ WF_vars(SrunStops(s))

FairSpec == Spec /\ Fairness

-----------------------------------------------------------------------------
(* Properties *)

Channel(M, cap) == {c \in [q : Seq(M), lag : BOOLEAN] : Len(c.q) <= cap}

\* Types; a supervisor remembers a configuration exactly between the loop head
\* and the attach, and only sections that are enabled get that far.
TypeOK ==
    /\ dev \in [Ifaces -> [idx : Indexes, up : BOOLEAN]]
    /\ ifq \in Channel([name : Ifaces, up : BOOLEAN], IfCap)
    /\ cfg \in Configs /\ dirty \in BOOLEAN
    /\ env \in [pc : {"lookup", "subscribe", "boot", "loop", "over"},
                applied : Configs, todo : SUBSET Receivers]
    /\ link \in [carrier : Indexes, phase : Phases, epoch : Nat]
    /\ inbox \in [Receivers -> Channel(Receivers, Cap)]
    /\ sup \in [pc : SupPcs, want : Wanted]
    /\ sup.pc \in {"carrier", "attach"} <=> sup.want.v4 # "none"
    /\ vrun \in [on : BOOLEAN, stop : BOOLEAN, v4 : Modes \cup {"none"},
                 pub : BOOLEAN, idx : Indexes, held : BOOLEAN]
    /\ sec \in [Sections -> [pc : SecPcs, cfg : 0..Versions]]
    /\ \A s \in Sections : sec[s].pc \in {"wait", "snap"} <=> sec[s].cfg # 0
    /\ srun \in [Sections -> [on : BOOLEAN, stop : BOOLEAN,
                              cfg : 0..Versions, epoch : Nat,
                              phase : Phases]]
    /\ stop \in BOOLEAN
    /\ spent \in [saves : 0..MaxSaves, deaths : 0..MaxDeaths,
                  index : 0..MaxIndex, acquired : 0..MaxAcquired]

\* A run is over before its supervisor does anything else, so no interface
\* ever carries two runs of a section (wait_stop on every way out of a run).
NoOverlap ==
    /\ vrun.on => sup.pc \in {"run", "restarting", "stopping"}
    /\ \A s \in Sections :
        srun[s].on => sec[s].pc \in {"run", "restarting", "stopping"}

\* A session that is up belongs to the current v4 run and to its interface,
\* whatever the run did while it was being stopped or how it died; nothing
\* is left up for the next configuration or the next carrier to inherit.
SessionOwned ==
    link.phase.up /\ ~stop =>
        /\ sup.pc = "run" \/ (sup.pc = "restarting" /\ vrun.on)
        /\ link.phase.idx = vrun.idx

\* The epoch identifies the session: a section whose epoch is the current one
\* is attached to the current interface and lease. wait_session_invalidated
\* compares nothing else.
EpochNamesSession ==
    \A s \in Sections :
        srun[s].on /\ link.phase.up /\ srun[s].epoch = link.epoch
            => srun[s].phase = link.phase

\* Who owns what on a link: no run overlaps its predecessor, a session that is
\* up belongs to the current v4 run and its interface, and a section that holds
\* the current epoch is attached to the session that is up, not to an earlier
\* one.
LinkInv == TypeOK /\ NoOverlap /\ SessionOwned /\ EpochNamesSession

\* The environment task has nothing to do.
EnvQuiet == AtSelect /\ ~dirty /\ IsEmpty(ifq) /\ ~stop

SupQuiet == \/ sup.pc = "idle" /\ IsEmpty(inbox["V4"])
            \/ sup.pc = "carrier" /\ link.carrier = 0
            \/ /\ sup.pc = "run" /\ IsEmpty(inbox["V4"])
               /\ vrun.on /\ link.carrier = vrun.idx
               /\ Acquiring \/ vrun.held

SecQuiet(s) == \/ sec[s].pc = "disabled" /\ IsEmpty(inbox[s])
               \/ sec[s].pc = "wait" /\ ~Ready(s, link.phase)
               \/ /\ sec[s].pc = "run" /\ IsEmpty(inbox[s])
                  /\ srun[s].on /\ ~Invalid(s)

\* No task of the link has anything left to react to.
Quiet == EnvQuiet /\ SupQuiet /\ \A s \in Sections : SecQuiet(s)

\* Once nothing is left to react to, a section runs exactly when the current
\* configuration enables it and the session is there, and it runs the current
\* configuration: no change of configuration was lost, whether it came while
\* the section was attached, restarting, waiting or disabled.
SectionsSettled ==
    Quiet => \A s \in Sections :
        /\ srun[s].on => srun[s].cfg = cfg.sec[s]
        /\ Enabled(cfg, s) /\ Ready(s, link.phase) => srun[s].on

\* The same for the v4 section: it runs exactly when the link is active and
\* has a carrier, in the current mode and on the current interface.
V4Settled ==
    Quiet =>
        /\ sup.pc = "run" <=> Active(cfg) /\ link.carrier # 0
        /\ sup.pc = "run" => vrun.v4 = cfg.v4 /\ vrun.idx = link.carrier
        /\ link.phase.up => Active(cfg) /\ link.phase.idx = link.carrier

\* A link at rest runs what is stored: the v4 section and every dependent
\* section run exactly when the configuration and the session ask for it, with
\* the current configuration, and not on a stale one.
LinkSettled == SectionsSettled /\ V4Settled

\* An interface that is up is the link's carrier, also when it came up during
\* start, or when events were lost to a lagging receiver.
UpIsSeen == EnvQuiet /\ dev[cfg.att].up => link.carrier = dev[cfg.att].idx

\* All of it while interfaces come, go and are renumbered: ownership holds
\* throughout, and a link at rest follows its interface, whenever it came up and
\* whatever events were lost on the way: the interface that is up is the
\* carrier, and all sections have settled on it.
LinkFollows == LinkInv /\ UpIsSeen /\ LinkSettled

\* A link that is told to stop ends all its tasks.
StopEnds == stop ~> /\ env.pc = "over" /\ sup.pc = "ended"
                    /\ \A s \in Sections : sec[s].pc = "ended"

\* After the last change from outside the link comes to rest.
Converges == <>[](stop \/ Quiet)

\* state.rs: the carrier is None while the interface is absent.
AbsentIsSeen == EnvQuiet /\ dev[cfg.att].idx = 0 => link.carrier = 0

\* state.rs: NAT requires the presence of a lease.
LeaseRequired == \A s \in NeedsLease : srun[s].on => srun[s].phase.lease # 0

\* v4.rs: an ethernet link without acquisition publishes an anchor when, and
\* only when, PD needs one.
AnchorFollowsPd ==
    Quiet /\ sup.pc = "run" /\ ~Acquiring => (link.phase.up <=> PdOn(cfg))
=============================================================================
