--------------------------- MODULE WanLink_proofs ---------------------------
(***************************************************************************)
(* Proofs about WanLink for every set of sections, interfaces and modes,   *)
(* every number of configurations and leases, and every bound.             *)
(*                                                                         *)
(* Four layers: types; ownership (which run a session belongs to, and what *)
(* an epoch names); notification (a supervisor that holds another          *)
(* configuration than the stored one has a tag on its way); and the        *)
(* carrier (the interface events still queued end with the truth).         *)
(***************************************************************************)
EXTENDS WanLink, TLAPS

-----------------------------------------------------------------------------
(* Channels *)

\* A message of the right kind keeps a channel well typed and within its
\* capacity.
LEMMA PushType ==
    ASSUME NEW M, NEW cap \in Nat \ {0}, NEW c \in Channel(M, cap), NEW m \in M
    PROVE  Push(c, m, cap) \in Channel(M, cap)
<1>1. c.q \in Seq(M) /\ Len(c.q) \in Nat /\ Len(c.q) <= cap /\ c.lag \in BOOLEAN
  BY DEF Channel
<1>2. CASE Len(c.q) < cap
  <2>1. Append(c.q, m) \in Seq(M) /\ Len(Append(c.q, m)) = Len(c.q) + 1
    BY <1>1
  <2>2. Push(c, m, cap) = [q |-> Append(c.q, m), lag |-> c.lag]
    BY <1>2 DEF Push
  <2> QED  BY <1>1, <1>2, <2>1, <2>2 DEF Channel
<1>3. CASE ~(Len(c.q) < cap)
  <2>1. c.q # <<>>
    BY <1>1, <1>3
  <2>2. Tail(c.q) \in Seq(M) /\ Len(Tail(c.q)) = Len(c.q) - 1
    BY <1>1, <2>1
  <2>3. Append(Tail(c.q), m) \in Seq(M) /\ Len(Append(Tail(c.q), m)) = Len(c.q)
    BY <1>1, <2>2
  <2>4. Push(c, m, cap) = [q |-> Append(Tail(c.q), m), lag |-> TRUE]
    BY <1>3 DEF Push
  <2> QED  BY <1>1, <2>3, <2>4 DEF Channel
<1> QED  BY <1>2, <1>3

\* So does a receive.
LEMMA PopType ==
    ASSUME NEW M, NEW cap \in Nat, NEW c \in Channel(M, cap), ~IsEmpty(c)
    PROVE  Pop(c) \in Channel(M, cap)
<1>1. c.q \in Seq(M) /\ Len(c.q) \in Nat /\ Len(c.q) <= cap /\ c.lag \in BOOLEAN
  BY DEF Channel
<1>2. CASE c.lag
  BY <1>1, <1>2 DEF Pop, Channel
<1>3. CASE ~c.lag
  <2>1. c.q # <<>>
    BY <1>3 DEF IsEmpty
  <2>2. Tail(c.q) \in Seq(M) /\ Len(Tail(c.q)) = Len(c.q) - 1
    BY <1>1, <2>1
  <2> QED  BY <1>1, <1>3, <2>2 DEF Pop, Channel
<1> QED  BY <1>1, <1>2, <1>3

\* The channel of a new receiver is well typed.
LEMMA EmptyType ==
    ASSUME NEW M, NEW cap \in Nat PROVE Empty \in Channel(M, cap)
BY DEF Empty, Channel

-----------------------------------------------------------------------------
(* Types *)

\* What each group of variables may hold, without the clauses that relate
\* them.
WorldOK ==
    /\ dev \in [Ifaces -> [idx : Indexes, up : BOOLEAN]]
    /\ ifq \in Channel([name : Ifaces, up : BOOLEAN], IfCap)
    /\ cfg \in Configs /\ dirty \in BOOLEAN
    /\ env \in [pc : {"lookup", "subscribe", "boot", "loop", "over"},
                applied : Configs, todo : SUBSET Receivers]
    /\ stop \in BOOLEAN
    /\ spent \in [saves : 0..MaxSaves, deaths : 0..MaxDeaths,
                  index : 0..MaxIndex, acquired : 0..MaxAcquired]
LinkOK == link \in [carrier : Indexes, phase : Phases, epoch : Nat]
InboxOK == inbox \in [Receivers -> Channel(Receivers, Cap)]
SupOK ==
    /\ sup \in [pc : SupPcs, want : Wanted]
    /\ sup.pc \in {"carrier", "attach"} <=> sup.want.v4 # "none"
    /\ vrun \in [on : BOOLEAN, stop : BOOLEAN, v4 : Modes \cup {"none"},
                 pub : BOOLEAN, idx : Indexes, held : BOOLEAN]
SecOK ==
    /\ sec \in [Sections -> [pc : SecPcs, cfg : 0..Versions]]
    /\ \A s \in Sections : sec[s].pc \in {"wait", "snap"} <=> sec[s].cfg # 0
    /\ srun \in [Sections -> [on : BOOLEAN, stop : BOOLEAN,
                              cfg : 0..Versions, epoch : Nat,
                              phase : Phases]]

\* The type invariant, in the parts that the groups of steps disturb.
LEMMA TypeParts == TypeOK <=> WorldOK /\ LinkOK /\ InboxOK /\ SupOK /\ SecOK
BY DEF TypeOK, WorldOK, LinkOK, InboxOK, SupOK, SecOK

\* A link that has not started is well typed.
LEMMA TypeInit == Init => TypeOK
<1> SUFFICES ASSUME Init PROVE WorldOK /\ LinkOK /\ InboxOK /\ SupOK /\ SecOK
  BY TypeParts
<1>1. WorldOK
  <2>1. ifq \in Channel([name : Ifaces, up : BOOLEAN], IfCap)
    BY EmptyType, WanLinkAssumption DEF Init
  <2>2. dev \in [Ifaces -> [idx : Indexes, up : BOOLEAN]]
    <3>1. 0 \in Indexes /\ 1 \in Indexes
      BY WanLinkAssumption DEF Indexes
    <3> QED  BY <3>1 DEF Init
  <2>3. spent \in [saves : 0..MaxSaves, deaths : 0..MaxDeaths,
                  index : 0..MaxIndex, acquired : 0..MaxAcquired]
    BY WanLinkAssumption DEF Init
  <2>4. cfg \in Configs
    BY BootsAssumption DEF Init
  <2>5. env \in [pc : {"lookup", "subscribe", "boot", "loop", "over"},
                applied : Configs, todo : SUBSET Receivers]
    BY <2>4 DEF Init
  <2> QED  BY <2>1, <2>2, <2>3, <2>4, <2>5 DEF Init, WorldOK
<1>2. LinkOK
  BY WanLinkAssumption DEF Init, LinkOK, Indexes, Phases, Down
<1>3. InboxOK
  BY EmptyType, WanLinkAssumption DEF Init, InboxOK
<1>4. SupOK
  BY WanLinkAssumption DEF Init, SupOK, SupPcs, Wanted, NoWant, NoVrun, Indexes
<1>5. SecOK
  BY WanLinkAssumption DEF Init, SecOK, SecPcs, NoSrun, Phases, Indexes, Down
<1> QED  BY <1>1, <1>2, <1>3, <1>4, <1>5

\* The constant records of the initial state are well typed.
LEMMA ConstTypes ==
    /\ Down \in Phases /\ NoWant \in Wanted
    /\ NoVrun \in [on : BOOLEAN, stop : BOOLEAN, v4 : Modes \cup {"none"},
                   pub : BOOLEAN, idx : Indexes, held : BOOLEAN]
    /\ NoSrun \in [on : BOOLEAN, stop : BOOLEAN, cfg : 0..Versions,
                   epoch : Nat, phase : Phases]
    /\ NoWant.v4 = "none" /\ "none" \notin Modes /\ 0 \in 0..Versions
<1>1. 0 \in Indexes /\ 0 \in 0..Leases /\ 0 \in 0..Versions
  BY WanLinkAssumption DEF Indexes
<1>2. "none" \notin Modes
  BY WanLinkAssumption DEF AllModes
<1>3. Down \in Phases
  BY <1>1 DEF Down, Phases
<1> QED  BY <1>1, <1>2, <1>3 DEF NoWant, Wanted, NoVrun, NoSrun

\* Publishing a session keeps the link state well typed.
LEMMA SessionUpType ==
    ASSUME LinkOK, NEW i \in Indexes, NEW l \in 0..Leases
    PROVE  session_up(i, l) \in [carrier : Indexes, phase : Phases, epoch : Nat]
<1> DEFINE u == Up(i, l)
<1>1. u \in Phases
  BY DEF Up, Phases
<1>2. link.epoch + 1 \in Nat /\ link.carrier \in Indexes
  BY DEF LinkOK
<1> QED  BY <1>1, <1>2 DEF LinkOK, session_up

\* Kernel, operator and failing runs keep the types.
LEMMA TypeWorld == TypeOK /\ World => TypeOK'
<1> SUFFICES ASSUME TypeOK, World PROVE TypeOK'
  OBVIOUS
<1> USE WanLinkAssumption
<1>a. \A n \in Ifaces, up \in BOOLEAN :
        Emit(n, up) => ifq' \in Channel([name : Ifaces, up : BOOLEAN], IfCap)
  <2> SUFFICES ASSUME NEW n \in Ifaces, NEW up \in BOOLEAN, Emit(n, up)
               PROVE  ifq' \in Channel([name : Ifaces, up : BOOLEAN], IfCap)
    OBVIOUS
  <2>1. [name |-> n, up |-> up] \in [name : Ifaces, up : BOOLEAN]
    OBVIOUS
  <2>2. ifq \in Channel([name : Ifaces, up : BOOLEAN], IfCap)
    BY DEF TypeOK
  <2>3. Push(ifq, [name |-> n, up |-> up], IfCap)
            \in Channel([name : Ifaces, up : BOOLEAN], IfCap)
    BY <2>1, <2>2, PushType
  <2> QED  BY <2>2, <2>3 DEF Emit
<1>1. ASSUME NEW n \in Ifaces, DevUp(n) PROVE TypeOK'
  <2>1. ifq' \in Channel([name : Ifaces, up : BOOLEAN], IfCap)
    BY <1>1, <1>a DEF DevUp
  <2>2. CASE dev[n].idx # 0 /\ dev' = SetFlag(n, TRUE) /\ spent' = spent
    BY <1>1, <2>1, <2>2 DEF DevUp, TypeOK, SetFlag
  <2>3. CASE /\ dev[n].idx = 0 /\ spent.index < MaxIndex
             /\ dev' = [dev EXCEPT ![n] = [idx |-> spent.index + 1, up |-> TRUE]]
             /\ spent' = [spent EXCEPT !.index = @ + 1]
    <3>1. spent.index + 1 \in 0..MaxIndex
      BY <2>3 DEF TypeOK
    <3>2. [idx |-> spent.index + 1, up |-> TRUE] \in [idx : Indexes, up : BOOLEAN]
      BY <3>1 DEF Indexes
    <3>3. dev' \in [Ifaces -> [idx : Indexes, up : BOOLEAN]]
      BY <2>3, <3>2 DEF TypeOK
    <3>4. spent' \in [saves : 0..MaxSaves, deaths : 0..MaxDeaths,
                     index : 0..MaxIndex, acquired : 0..MaxAcquired]
      BY <2>3, <3>1 DEF TypeOK
    <3> QED  BY <1>1, <2>1, <3>3, <3>4 DEF DevUp, TypeOK
  <2> QED  BY <1>1, <2>2, <2>3 DEF DevUp
<1>2. ASSUME NEW n \in Ifaces, DevDown(n) PROVE TypeOK'
  <2>1. ifq' \in Channel([name : Ifaces, up : BOOLEAN], IfCap)
    BY <1>2, <1>a DEF DevDown
  <2>2. dev' \in [Ifaces -> [idx : Indexes, up : BOOLEAN]]
    BY <1>2 DEF DevDown, TypeOK, SetFlag
  <2>3. spent' \in [saves : 0..MaxSaves, deaths : 0..MaxDeaths,
                   index : 0..MaxIndex, acquired : 0..MaxAcquired]
    BY <1>2 DEF DevDown, TypeOK
  <2> QED  BY <1>2, <2>1, <2>2, <2>3, ZenonT(60) DEF DevDown, TypeOK
<1>3. ASSUME NEW n \in Ifaces, DevGone(n) PROVE TypeOK'
  BY <1>3 DEF DevGone, TypeOK, Indexes
<1>4. CASE Save
  BY <1>4 DEF Save, TypeOK
<1>5. CASE RequestStop
  BY <1>5 DEF RequestStop, TypeOK
<1>6. CASE V4Acquires
  <2>1. LinkOK'
    <3>1. PICK l \in 1..Leases : link' = session_up(vrun.idx, l)
      BY <1>6 DEF V4Acquires
    <3>2. vrun.idx \in Indexes /\ l \in 0..Leases /\ LinkOK
      BY DEF TypeOK, LinkOK
    <3> QED  BY <3>1, <3>2, SessionUpType DEF LinkOK
  <2>2. spent' \in [saves : 0..MaxSaves, deaths : 0..MaxDeaths,
                   index : 0..MaxIndex, acquired : 0..MaxAcquired]
    BY <1>6 DEF V4Acquires, TypeOK
  <2> QED  BY <1>6, <2>1, <2>2 DEF V4Acquires, TypeOK, LinkOK
<1>7. CASE V4Loses
  BY <1>7, ConstTypes DEF V4Loses, TypeOK, session_down
<1>8. CASE V4Dies
  <2>1. spent' \in [saves : 0..MaxSaves, deaths : 0..MaxDeaths,
                   index : 0..MaxIndex, acquired : 0..MaxAcquired]
    BY <1>8 DEF V4Dies, TypeOK
  <2> QED  BY <1>8, <2>1 DEF V4Dies, TypeOK
<1>9. ASSUME NEW s \in Sections, SrunDies(s) PROVE TypeOK'
  <2>1. spent' \in [saves : 0..MaxSaves, deaths : 0..MaxDeaths,
                   index : 0..MaxIndex, acquired : 0..MaxAcquired]
    BY <1>9 DEF SrunDies, TypeOK
  <2>2. SecOK'
    BY <1>9 DEF SrunDies, TypeOK, SecOK, Over
  <2> QED  BY <1>9, <2>1, <2>2 DEF SrunDies, TypeOK, SecOK
<1> QED  BY <1>1, <1>2, <1>3, <1>4, <1>5, <1>6, <1>7, <1>8, <1>9 DEF World

\* start and run_environment keep the types.
LEMMA TypeEnv == TypeOK /\ EnvStep => TypeOK'
<1> SUFFICES ASSUME TypeOK, EnvStep PROVE TypeOK'
  OBVIOUS
<1> USE WanLinkAssumption
<1>a. 0 \in Indexes /\ \A n \in Ifaces : dev[n].idx \in Indexes
  BY DEF TypeOK, Indexes
<1>b. cfg.att \in Ifaces /\ env.applied.att \in Ifaces
  BY DEF TypeOK, Configs
<1>c. ASSUME NEW i \in Indexes
      PROVE  set_carrier(i) \in [carrier : Indexes, phase : Phases, epoch : Nat]
  BY DEF TypeOK, set_carrier
<1>1. CASE StartLooksUp
  <2>1. LinkOK'
    BY <1>1, <1>a, <1>b, <1>c DEF StartLooksUp, LinkOK
  <2> QED  BY <1>1, <2>1 DEF StartLooksUp, TypeOK, LinkOK
<1>2. CASE StartSubscribes
  BY <1>2 DEF StartSubscribes, TypeOK
<1>3. CASE EnvBoots
  <2>1. LinkOK'
    BY <1>3, <1>a, <1>b, <1>c DEF EnvBoots, LinkOK, TypeOK
  <2> QED  BY <1>3, <2>1 DEF EnvBoots, TypeOK, LinkOK
<1>4. CASE EnvIface
  <2>1. LinkOK'
    BY <1>4, <1>a, <1>b, <1>c DEF EnvIface, CarrierAfter, LinkOK, TypeOK
  <2>2. ifq' \in Channel([name : Ifaces, up : BOOLEAN], IfCap)
    BY <1>4, PopType DEF EnvIface, TypeOK
  <2> QED  BY <1>4, <2>1, <2>2 DEF EnvIface, TypeOK, LinkOK
<1>5. CASE EnvConfig
  <2>1. LinkOK'
    BY <1>5, <1>a, <1>b, <1>c DEF EnvConfig, LinkOK, TypeOK
  <2>2. env' \in [pc : {"lookup", "subscribe", "boot", "loop", "over"},
                  applied : Configs, todo : SUBSET Receivers]
    BY <1>5 DEF EnvConfig, TypeOK, config_change_tags
  <2> QED  BY <1>5, <2>1, <2>2 DEF EnvConfig, TypeOK, LinkOK
<1>6. CASE EnvSends
  <2>1. PICK t \in Receivers :
           /\ t \in env.todo
           /\ inbox' = [r \in Receivers |-> Push(inbox[r], t, Cap)]
           /\ env' = [env EXCEPT !.todo = @ \ {t}]
    BY <1>6 DEF EnvSends, TypeOK
  <2>2. \A r \in Receivers : Push(inbox[r], t, Cap) \in Channel(Receivers, Cap)
    BY PushType DEF TypeOK
  <2>3. InboxOK'
    BY <2>1, <2>2 DEF InboxOK
  <2> QED  BY <1>6, <2>1, <2>3 DEF EnvSends, TypeOK, InboxOK
<1>7. CASE EnvStops
  <2>1. ifq' \in Channel([name : Ifaces, up : BOOLEAN], IfCap)
    BY <1>7, EmptyType DEF EnvStops
  <2> QED  BY <1>7, <2>1 DEF EnvStops, TypeOK
<1> QED  BY <1>1, <1>2, <1>3, <1>4, <1>5, <1>6, <1>7 DEF EnvStep

\* One receive by one receiver.
LEMMA InboxPop ==
    ASSUME InboxOK, NEW r \in Receivers, ~IsEmpty(inbox[r]),
           inbox' = [inbox EXCEPT ![r] = Pop(@)]
    PROVE  InboxOK'
<1>1. Pop(inbox[r]) \in Channel(Receivers, Cap)
  BY PopType, WanLinkAssumption DEF InboxOK
<1> QED  BY <1>1 DEF InboxOK

\* What recv can return comes from a channel that is not empty.
LEMMA NotEmpty ==
    ASSUME NEW c, NEW m
    PROVE  /\ NextIs(c, m) => ~IsEmpty(c)
           /\ NextIsNot(c, m) => ~IsEmpty(c)
           /\ Lagged(c) => ~IsEmpty(c)
BY DEF NextIs, NextIsNot, Lagged, IsEmpty

\* run_v4_supervisor and the v4 run keep the types.
LEMMA TypeSup == TypeOK /\ (SupStep \/ VrunStep) => TypeOK'
<1> SUFFICES ASSUME TypeOK, SupStep \/ VrunStep
             PROVE  WorldOK' /\ LinkOK' /\ InboxOK' /\ SupOK' /\ SecOK'
  BY TypeParts DEF TypeOK, WorldOK, LinkOK, InboxOK, SupOK, SecOK
<1>t. WorldOK /\ LinkOK /\ InboxOK /\ SupOK /\ SecOK /\ "V4" \in Receivers
  BY TypeParts DEF Receivers
<1>d. session_down \in [carrier : Indexes, phase : Phases, epoch : Nat]
  BY <1>t, ConstTypes DEF session_down, LinkOK
<1>i. ASSUME NEW p \in SupPcs \ {"carrier", "attach"}, SupIdle(p)
      PROVE  sup' \in [pc : SupPcs, want : Wanted]
             /\ (sup'.pc \in {"carrier", "attach"} <=> sup'.want.v4 # "none")
  BY <1>i, ConstTypes DEF SupIdle
<1>w. /\ UNCHANGED <<dev, ifq, cfg, dirty, env, stop, spent>> => WorldOK'
      /\ UNCHANGED link => LinkOK'
      /\ UNCHANGED inbox => InboxOK'
      /\ UNCHANGED <<sec, srun>> => SecOK'
  BY <1>t DEF WorldOK, LinkOK, InboxOK, SecOK
<1> USE DEF SupPcs
<1>1. CASE SupTop
  <2>1. CASE Active(cfg)
    <3>1. cfg.v4 \in Modes /\ cfg.v4 # "none"
      BY <1>t, ConstTypes DEF WorldOK, Configs
    <3>2. Publishes(cfg) \in BOOLEAN
      BY DEF Publishes, Acquires, PdOn
    <3> QED  BY <1>1, <2>1, <1>w, <1>t, <3>1, <3>2 DEF SupTop, SupOK, Wanted
  <2>2. CASE ~Active(cfg)
    BY <1>1, <2>2, <1>w, <1>t, <1>i DEF SupTop, SupOK
  <2> QED  BY <2>1, <2>2
<1>2. CASE SupWakes
  BY <1>2, <1>w, <1>t, <1>i, InboxPop DEF SupWakes, SupOK
<1>3. CASE SupGivesUp
  BY <1>3, <1>w, <1>t, <1>i DEF SupGivesUp, SupOK
<1>4. CASE SupSeesCarrier
  BY <1>4, <1>w, <1>t DEF SupSeesCarrier, SupOK
<1>5. CASE SupAttaches
  <2>1. sup.want.v4 \in Modes \cup {"none"} /\ sup.want.pub \in BOOLEAN
    BY <1>t DEF SupOK, Wanted
  <2>2. CASE link.carrier = 0
    BY <1>5, <2>2, <1>w, <1>t, <1>i DEF SupAttaches, SupOK
  <2>3. CASE link.carrier # 0
    <3>1. vrun' \in [on : BOOLEAN, stop : BOOLEAN, v4 : Modes \cup {"none"},
                    pub : BOOLEAN, idx : Indexes, held : BOOLEAN]
      <4> DEFINE v == sup.want.v4  b == sup.want.pub  c == link.carrier
      <4>1. vrun' = [on |-> TRUE, stop |-> FALSE, v4 |-> v, pub |-> b,
                     idx |-> c, held |-> FALSE]
        BY <1>5, <2>3 DEF SupAttaches
      <4>2. v \in Modes \cup {"none"} /\ b \in BOOLEAN /\ c \in Indexes
        BY <2>1, <1>t DEF LinkOK
      <4> HIDE DEF v, b, c
      <4> QED  BY <4>1, <4>2
    <3>2. SupIdle("run")
      BY <1>5, <2>3 DEF SupAttaches
    <3> QED  BY <1>5, <3>1, <3>2, <1>w, <1>i DEF SupAttaches, SupOK
  <2> QED  BY <2>2, <2>3
<1>6. CASE SupStops
  BY <1>6, <1>w, <1>t, <1>i DEF SupStops, SupOK
<1>7. CASE SupRestarts
  <2>1. InboxOK'
    BY <1>7, <1>w, <1>t, InboxPop, NotEmpty DEF SupRestarts
  <2>2. LinkOK'
    BY <1>7, <1>d DEF SupRestarts, LinkOK
  <2> QED  BY <1>7, <2>1, <2>2, <1>w, <1>t, <1>i DEF SupRestarts, SupOK
<1>8. CASE SupIgnores
  <2>1. InboxOK'
    BY <1>8, <1>t, InboxPop, NotEmpty DEF SupIgnores
  <2> QED  BY <1>8, <2>1, <1>w, <1>t DEF SupIgnores, SupOK
<1>9. CASE SupEnded
  <2>1. LinkOK'
    BY <1>9, <1>d DEF SupEnded, LinkOK
  <2> QED  BY <1>9, <2>1, <1>w, <1>t, <1>i, ConstTypes DEF SupEnded, SupOK
<1>10. CASE SupWaited
  BY <1>10, <1>w, <1>t, <1>i, ConstTypes DEF SupWaited, SupOK
<1>11. CASE SupRetries
  BY <1>11, <1>w, <1>t, <1>i DEF SupRetries, SupOK
<1>12. CASE V4Anchors
  <2>1. vrun.idx \in Indexes /\ 0 \in 0..Leases
    BY <1>t, WanLinkAssumption DEF SupOK
  <2>2. LinkOK'
    BY <1>12, <2>1, <1>t, SessionUpType DEF V4Anchors, LinkOK
  <2> QED  BY <1>12, <2>2, <1>w, <1>t DEF V4Anchors, SupOK
<1>13. CASE V4Stops
  <2>1. LinkOK'
    BY <1>13, <1>d, <1>t DEF V4Stops, LinkOK
  <2> QED  BY <1>13, <2>1, <1>w, <1>t DEF V4Stops, SupOK
<1> QED  BY <1>1, <1>2, <1>3, <1>4, <1>5, <1>6, <1>7, <1>8, <1>9, <1>10,
            <1>11, <1>12, <1>13 DEF SupStep, VrunStep

\* run_dependent_section keeps the types.
LEMMA TypeSec ==
    ASSUME TypeOK, NEW s \in Sections, SecStep(s) \/ SrunStops(s)
    PROVE  TypeOK'
<1> SUFFICES WorldOK' /\ LinkOK' /\ InboxOK' /\ SupOK' /\ SecOK'
  BY TypeParts DEF TypeOK, WorldOK, LinkOK, InboxOK, SupOK, SecOK
<1>t. WorldOK /\ LinkOK /\ InboxOK /\ SupOK /\ SecOK /\ s \in Receivers
  BY TypeParts DEF Receivers
<1> DEFINE SecT == [pc : SecPcs, cfg : 0..Versions]
           RunT == [on : BOOLEAN, stop : BOOLEAN, cfg : 0..Versions,
                    epoch : Nat, phase : Phases]
           Good(v) == v.pc \in {"wait", "snap"} <=> v.cfg # 0
<1>w. /\ UNCHANGED <<dev, ifq, cfg, dirty, env, stop, spent>> => WorldOK'
      /\ UNCHANGED link => LinkOK'
      /\ UNCHANGED inbox => InboxOK'
      /\ UNCHANGED <<sup, vrun>> => SupOK'
  BY <1>t DEF WorldOK, LinkOK, InboxOK, SupOK
<1>x. ASSUME NEW v \in SecT, Good(v), sec' = [sec EXCEPT ![s] = v]
      PROVE  sec' \in [Sections -> SecT] /\ \A z \in Sections : Good(sec'[z])
  <2>1. sec \in [Sections -> SecT] /\ \A z \in Sections : Good(sec[z])
    BY <1>t DEF SecOK
  <2> HIDE DEF SecT, Good
  <2>2. sec' \in [Sections -> SecT] /\ \A z \in Sections : sec'[z] = IF z = s THEN v ELSE sec[z]
    BY <1>x, <2>1
  <2> QED  BY <1>x, <2>1, <2>2
<1>y. ASSUME NEW v \in RunT, srun' = [srun EXCEPT ![s] = v]
      PROVE  srun' \in [Sections -> RunT]
  <2>1. srun \in [Sections -> RunT]
    BY <1>t DEF SecOK
  <2> HIDE DEF RunT
  <2> QED  BY <1>y, <2>1
<1>z. sec' \in [Sections -> SecT] /\ (\A z \in Sections : Good(sec'[z]))
        /\ srun' \in [Sections -> RunT] => SecOK'
  BY DEF SecOK
<1>u. /\ srun' = srun => srun' \in [Sections -> RunT]
      /\ sec' = sec => sec' \in [Sections -> SecT] /\ \A z \in Sections : Good(sec'[z])
  BY <1>t DEF SecOK
<1>c. sec[s].cfg \in 0..Versions /\ cfg.sec[s] \in 0..Versions /\ srun[s] \in RunT
      /\ Cancelled(srun[s]) \in RunT /\ Over(srun[s]) \in RunT
      /\ (sec[s].pc \in {"wait", "snap"} => sec[s].cfg # 0)
  BY <1>t DEF SecOK, WorldOK, Configs, Cancelled, Over
<1>n. NoSrun \in RunT
  BY ConstTypes
<1>i. ASSUME NEW p \in SecPcs \ {"wait", "snap"}, SecAt(s, p)
      PROVE  sec' \in [Sections -> SecT] /\ \A z \in Sections : Good(sec'[z])
  <2>1. [pc |-> p, cfg |-> 0] \in SecT /\ Good([pc |-> p, cfg |-> 0])
    BY ConstTypes
  <2> HIDE DEF SecT, Good
  <2> QED  BY <1>i, <2>1, <1>x DEF SecAt
<1>j. ASSUME NEW p \in {"wait", "snap"}, NEW v \in 0..Versions, v # 0,
             sec' = [sec EXCEPT ![s] = [pc |-> p, cfg |-> v]]
      PROVE  sec' \in [Sections -> SecT] /\ \A z \in Sections : Good(sec'[z])
  <2>1. [pc |-> p, cfg |-> v] \in SecT /\ Good([pc |-> p, cfg |-> v])
    BY <1>j DEF SecPcs
  <2> HIDE DEF SecT, Good
  <2> QED  BY <1>j, <2>1, <1>x
<1> HIDE DEF SecT, RunT, Good
<1> USE DEF SecPcs
<1>1. CASE SecTop(s)
  BY <1>1, <1>w, <1>z, <1>u, <1>i, <1>j, <1>c DEF SecTop, Enabled
<1>2. CASE SecWakes(s)
  BY <1>2, <1>w, <1>t, <1>z, <1>u, <1>i, InboxPop DEF SecWakes
<1>3. CASE SecGivesUp(s)
  BY <1>3, <1>w, <1>z, <1>u, <1>i DEF SecGivesUp
<1>4. CASE SecSeesSession(s)
  BY <1>4, <1>w, <1>z, <1>u, <1>j, <1>c DEF SecSeesSession
<1>5. CASE SecAttaches(s)
  <2>1. CASE ~link.phase.up
    BY <1>5, <2>1, <1>w, <1>z, <1>u, <1>i DEF SecAttaches
  <2>2. CASE link.phase.up
    <3>1. [on |-> TRUE, stop |-> FALSE, cfg |-> sec[s].cfg,
           epoch |-> link.epoch, phase |-> link.phase] \in RunT
      BY <1>t, <1>c DEF LinkOK, RunT
    <3> QED  BY <1>5, <2>2, <3>1, <1>w, <1>z, <1>y, <1>i DEF SecAttaches
  <2> QED  BY <2>1, <2>2
<1>6. CASE SecStops(s)
  BY <1>6, <1>w, <1>z, <1>y, <1>c, <1>i DEF SecStops
<1>7. CASE SecRestarts(s)
  <2>1. InboxOK'
    BY <1>7, <1>w, <1>t, InboxPop, NotEmpty DEF SecRestarts
  <2> QED  BY <1>7, <2>1, <1>w, <1>z, <1>y, <1>c, <1>i DEF SecRestarts
<1>8. CASE SecIgnores(s)
  <2>1. InboxOK'
    BY <1>8, <1>t, InboxPop, NotEmpty DEF SecIgnores
  <2> QED  BY <1>8, <2>1, <1>w, <1>z, <1>u DEF SecIgnores
<1>9. CASE SecEnded(s)
  BY <1>9, <1>w, <1>z, <1>y, <1>n, <1>i DEF SecEnded
<1>10. CASE SecWaited(s)
  BY <1>10, <1>w, <1>z, <1>y, <1>n, <1>i DEF SecWaited
<1>11. CASE SecRetries(s)
  BY <1>11, <1>w, <1>z, <1>u, <1>i DEF SecRetries
<1>12. CASE SrunStops(s)
  BY <1>12, <1>w, <1>z, <1>u, <1>y, <1>c DEF SrunStops
<1> QED  BY <1>1, <1>2, <1>3, <1>4, <1>5, <1>6, <1>7, <1>8, <1>9, <1>10,
            <1>11, <1>12 DEF SecStep

\* The type invariant is inductive.
LEMMA TypeNext == TypeOK /\ [Next]_vars => TypeOK'
<1>1. TypeOK /\ UNCHANGED vars => TypeOK'
  BY DEF TypeOK, vars
<1> QED  BY <1>1, TypeWorld, TypeEnv, TypeSup, TypeSec DEF Next

\* Every reachable state is well typed: channels stay within their capacity,
\* and a section waits for a session only with a configuration that enables
\* it, whatever the number of sections, interfaces, saves and failures.
THEOREM TypeCorrect == Spec => []TypeOK
BY TypeInit, TypeNext, PTL DEF Spec

-----------------------------------------------------------------------------
(* Ownership *)

AcquiringModes == {"lease", "ppp"}

\* NoOverlap and SessionOwned, with what keeps them true: a run that acquires
\* publishes, so its stop takes the session down; a run that is waited for has
\* its token cancelled; the environment task and a supervisor stop only when
\* the link does.
Owned ==
    /\ vrun.on => sup.pc \in {"run", "restarting", "stopping"}
    /\ SessionOwned
    /\ env.pc = "over" => stop
    /\ sup.pc = "stopping" => stop
    /\ sup.pc \in {"restarting", "stopping"} => vrun.stop
    /\ sup.want.v4 \in AcquiringModes => sup.want.pub
    /\ vrun.v4 \in AcquiringModes => vrun.pub
    /\ link.phase.up /\ ~stop => vrun.pub

SecOwned == \A s \in Sections :
    srun[s].on => sec[s].pc \in {"run", "restarting", "stopping"}

Epochs == \A s \in Sections :
    srun[s].on => /\ srun[s].epoch <= link.epoch
                  /\ link.phase.up /\ srun[s].epoch = link.epoch
                         => srun[s].phase = link.phase

\* Before start there is no session and no run to own it.
LEMMA OwnedInit == Init => Owned /\ SecOwned /\ Epochs
BY DEF Init, Owned, SecOwned, Epochs, SessionOwned, Down, NoVrun, NoSrun,
       NoWant, AcquiringModes

\* What session_up does to the link state.
LEMMA SessionUpFacts ==
    ASSUME LinkOK, NEW i, NEW l
    PROVE  /\ session_up(i, l).phase = Up(i, l)
           /\ \/ session_up(i, l) = link
              \/ session_up(i, l).epoch = link.epoch + 1
           /\ Up(i, l).up /\ Up(i, l).idx = i
BY DEF session_up, Up, LinkOK

\* session_down touches neither epoch nor carrier.
LEMMA SessionDownFacts ==
    ASSUME LinkOK
    PROVE  ~session_down.phase.up /\ session_down.epoch = link.epoch
           /\ session_down.carrier = link.carrier
BY DEF session_down, LinkOK, Down

\* set_carrier leaves the session alone.
LEMMA CarrierFacts ==
    ASSUME LinkOK, NEW i
    PROVE  set_carrier(i).phase = link.phase /\ set_carrier(i).epoch = link.epoch
BY DEF set_carrier, LinkOK

\* Ownership of the session is inductive.
LEMMA OwnedNext == TypeOK /\ Owned /\ [Next]_vars => Owned'
<1> SUFFICES ASSUME TypeOK, Owned, [Next]_vars PROVE Owned'
  OBVIOUS
<1>t. LinkOK /\ SupOK
  BY TypeParts
<1>d. ~session_down.phase.up
  BY <1>t, SessionDownFacts
<1>c. \A i : set_carrier(i).phase = link.phase
  BY <1>t, CarrierFacts
<1> USE DEF Owned, SessionOwned
<1>1. ASSUME NEW n \in Ifaces, DevUp(n) \/ DevDown(n) \/ DevGone(n) PROVE Owned'
  BY <1>1 DEF DevUp, DevDown, DevGone
<1>2. CASE Save
  BY <1>2 DEF Save
<1>3. CASE RequestStop
  BY <1>3 DEF RequestStop
<1>4. CASE V4Acquires
  <2>1. PICK l : link' = session_up(vrun.idx, l)
    BY <1>4 DEF V4Acquires
  <2>2. link'.phase.idx = vrun.idx
    BY <2>1, <1>t, SessionUpFacts
  <2> QED  BY <1>4, <2>2 DEF V4Acquires, Acquiring, AcquiringModes
<1>5. CASE V4Loses
  BY <1>5, <1>d DEF V4Loses
<1>6. CASE V4Dies
  BY <1>6, <1>t DEF V4Dies, SupOK
<1>7. ASSUME NEW s \in Sections,
             SrunDies(s) \/ SecStep(s) \/ SrunStops(s) PROVE Owned'
  BY <1>7 DEF SrunDies, SecStep, SrunStops, SecTop, SecWakes, SecGivesUp,
     SecSeesSession, SecAttaches, SecStops, SecRestarts, SecIgnores, SecEnded,
     SecWaited, SecRetries
<1>8. CASE StartLooksUp \/ StartSubscribes \/ EnvBoots
  BY <1>8, <1>c DEF StartLooksUp, StartSubscribes, EnvBoots, TypeOK
<1>9. CASE EnvIface
  BY <1>9, <1>c DEF EnvIface, CarrierAfter
<1>10. CASE EnvConfig
  BY <1>10, <1>c DEF EnvConfig
<1>11. CASE EnvSends
  BY <1>11 DEF EnvSends, TypeOK
<1>12. CASE EnvStops
  BY <1>12 DEF EnvStops
<1>13. CASE SupTop
  <2>1. cfg.v4 \in AcquiringModes => Publishes(cfg)
    BY DEF Publishes, Acquires, AcquiringModes
  <2>2. sup'.want.v4 \in AcquiringModes => sup'.want.pub
    BY <1>13, <2>1 DEF SupTop, SupIdle, NoWant, AcquiringModes
  <2> QED  BY <1>13, <2>2 DEF SupTop, SupIdle
<1>14. CASE SupWakes \/ SupGivesUp \/ SupRetries
  BY <1>14 DEF SupWakes, SupGivesUp, SupRetries, SupIdle, NoWant, AcquiringModes
<1>15. CASE SupSeesCarrier
  BY <1>15, <1>t DEF SupSeesCarrier, SupOK
<1>16. CASE SupAttaches
  BY <1>16 DEF SupAttaches, SupIdle, NoWant, AcquiringModes
<1>17. CASE SupStops
  BY <1>17, <1>t DEF SupStops, SupIdle, NoWant, AcquiringModes, Closed, SupOK
<1>18. CASE SupRestarts
  BY <1>18, <1>t, <1>d DEF SupRestarts, SupIdle, NoWant, AcquiringModes, SupOK
<1>19. CASE SupIgnores
  BY <1>19 DEF SupIgnores
<1>20. CASE SupEnded
  BY <1>20, <1>d DEF SupEnded, SupIdle, NoWant, NoVrun, AcquiringModes
<1>21. CASE SupWaited
  BY <1>21 DEF SupWaited, SupIdle, NoWant, NoVrun, AcquiringModes
<1>22. CASE V4Anchors
  <2>1. CASE vrun.pub
    <3>1. link'.phase.idx = vrun.idx
      BY <1>22, <2>1, <1>t, SessionUpFacts DEF V4Anchors
    <3> QED  BY <1>22, <2>1, <3>1, <1>t DEF V4Anchors, SupOK
  <2>2. CASE ~vrun.pub
    BY <1>22, <2>2, <1>t DEF V4Anchors, SupOK
  <2> QED  BY <2>1, <2>2
<1>23. CASE V4Stops
  BY <1>23, <1>t, <1>d DEF V4Stops, SupOK
<1>24. CASE UNCHANGED vars
  BY <1>24 DEF vars
<1> QED  BY <1>1, <1>2, <1>3, <1>4, <1>5, <1>6, <1>7, <1>8, <1>9, <1>10, <1>11,
            <1>12, <1>13, <1>14, <1>15, <1>16, <1>17, <1>18, <1>19, <1>20,
            <1>21, <1>22, <1>23, <1>24
         DEF Next, World, EnvStep, SupStep, VrunStep

\* That a dependent run lives only under its supervisor is inductive.
LEMMA SecOwnedNext == TypeOK /\ SecOwned /\ [Next]_vars => SecOwned'
<1> SUFFICES ASSUME TypeOK, SecOwned, [Next]_vars PROVE SecOwned'
  OBVIOUS
<1>t. /\ sec \in [Sections -> [pc : SecPcs, cfg : 0..Versions]]
      /\ DOMAIN srun = Sections
  BY DEF TypeOK
<1>1. CASE UNCHANGED <<sec, srun>>
  BY <1>1 DEF SecOwned
<1>2. ASSUME NEW s \in Sections, SecStep(s) \/ SrunStops(s) \/ SrunDies(s)
      PROVE  SecOwned'
  <2>1. \A z \in Sections : z # s => sec'[z] = sec[z] /\ srun'[z] = srun[z]
    BY <1>2, <1>t DEF SrunDies, SecStep, SrunStops, SecTop, SecWakes, SecGivesUp,
       SecSeesSession, SecAttaches, SecStops, SecRestarts, SecIgnores, SecEnded,
       SecWaited, SecRetries, SecAt
  <2>2. srun'[s].on => sec'[s].pc \in {"run", "restarting", "stopping"}
    <3>1. CASE SecTop(s) \/ SecWakes(s) \/ SecGivesUp(s) \/ SecSeesSession(s)
               \/ SecRetries(s)
      BY <3>1, <1>t DEF SecOwned, SecTop, SecWakes, SecGivesUp, SecSeesSession,
         SecRetries
    <3>2. CASE SecAttaches(s)
      BY <3>2, <1>t DEF SecOwned, SecAttaches, SecAt
    <3>3. CASE SecStops(s) \/ SecRestarts(s)
      BY <3>3, <1>t DEF SecOwned, SecStops, SecRestarts, SecAt
    <3>4. CASE SecEnded(s) \/ SecWaited(s)
      BY <3>4, <1>t DEF SecEnded, SecWaited, NoSrun
    <3>5. CASE SecIgnores(s)
      BY <3>5 DEF SecIgnores, SecOwned
    <3>6. CASE SrunStops(s) \/ SrunDies(s)
      BY <3>6, <1>t DEF SrunStops, SrunDies, Over
    <3> QED  BY <1>2, <3>1, <3>2, <3>3, <3>4, <3>5, <3>6 DEF SecStep
  <2> QED  BY <2>1, <2>2 DEF SecOwned
<1>3. CASE EnvStep \/ SupStep \/ VrunStep
  BY <1>1, <1>3 DEF EnvStep, SupStep, VrunStep, StartLooksUp, StartSubscribes,
     EnvBoots, EnvIface, EnvConfig, EnvSends, EnvStops, SupTop, SupWakes,
     SupGivesUp, SupSeesCarrier, SupAttaches, SupStops, SupRestarts, SupIgnores,
     SupEnded, SupWaited, SupRetries, V4Anchors, V4Stops
<1>4. CASE World
  BY <1>1, <1>2, <1>4 DEF World, DevUp, DevDown, DevGone, Save, RequestStop,
     V4Acquires, V4Loses, V4Dies
<1>5. CASE UNCHANGED vars
  BY <1>1, <1>5 DEF vars
<1> QED  BY <1>2, <1>3, <1>4, <1>5 DEF Next

\* An epoch only grows, and grows whenever the session changes while up or
\* comes up again.
LEMMA EpochStep ==
    ASSUME TypeOK, [Next]_vars
    PROVE  \/ link'.epoch = link.epoch /\ link'.phase = link.phase
           \/ link'.epoch = link.epoch /\ ~link'.phase.up
           \/ link'.epoch = link.epoch + 1
<1>t. LinkOK
  BY TypeParts
<1>d. ~session_down.phase.up /\ session_down.epoch = link.epoch
  BY <1>t, SessionDownFacts
<1>c. \A i : set_carrier(i).phase = link.phase /\ set_carrier(i).epoch = link.epoch
  BY <1>t, CarrierFacts
<1>u. \A i, l : session_up(i, l) = link \/ session_up(i, l).epoch = link.epoch + 1
  BY <1>t, SessionUpFacts
<1>1. CASE UNCHANGED link
  BY <1>1
<1>2. CASE StartLooksUp \/ EnvBoots \/ EnvIface \/ EnvConfig
  BY <1>2, <1>c DEF StartLooksUp, EnvBoots, EnvIface, EnvConfig, CarrierAfter
<1>3. CASE SupRestarts \/ SupEnded \/ V4Loses \/ V4Stops
  BY <1>3, <1>d DEF SupRestarts, SupEnded, V4Loses, V4Stops
<1>4. CASE V4Anchors \/ V4Acquires
  BY <1>4, <1>u DEF V4Anchors, V4Acquires
<1>5. ASSUME NEW s \in Sections, SecStep(s) \/ SrunStops(s) \/ SrunDies(s)
      PROVE  UNCHANGED link
  BY <1>5 DEF SrunDies, SecStep, SrunStops, SecTop, SecWakes, SecGivesUp,
       SecSeesSession, SecAttaches, SecStops, SecRestarts, SecIgnores, SecEnded,
       SecWaited, SecRetries
<1>6. CASE StartSubscribes \/ EnvSends \/ EnvStops \/ SupTop \/ SupWakes
           \/ SupGivesUp \/ SupSeesCarrier \/ SupAttaches \/ SupStops
           \/ SupIgnores \/ SupWaited \/ SupRetries
  BY <1>1, <1>6 DEF StartSubscribes, EnvSends, EnvStops, SupTop, SupWakes,
     SupGivesUp, SupSeesCarrier, SupAttaches, SupStops, SupIgnores, SupWaited,
     SupRetries
<1>7. CASE Save \/ RequestStop \/ V4Dies \/ UNCHANGED vars
           \/ \E n \in Ifaces : DevUp(n) \/ DevDown(n) \/ DevGone(n)
  BY <1>1, <1>7 DEF Save, RequestStop, V4Dies, vars, DevUp, DevDown, DevGone
<1> QED  BY <1>1, <1>2, <1>3, <1>4, <1>5, <1>6, <1>7
         DEF Next, World, EnvStep, SupStep, VrunStep

\* A section's run keeps its epoch and its phase, and a new one takes both
\* from the link.
LEMMA RunStep ==
    ASSUME TypeOK, [Next]_vars, NEW z \in Sections, srun'[z].on
    PROVE  \/ /\ srun[z].on
              /\ srun'[z].epoch = srun[z].epoch /\ srun'[z].phase = srun[z].phase
           \/ /\ srun'[z].epoch = link.epoch /\ srun'[z].phase = link.phase
              /\ link' = link
<1>t. srun \in [Sections -> [on : BOOLEAN, stop : BOOLEAN, cfg : 0..Versions,
                             epoch : Nat, phase : Phases]]
  BY DEF TypeOK
<1>1. CASE UNCHANGED srun
  BY <1>1
<1>2. ASSUME NEW s \in Sections, SecStep(s) \/ SrunStops(s) \/ SrunDies(s)
      PROVE  \/ UNCHANGED srun
             \/ SecAttaches(s) /\ srun'[s].epoch = link.epoch
                /\ srun'[s].phase = link.phase /\ link' = link
                /\ \A y \in Sections : y # s => srun'[y] = srun[y]
             \/ /\ \A y \in Sections : y # s => srun'[y] = srun[y]
                /\ srun'[s].on => /\ srun[s].on
                                  /\ srun'[s].epoch = srun[s].epoch
                                  /\ srun'[s].phase = srun[s].phase
  <2>1. CASE SecTop(s) \/ SecWakes(s) \/ SecGivesUp(s) \/ SecSeesSession(s)
             \/ SecIgnores(s) \/ SecRetries(s)
    BY <2>1 DEF SecTop, SecWakes, SecGivesUp, SecSeesSession, SecIgnores,
       SecRetries
  <2>2. CASE SecAttaches(s)
    BY <2>2, <1>t DEF SecAttaches
  <2>3. CASE SecStops(s) \/ SecRestarts(s)
    BY <2>3, <1>t DEF SecStops, SecRestarts, Cancelled
  <2>4. CASE SecEnded(s) \/ SecWaited(s)
    BY <2>4, <1>t DEF SecEnded, SecWaited, NoSrun
  <2>5. CASE SrunStops(s) \/ SrunDies(s)
    BY <2>5, <1>t DEF SrunStops, SrunDies, Over
  <2> QED  BY <1>2, <2>1, <2>2, <2>3, <2>4, <2>5 DEF SecStep
<1>3. CASE EnvStep \/ SupStep \/ VrunStep
  BY <1>1, <1>3 DEF EnvStep, SupStep, VrunStep, StartLooksUp, StartSubscribes,
     EnvBoots, EnvIface, EnvConfig, EnvSends, EnvStops, SupTop, SupWakes,
     SupGivesUp, SupSeesCarrier, SupAttaches, SupStops, SupRestarts, SupIgnores,
     SupEnded, SupWaited, SupRetries, V4Anchors, V4Stops
<1>4. ASSUME NEW s \in Sections, SecStep(s) \/ SrunStops(s) \/ SrunDies(s)
      PROVE  \/ /\ srun[z].on
                /\ srun'[z].epoch = srun[z].epoch /\ srun'[z].phase = srun[z].phase
             \/ /\ srun'[z].epoch = link.epoch /\ srun'[z].phase = link.phase
                /\ link' = link
  <2>1. CASE z = s
    BY <2>1, <1>1, <1>2, <1>4
  <2>2. CASE z # s
    BY <2>2, <1>1, <1>2, <1>4
  <2> QED  BY <2>1, <2>2
<1>5. CASE World
  BY <1>1, <1>4, <1>5 DEF World, DevUp, DevDown, DevGone, Save, RequestStop,
     V4Acquires, V4Loses, V4Dies
<1>6. CASE UNCHANGED vars
  BY <1>1, <1>6 DEF vars
<1> QED  BY <1>3, <1>4, <1>5, <1>6 DEF Next

\* That an epoch names its session is inductive.
LEMMA EpochsNext == TypeOK /\ Epochs /\ [Next]_vars => Epochs'
<1> SUFFICES ASSUME TypeOK, Epochs, [Next]_vars, NEW z \in Sections, srun'[z].on
             PROVE  /\ srun'[z].epoch <= link'.epoch
                    /\ link'.phase.up /\ srun'[z].epoch = link'.epoch
                           => srun'[z].phase = link'.phase
  BY DEF Epochs
<1>1. link.epoch \in Nat /\ srun[z].epoch \in Nat
  BY DEF TypeOK
<1>2. CASE /\ srun[z].on
           /\ srun'[z].epoch = srun[z].epoch /\ srun'[z].phase = srun[z].phase
  BY <1>1, <1>2, EpochStep DEF Epochs
<1>3. CASE /\ srun'[z].epoch = link.epoch /\ srun'[z].phase = link.phase
           /\ link' = link
  BY <1>1, <1>3
<1> QED  BY <1>2, <1>3, RunStep

\* Types and ownership hold together.
LEMMA OwnershipInvariance == Spec => [](TypeOK /\ Owned /\ SecOwned /\ Epochs)
BY TypeInit, TypeNext, OwnedInit, OwnedNext, SecOwnedNext, EpochsNext, PTL DEF Spec

\* No supervisor goes on while its run is alive, for any interleaving of
\* restarts, deaths, tags, carrier changes and the link's stop.
THEOREM NeverOverlaps == Spec => []NoOverlap
<1>1. Owned /\ SecOwned => NoOverlap
  BY DEF Owned, SecOwned, NoOverlap
<1> QED  BY <1>1, OwnershipInvariance, PTL

\* Until the link stops, a session that is up belongs to the current v4 run
\* and names its interface.
THEOREM SessionIsOwned == Spec => []SessionOwned
<1>1. Owned => SessionOwned
  BY DEF Owned
<1> QED  BY <1>1, OwnershipInvariance, PTL

\* Comparing epochs is enough to notice every change of interface or lease.
THEOREM EpochIsIdentity == Spec => []EpochNamesSession
<1>1. Epochs => EpochNamesSession
  BY DEF Epochs, EpochNamesSession
<1> QED  BY <1>1, OwnershipInvariance, PTL

\* The four facts together: runs, session and epochs of a link are owned as
\* run_v4_supervisor and run_dependent_section intend, for every number of
\* sections, interfaces and saves, and whatever the channels lose.
THEOREM LinkSound == Spec => []LinkInv
BY TypeCorrect, NeverOverlaps, SessionIsOwned, EpochIsIdentity, PTL DEF LinkInv

-----------------------------------------------------------------------------
(* Notification *)

HasIn(q, m) == \E i \in 1..Len(q) : q[i] = m
HasTag(r) == HasIn(inbox[r].q, r)

\* No ring has overflowed a receiver.
NoLag == \A r \in Receivers : ~inbox[r].lag

\* The configuration a section acts upon, where it acts upon one.
Holding(s) == sec[s].pc \in {"disabled", "wait", "snap", "run"}
HeldCfg(s) == IF sec[s].pc = "run" THEN srun[s].cfg ELSE sec[s].cfg

\* A section that acts upon another configuration than the stored one: its
\* tag is on the way, or the environment task has yet to look and will find
\* the section's configuration changed.
SecNotified == \A s \in Sections :
    Holding(s) /\ HeldCfg(s) # cfg.sec[s] =>
        \/ s \in env.todo
        \/ HasTag(s)
        \/ dirty /\ HeldCfg(s) = env.applied.sec[s]

\* The same for the v4 supervisor, which acts upon the mode, and upon the
\* link being active at all.
Holding4 == sup.pc \in {"idle", "carrier", "attach", "run"}
Held4 == IF sup.pc = "run" THEN vrun.v4 ELSE sup.want.v4
Fits(c) == IF sup.pc = "idle" THEN ~Active(c) ELSE Active(c) /\ Held4 = c.v4

V4Notified ==
    Holding4 /\ ~Fits(cfg) =>
        \/ "V4" \in env.todo
        \/ HasTag("V4")
        \/ dirty /\ Fits(env.applied)

Synced == ~dirty => cfg = env.applied

Carried == vrun.on => vrun.idx # 0

Notified == SecNotified /\ V4Notified /\ Synced /\ Carried

\* Appending to a queue keeps what it has and adds the message.
LEMMA AppendHas ==
    ASSUME NEW M, NEW q \in Seq(M), NEW m \in M
    PROVE  HasIn(Append(q, m), m) /\ \A t : HasIn(q, t) => HasIn(Append(q, m), t)
<1>1. /\ Len(Append(q, m)) = Len(q) + 1 /\ Len(q) \in Nat
      /\ Append(q, m)[Len(q) + 1] = m
      /\ \A i \in 1..Len(q) : Append(q, m)[i] = q[i]
  OBVIOUS
<1> QED  BY <1>1 DEF HasIn

\* Taking the head keeps every message that differs from it.
LEMMA TailHas ==
    ASSUME NEW M, NEW q \in Seq(M), q # <<>>, NEW t, Head(q) # t, HasIn(q, t)
    PROVE  HasIn(Tail(q), t)
<1>1. PICK i \in 1..Len(q) : q[i] = t
  BY DEF HasIn
<1>2. Head(q) = q[1] /\ Len(q) \in Nat
  OBVIOUS
<1>3. i # 1
  BY <1>1, <1>2
<1>4. Len(Tail(q)) = Len(q) - 1 /\ i - 1 \in 1..(Len(q) - 1)
  BY <1>2, <1>3
<1>5. Tail(q)[i - 1] = q[i]
  BY <1>4
<1> QED  BY <1>1, <1>4, <1>5 DEF HasIn

\* A send without overflow reaches every receiver and loses nothing.
LEMMA SendReaches ==
    ASSUME InboxOK, NEW t \in Receivers, NEW r \in Receivers,
           inbox' = [x \in Receivers |-> Push(inbox[x], t, Cap)], NoLag'
    PROVE  /\ HasIn(inbox'[r].q, t)
           /\ HasTag(r) => HasTag(r)'
<1>1. inbox'[r] = Push(inbox[r], t, Cap) /\ ~inbox'[r].lag
  BY DEF NoLag
<1>2. inbox[r].q \in Seq(Receivers)
  BY DEF InboxOK, Channel
<1>3. inbox'[r].q = Append(inbox[r].q, t)
  BY <1>1 DEF Push
<1> DEFINE q == inbox[r].q
<1>4. HasIn(Append(q, t), t) /\ (HasIn(q, r) => HasIn(Append(q, t), r))
  <2>1. q \in Seq(Receivers)
    BY <1>2
  <2> HIDE DEF q
  <2> QED  BY <2>1, AppendHas
<1> QED  BY <1>3, <1>4 DEF HasTag

\* A receive that is not of the receiver's own tag keeps that tag.
LEMMA ReceiveKeeps ==
    ASSUME InboxOK, NoLag, NEW r \in Receivers,
           Lagged(inbox[r]) \/ NextIsNot(inbox[r], r),
           inbox' = [inbox EXCEPT ![r] = Pop(@)], HasTag(r)
    PROVE  HasTag(r)'
<1>1. NextIsNot(inbox[r], r) /\ ~inbox[r].lag
  BY DEF NoLag, Lagged
<1>2. inbox[r].q \in Seq(Receivers) /\ inbox[r].q # <<>> /\ Head(inbox[r].q) # r
  BY <1>1 DEF InboxOK, Channel, NextIsNot
<1>3. inbox'[r].q = Tail(inbox[r].q)
  BY <1>1 DEF Pop, InboxOK
<1> QED  BY <1>2, <1>3, TailHas DEF HasTag

\* Before start nobody holds a configuration.
LEMMA NotifiedInit == Init => Notified
<1>1. Init => SecNotified
  BY DEF Init, SecNotified, Holding
<1>2. Init => V4Notified
  BY DEF Init, V4Notified, Holding4
<1> QED  BY <1>1, <1>2 DEF Init, Notified, Synced, Carried, NoVrun

\* A step is silent for a section when it touches neither what the section
\* holds nor what the environment task owes it.
LEMMA SecSilent ==
    ASSUME SecNotified, UNCHANGED <<cfg, dirty, sec>>,
           env'.todo = env.todo, env'.applied = env.applied,
           \A s \in Sections : /\ sec[s].pc = "run" => srun'[s].cfg = srun[s].cfg
                               /\ HasTag(s) => HasTag(s)'
    PROVE  SecNotified'
BY DEF SecNotified, Holding, HeldCfg

\* The same for the v4 supervisor.
LEMMA V4Silent ==
    ASSUME V4Notified, UNCHANGED <<cfg, dirty, sup>>,
           env'.todo = env.todo, env'.applied = env.applied,
           sup.pc = "run" => vrun'.v4 = vrun.v4,
           HasTag("V4") => HasTag("V4")'
    PROVE  V4Notified'
BY DEF V4Notified, Holding4, Held4, Fits

\* A save owes tags by making the watch dirty; nothing else outside the
\* link's tasks matters.
LEMMA NotifiedWorld ==
    ASSUME TypeOK, Prompt, Notified, World PROVE Notified'
<1> USE DEF Notified
<1>1. CASE Save
  <2>1. ~dirty /\ env.todo = {} /\ cfg = env.applied
    BY <1>1 DEF Save, Synced
  <2>2. dirty' /\ UNCHANGED <<env, sup, vrun, sec, srun, inbox>>
    BY <1>1 DEF Save
  <2>3. SecNotified'
    BY <2>1, <2>2 DEF SecNotified, Holding, HeldCfg, HasTag
  <2>4. V4Notified'
    BY <2>1, <2>2 DEF V4Notified, Holding4, Held4, Fits, HasTag
  <2> QED  BY <2>2, <2>3, <2>4 DEF Synced, Carried
<1>2. ASSUME UNCHANGED <<cfg, dirty, env, inbox, sup, sec>>,
             vrun'.v4 = vrun.v4, vrun'.idx = vrun.idx, vrun'.on => vrun.on,
             \A s \in Sections : srun'[s].cfg = srun[s].cfg
      PROVE  Notified'
  BY <1>2, SecSilent, V4Silent DEF Synced, Carried, HasTag
<1>3. CASE RequestStop \/ V4Acquires \/ V4Loses
           \/ \E n \in Ifaces : DevUp(n) \/ DevDown(n) \/ DevGone(n)
  BY <1>2, <1>3 DEF RequestStop, V4Acquires, V4Loses, DevUp, DevDown, DevGone
<1>4. CASE V4Dies
  BY <1>2, <1>4 DEF V4Dies, TypeOK
<1>5. ASSUME NEW s \in Sections, SrunDies(s) PROVE Notified'
  <2>1. \A z \in Sections : srun'[z].cfg = srun[z].cfg
    BY <1>5 DEF SrunDies, TypeOK, Over
  <2> QED  BY <1>2, <1>5, <2>1 DEF SrunDies
<1> QED  BY <1>1, <1>3, <1>4, <1>5 DEF World

\* The environment task turns the debt into tags, then into messages.
LEMMA NotifiedEnv ==
    ASSUME TypeOK, Notified, NoLag', EnvStep PROVE Notified'
<1> USE DEF Notified
<1>0. ASSUME UNCHANGED <<cfg, dirty, inbox, sup, vrun, sec, srun>>,
             env'.todo = env.todo, env'.applied = env.applied
      PROVE  Notified'
  BY <1>0, SecSilent, V4Silent DEF Synced, Carried, HasTag
<1>1. CASE StartLooksUp \/ StartSubscribes \/ EnvBoots \/ EnvIface \/ EnvStops
  BY <1>0, <1>1 DEF StartLooksUp, StartSubscribes, EnvBoots, EnvIface, EnvStops,
     TypeOK
<1>2. CASE EnvConfig
  <2>1. /\ env'.applied = cfg /\ env'.todo = config_change_tags(env.applied, cfg)
        /\ env.todo = {} /\ ~dirty'
        /\ UNCHANGED <<cfg, inbox, sup, vrun, sec, srun>>
    BY <1>2 DEF EnvConfig, AtSelect
  <2>2. SecNotified'
    <3> SUFFICES ASSUME NEW s \in Sections, Holding(s), HeldCfg(s) # cfg.sec[s]
                 PROVE  s \in env'.todo \/ HasTag(s)
      BY <2>1 DEF SecNotified, Holding, HeldCfg, HasTag
    <3>1. CASE HeldCfg(s) = env.applied.sec[s]
      <4>1. s \in Receivers /\ s # "V4"
        BY WanLinkAssumption DEF Receivers
      <4> QED  BY <3>1, <4>1, <2>1 DEF config_change_tags, Changed
    <3> QED  BY <2>1, <3>1 DEF SecNotified
  <2>3. V4Notified'
    <3>1. Fits(env.applied) /\ ~Fits(cfg) => "V4" \in env'.todo
      BY <2>1 DEF Fits, config_change_tags, Changed, Receivers
    <3> QED  BY <2>1, <3>1 DEF V4Notified, Holding4, Held4, Fits, HasTag
  <2> QED  BY <2>1, <2>2, <2>3 DEF Synced, Carried
<1>3. CASE EnvSends
  <2>1. PICK t \in Receivers :
           /\ t \in env.todo
           /\ inbox' = [r \in Receivers |-> Push(inbox[r], t, Cap)]
           /\ env' = [env EXCEPT !.todo = @ \ {t}]
    BY <1>3 DEF EnvSends, TypeOK
  <2>2. /\ env'.todo = env.todo \ {t} /\ env'.applied = env.applied
        /\ UNCHANGED <<cfg, dirty, sup, vrun, sec, srun>>
    BY <1>3, <2>1 DEF EnvSends, TypeOK
  <2>3. \A r \in Receivers : HasIn(inbox'[r].q, t) /\ (HasTag(r) => HasTag(r)')
    BY <2>1, SendReaches, TypeParts
  <2>4. \A r \in Receivers : r \in env.todo \/ HasTag(r)
                                 => r \in env'.todo \/ HasTag(r)'
    BY <2>2, <2>3 DEF HasTag
  <2>5. SecNotified'
    <3>1. Sections \subseteq Receivers
      BY DEF Receivers
    <3> QED  BY <2>2, <2>4, <3>1 DEF SecNotified, Holding, HeldCfg
  <2>6. V4Notified'
    <3>1. "V4" \in Receivers
      BY DEF Receivers
    <3> QED  BY <2>2, <2>4, <3>1 DEF V4Notified, Holding4, Held4, Fits
  <2> QED  BY <2>2, <2>5, <2>6 DEF Synced, Carried
<1> QED  BY <1>1, <1>2, <1>3 DEF EnvStep

\* Receives of one receiver leave the inboxes of the others alone.
LEMMA OtherInbox ==
    ASSUME InboxOK, NEW r \in Receivers, NEW x \in Receivers, x # r,
           inbox' = [inbox EXCEPT ![r] = Pop(@)]
    PROVE  HasTag(x)' <=> HasTag(x)
<1>1. inbox'[x] = inbox[x]
  BY DEF InboxOK
<1> QED  BY <1>1 DEF HasTag

\* The v4 supervisor reads its own tag only where it drops what it holds.
LEMMA NotifiedSup ==
    ASSUME TypeOK, Notified, NoLag, SupStep \/ VrunStep PROVE Notified'
<1> USE DEF Notified
<1>t. InboxOK /\ SupOK /\ "V4" \in Receivers /\ "V4" \notin Sections
  BY TypeParts, WanLinkAssumption DEF Receivers
<1>1. UNCHANGED <<cfg, dirty, env, sec, srun>>
  BY DEF SupStep, VrunStep, SupTop, SupWakes, SupGivesUp, SupSeesCarrier,
     SupAttaches, SupStops, SupRestarts, SupIgnores, SupEnded, SupWaited,
     SupRetries, V4Anchors, V4Stops
<1>2. inbox' = inbox \/ inbox' = [inbox EXCEPT !["V4"] = Pop(@)]
  BY DEF SupStep, VrunStep, SupTop, SupWakes, SupGivesUp, SupSeesCarrier,
     SupAttaches, SupStops, SupRestarts, SupIgnores, SupEnded, SupWaited,
     SupRetries, V4Anchors, V4Stops
<1>3. SecNotified'
  <2>1. \A s \in Sections : HasTag(s) => HasTag(s)'
    <3> SUFFICES ASSUME NEW s \in Sections, HasTag(s) PROVE HasTag(s)'
      OBVIOUS
    <3>1. s \in Receivers /\ s # "V4"
      BY <1>t DEF Receivers
    <3>2. CASE inbox' = inbox
      BY <3>2 DEF HasTag
    <3>3. CASE inbox' = [inbox EXCEPT !["V4"] = Pop(@)]
      BY <3>1, <3>3, <1>t, OtherInbox
    <3> QED  BY <1>2, <3>2, <3>3
  <2> QED  BY <1>1, <2>1, SecSilent
<1>4. Synced'
  BY <1>1 DEF Synced
<1>a. CASE ~Holding4'
  <2>1. V4Notified'
    BY <1>a DEF V4Notified
  <2>2. Carried'
    BY <1>a DEF Holding4, Carried, SupStep, VrunStep, SupTop, SupWakes, SupGivesUp,
       SupSeesCarrier, SupAttaches, SupStops, SupRestarts, SupIgnores, SupEnded,
       SupWaited, SupRetries, V4Anchors, V4Stops, SupIdle, NoVrun, SupOK, TypeOK
  <2> QED  BY <1>3, <1>4, <2>1, <2>2
<1>b. CASE Holding4'
  <2>1. CASE SupTop
    <3>1. Fits(cfg)'
      BY <2>1, <1>t DEF SupTop, SupIdle, Fits, Held4
    <3> QED  BY <1>1, <1>3, <1>4, <2>1, <3>1 DEF V4Notified, Carried, SupTop
  <2>2. CASE SupSeesCarrier
    <3>1. sup'.pc = "attach" /\ sup'.want = sup.want /\ sup.pc = "carrier"
      BY <2>2, <1>t DEF SupSeesCarrier, SupOK
    <3>2. V4Notified'
      BY <1>1, <2>2, <3>1 DEF V4Notified, Holding4, Held4, Fits, HasTag, SupSeesCarrier
    <3> QED  BY <1>3, <1>4, <2>2, <3>2 DEF Carried, SupSeesCarrier
  <2>3. CASE SupAttaches
    <3>1. /\ sup'.pc = "run" /\ sup.pc = "attach" /\ vrun'.v4 = sup.want.v4
          /\ vrun'.idx # 0 /\ inbox' = inbox
      BY <2>3, <1>b DEF SupAttaches, SupIdle, Holding4
    <3>2. V4Notified'
      BY <1>1, <3>1 DEF V4Notified, Holding4, Held4, Fits, HasTag
    <3> QED  BY <1>3, <1>4, <3>1, <3>2 DEF Carried
  <2>4. CASE SupIgnores
    <3>1. HasTag("V4") => HasTag("V4")'
      BY <2>4, <1>t, ReceiveKeeps DEF SupIgnores
    <3>2. V4Notified'
      BY <1>1, <2>4, <3>1, V4Silent DEF SupIgnores
    <3> QED  BY <1>3, <1>4, <2>4, <3>2 DEF Carried, SupIgnores
  <2>5. CASE VrunStep
    <3>1. vrun'.v4 = vrun.v4 /\ vrun'.idx = vrun.idx /\ (vrun'.on => vrun.on)
          /\ sup' = sup /\ inbox' = inbox
      BY <2>5, <1>t DEF VrunStep, V4Anchors, V4Stops, SupOK
    <3>2. V4Notified'
      BY <1>1, <3>1, V4Silent DEF HasTag
    <3> QED  BY <1>3, <1>4, <3>1, <3>2 DEF Carried
  <2>6. CASE SupWakes \/ SupGivesUp \/ SupStops \/ SupRestarts \/ SupEnded
             \/ SupWaited \/ SupRetries
    BY <1>b, <2>6 DEF Holding4, SupWakes, SupGivesUp, SupStops, SupRestarts,
       SupEnded, SupWaited, SupRetries, SupIdle
  <2> QED  BY <2>1, <2>2, <2>3, <2>4, <2>5, <2>6 DEF SupStep
<1> QED  BY <1>a, <1>b

\* So does a dependent section.
LEMMA NotifiedSec ==
    ASSUME TypeOK, Notified, NoLag, NEW s \in Sections, SecStep(s) \/ SrunStops(s)
    PROVE  Notified'
<1> USE DEF Notified
<1>t. InboxOK /\ SecOK /\ s \in Receivers /\ s # "V4" /\ Sections \subseteq Receivers
      /\ "V4" \in Receivers
  BY TypeParts, WanLinkAssumption DEF Receivers
<1>1. UNCHANGED <<cfg, dirty, env, sup, vrun>>
  BY DEF SecStep, SrunStops, SecTop, SecWakes, SecGivesUp, SecSeesSession,
     SecAttaches, SecStops, SecRestarts, SecIgnores, SecEnded, SecWaited, SecRetries
<1>2. inbox' = inbox \/ inbox' = [inbox EXCEPT ![s] = Pop(@)]
  BY DEF SecStep, SrunStops, SecTop, SecWakes, SecGivesUp, SecSeesSession,
     SecAttaches, SecStops, SecRestarts, SecIgnores, SecEnded, SecWaited, SecRetries
<1>3. \A x \in Receivers : x # s => (HasTag(x) => HasTag(x)')
  <2> SUFFICES ASSUME NEW x \in Receivers, x # s, HasTag(x) PROVE HasTag(x)'
    OBVIOUS
  <2>1. CASE inbox' = inbox
    BY <2>1 DEF HasTag
  <2>2. CASE inbox' = [inbox EXCEPT ![s] = Pop(@)]
    BY <2>2, <1>t, OtherInbox
  <2> QED  BY <1>2, <2>1, <2>2
<1>4. V4Notified' /\ Synced' /\ Carried'
  BY <1>1, <1>3, <1>t, V4Silent DEF Synced, Carried
<1>5. \A z \in Sections : z # s => sec'[z] = sec[z] /\ srun'[z] = srun[z]
  BY <1>t DEF SecOK, SecStep, SrunStops, SecTop, SecWakes, SecGivesUp,
     SecSeesSession, SecAttaches, SecStops, SecRestarts, SecIgnores, SecEnded,
     SecWaited, SecRetries, SecAt
<1> DEFINE Told(z) == Holding(z) /\ HeldCfg(z) # cfg.sec[z] =>
        z \in env.todo \/ HasTag(z) \/ (dirty /\ HeldCfg(z) = env.applied.sec[z])
<1>6. \A z \in Sections : z # s => Told(z)'
  BY <1>1, <1>3, <1>5, <1>t DEF SecNotified, Holding, HeldCfg
<1>7. Told(s)'
  <2>1. CASE SecTop(s)
    <3>1. HeldCfg(s)' = cfg.sec[s]
      BY <2>1, <1>t DEF SecTop, SecAt, HeldCfg, SecOK, Enabled
    <3> QED  BY <3>1, <1>1
  <2>2. CASE SecSeesSession(s)
    <3>1. sec'[s].pc = "snap" /\ sec[s].pc = "wait" /\ sec'[s].cfg = sec[s].cfg
      BY <2>2, <1>t DEF SecSeesSession, SecOK
    <3>2. inbox' = inbox
      BY <2>2 DEF SecSeesSession
    <3>3. HasTag(s)' <=> HasTag(s)
      BY <3>2 DEF HasTag
    <3> QED  BY <3>1, <3>3, <1>1 DEF Holding, HeldCfg, SecNotified
  <2>3. CASE SecAttaches(s)
    <3>1. inbox' = inbox
      BY <2>3 DEF SecAttaches
    <3>2. CASE ~link.phase.up
      BY <2>3, <3>2, <1>t DEF SecAttaches, SecAt, Holding, SecOK
    <3>3. CASE link.phase.up
      <4>1. sec'[s].pc = "run" /\ sec[s].pc = "snap" /\ srun'[s].cfg = sec[s].cfg
        BY <2>3, <3>3, <1>t DEF SecAttaches, SecAt, SecOK
      <4>2. HasTag(s)' <=> HasTag(s)
        BY <3>1 DEF HasTag
      <4> QED  BY <4>1, <4>2, <1>1 DEF Holding, HeldCfg, SecNotified
    <3> QED  BY <3>2, <3>3
  <2>4. CASE SecIgnores(s)
    <3>1. HasTag(s) => HasTag(s)'
      BY <2>4, <1>t, ReceiveKeeps DEF SecIgnores
    <3>2. sec' = sec /\ srun' = srun
      BY <2>4 DEF SecIgnores
    <3> QED  BY <3>1, <3>2, <1>1 DEF Holding, HeldCfg, SecNotified
  <2>5. CASE SrunStops(s)
    <3>1. sec' = sec /\ inbox' = inbox /\ srun'[s].cfg = srun[s].cfg
      BY <2>5, <1>t DEF SrunStops, SecOK, Over
    <3>2. HasTag(s)' <=> HasTag(s)
      BY <3>1 DEF HasTag
    <3> QED  BY <3>1, <3>2, <1>1 DEF Holding, HeldCfg, SecNotified
  <2>6. CASE SecWakes(s) \/ SecGivesUp(s) \/ SecStops(s) \/ SecRestarts(s)
             \/ SecEnded(s) \/ SecWaited(s) \/ SecRetries(s)
    <3>1. sec'[s].pc \notin {"disabled", "wait", "snap", "run"}
      BY <2>6, <1>t DEF SecWakes, SecGivesUp, SecStops, SecRestarts, SecEnded,
         SecWaited, SecRetries, SecAt, SecOK
    <3> QED  BY <3>1 DEF Holding
  <2> QED  BY <2>1, <2>2, <2>3, <2>4, <2>5, <2>6 DEF SecStep
<1>8. SecNotified'
  BY <1>6, <1>7 DEF SecNotified
<1> QED  BY <1>4, <1>8

\* That every outdated holder is notified is inductive without lag.
LEMMA NotifiedNext ==
    ASSUME Prompt
    PROVE  TypeOK /\ Notified /\ NoLag /\ NoLag' /\ [Next]_vars => Notified'
<1>1. ASSUME Notified, UNCHANGED vars PROVE Notified'
  BY <1>1, SecSilent, V4Silent DEF vars, Notified, Synced, Carried, HasTag
<1> QED  BY <1>1, NotifiedWorld, NotifiedEnv, NotifiedSup, NotifiedSec DEF Next

\* As long as no ring overflows and saves are not faster than the environment
\* task, a link at rest runs the stored configuration in every section.
THEOREM SectionsFollowConfig ==
    ASSUME Prompt PROVE Spec /\ []NoLag => []SectionsSettled
<1>1. TypeOK /\ SecOwned /\ Notified => SectionsSettled
  <2> SUFFICES ASSUME TypeOK, SecOwned, Notified, Quiet, NEW s \in Sections
               PROVE  /\ srun[s].on => srun[s].cfg = cfg.sec[s]
                      /\ Enabled(cfg, s) /\ Ready(s, link.phase) => srun[s].on
    BY DEF SectionsSettled
  <2>1. env.todo = {} /\ ~dirty /\ SecQuiet(s)
    BY DEF Quiet, EnvQuiet, AtSelect
  <2>2. IsEmpty(inbox[s]) => ~HasTag(s)
    BY DEF IsEmpty, HasTag, HasIn
  <2>3. Holding(s) /\ IsEmpty(inbox[s]) => HeldCfg(s) = cfg.sec[s]
    BY <2>1, <2>2 DEF Notified, SecNotified
  <2>4. sec[s].pc = "disabled" => sec[s].cfg = 0
    BY DEF TypeOK
  <2> QED  BY <2>1, <2>3, <2>4 DEF SecQuiet, SecOwned, Holding, HeldCfg, Enabled
<1> QED  BY <1>1, TypeInit, TypeNext, OwnedInit, SecOwnedNext, NotifiedInit,
            NotifiedNext, PTL DEF Spec

\* Under the same conditions the v4 section of a link at rest runs exactly
\* when the link is active and has a carrier, in the stored mode.
THEOREM V4FollowsConfig ==
    ASSUME Prompt PROVE Spec /\ []NoLag => []V4Settled
<1>1. TypeOK /\ Owned /\ Notified => V4Settled
  <2> SUFFICES ASSUME TypeOK, Owned, Notified, Quiet
               PROVE  /\ sup.pc = "run" <=> Active(cfg) /\ link.carrier # 0
                      /\ sup.pc = "run" => vrun.v4 = cfg.v4 /\ vrun.idx = link.carrier
                      /\ link.phase.up => Active(cfg) /\ link.phase.idx = link.carrier
    BY DEF V4Settled
  <2>1. env.todo = {} /\ ~dirty /\ ~stop /\ SupQuiet
    BY DEF Quiet, EnvQuiet, AtSelect
  <2>2. IsEmpty(inbox["V4"]) => ~HasTag("V4")
    BY DEF IsEmpty, HasTag, HasIn
  <2>3. Holding4 /\ IsEmpty(inbox["V4"]) => Fits(cfg)
    BY <2>1, <2>2 DEF Notified, V4Notified
  <2>4. sup.pc = "run" => Active(cfg) /\ vrun.v4 = cfg.v4
                          /\ vrun.idx = link.carrier /\ vrun.idx # 0
    BY <2>1, <2>3 DEF SupQuiet, Holding4, Fits, Held4, Notified, Carried
  <2>5. sup.pc # "run" => ~Active(cfg) \/ link.carrier = 0
    BY <2>1, <2>3 DEF SupQuiet, Holding4, Fits
  <2>6. link.phase.up => sup.pc = "run" /\ link.phase.idx = vrun.idx
    BY <2>1 DEF Owned, SessionOwned, SupQuiet
  <2> QED  BY <2>4, <2>5, <2>6
<1> QED  BY <1>1, TypeInit, TypeNext, OwnedInit, OwnedNext, NotifiedInit,
            NotifiedNext, PTL DEF Spec

\* Both together: with saves that wait for the environment task and a ring that
\* never overflows, a link at rest runs what is stored.
THEOREM LinkFollowsConfig ==
    ASSUME Prompt PROVE Spec /\ []NoLag => []LinkSettled
BY SectionsFollowConfig, V4FollowsConfig, PTL DEF LinkSettled

-----------------------------------------------------------------------------
(* The carrier follows the interface *)

\* The last event of an interface in a queue tells whether it is up.
LastTells(q, d) ==
    \A n \in Ifaces : \A i \in 1..Len(q) :
        q[i].name = n /\ (\A j \in (i + 1)..Len(q) : q[j].name # n)
            => q[i].up = d[n].up

\* No event in a queue is about an interface.
NoneFor(q, n) == \A i \in 1..Len(q) : q[i].name # n

\* Once no event about the attach interface is queued, and none was lost, an
\* interface that is up is the carrier.
Tracked ==
    env.pc = "loop" /\ dev[env.applied.att].up /\ ~ifq.lag
        /\ NoneFor(ifq.q, env.applied.att)
    => link.carrier = dev[env.applied.att].idx

\* What the environment task knows or is about to be told of the interfaces:
\* the queue ends with the truth about each of them, and what has been read of
\* it has moved the carrier.
Seen ==
    /\ \A n \in Ifaces : dev[n].up => dev[n].idx # 0
    /\ LastTells(ifq.q, dev)
    /\ env.pc \in {"lookup", "subscribe", "over"} => ifq = Empty
    /\ Synced
    /\ Tracked

\* What the broadcast of interface changes carries.
Events == [name : Ifaces, up : BOOLEAN]

\* Reading the first event leaves the last ones.
LEMMA TailTells ==
    ASSUME NEW q \in Seq(Events), q # <<>>, NEW d, LastTells(q, d)
    PROVE  LastTells(Tail(q), d)
<1>1. PICK t : t = Tail(q)
  OBVIOUS
<1>2. /\ Len(q) \in Nat /\ Len(q) > 0 /\ Len(t) = Len(q) - 1
      /\ \A i \in 1..Len(t) : t[i] = q[i + 1]
  BY <1>1
<1>3. ASSUME NEW x \in Ifaces, NEW i \in 1..Len(t), t[i].name = x,
             \A j \in (i + 1)..Len(t) : t[j].name # x
      PROVE  t[i].up = d[x].up
  <2>1. i + 1 \in 1..Len(q) /\ q[i + 1] = t[i]
    BY <1>2
  <2>2. ASSUME NEW j \in ((i + 1) + 1)..Len(q) PROVE q[j].name # x
    <3>1. j - 1 \in (i + 1)..Len(t) /\ j - 1 \in 1..Len(t) /\ (j - 1) + 1 = j
      BY <1>2
    <3>2. t[j - 1] = q[j]
      BY <3>1, <1>2
    <3> QED  BY <3>1, <3>2, <1>3
  <2> QED  BY <2>1, <2>2, <1>3 DEF LastTells
<1> QED  BY <1>1, <1>3 DEF LastTells

\* Two states of the interfaces that differ in one of them at most.
SameBut(d, e, n) == \A x \in Ifaces : x # n => e[x] = d[x]

\* A change of one interface is the last word about it.
LEMMA PushTells ==
    ASSUME NEW c \in Channel(Events, IfCap), NEW n \in Ifaces, NEW b \in BOOLEAN,
           NEW d, NEW e, LastTells(c.q, d), e[n].up = b, SameBut(d, e, n)
    PROVE  /\ LastTells(Push(c, [name |-> n, up |-> b], IfCap).q, e)
           /\ ~NoneFor(Push(c, [name |-> n, up |-> b], IfCap).q, n)
           /\ \A x \in Ifaces : x # n =>
                 \/ Push(c, [name |-> n, up |-> b], IfCap).lag
                 \/ (NoneFor(Push(c, [name |-> n, up |-> b], IfCap).q, x)
                        => NoneFor(c.q, x) /\ ~c.lag)
<1>1. PICK m : m = [name |-> n, up |-> b]
  OBVIOUS
<1>2. m \in Events /\ m.name = n /\ m.up = b
  BY <1>1 DEF Events
<1>3. c.q \in Seq(Events) /\ Len(c.q) \in Nat /\ c.lag \in BOOLEAN
  BY DEF Channel
<1>4. ASSUME NEW q \in Seq(Events), LastTells(q, d)
      PROVE  LastTells(Append(q, m), e) /\ ~NoneFor(Append(q, m), n)
  <2>1. PICK p : p = Append(q, m)
    OBVIOUS
  <2>2. /\ Len(q) \in Nat /\ Len(p) = Len(q) + 1 /\ p[Len(p)] = m
        /\ \A i \in 1..Len(q) : p[i] = q[i]
    BY <2>1, <1>2
  <2>3. ASSUME NEW x \in Ifaces, NEW i \in 1..Len(p), p[i].name = x,
               \A j \in (i + 1)..Len(p) : p[j].name # x
        PROVE  p[i].up = e[x].up
    <3>1. CASE i = Len(p)
      BY <2>2, <2>3, <3>1, <1>2
    <3>2. CASE i # Len(p)
      <4>1. i \in 1..Len(q) /\ Len(p) \in (i + 1)..Len(p)
        BY <2>2, <3>2
      <4>2. x # n
        BY <4>1, <2>2, <2>3, <1>2
      <4>3. \A j \in (i + 1)..Len(q) : q[j].name # x
        BY <2>2, <2>3, <4>1
      <4> QED  BY <4>1, <4>2, <4>3, <2>2, <2>3, <1>4 DEF LastTells, SameBut
    <3> QED  BY <3>1, <3>2
  <2>4. Len(p) \in 1..Len(p)
    BY <2>2
  <2> QED  BY <2>1, <2>2, <2>3, <2>4, <1>2 DEF LastTells, NoneFor
<1>5. CASE Len(c.q) < IfCap
  <2>1. Push(c, m, IfCap) = [q |-> Append(c.q, m), lag |-> c.lag]
    BY <1>5 DEF Push
  <2>2. ASSUME NEW x \in Ifaces, NoneFor(Append(c.q, m), x) PROVE NoneFor(c.q, x)
    BY <1>2, <1>3, <2>2 DEF NoneFor
  <2>3. Push(c, m, IfCap).q = Append(c.q, m) /\ Push(c, m, IfCap).lag = c.lag
    BY <2>1
  <2>4. LastTells(Append(c.q, m), e) /\ ~NoneFor(Append(c.q, m), n)
    BY <1>3, <1>4
  <2> QED  BY <1>1, <1>3, <2>2, <2>3, <2>4
<1>6. CASE ~(Len(c.q) < IfCap)
  <2>1. Push(c, m, IfCap) = [q |-> Append(Tail(c.q), m), lag |-> TRUE]
    BY <1>6 DEF Push
  <2>2. c.q # <<>>
    BY <1>3, <1>6, WanLinkAssumption
  <2>3. Tail(c.q) \in Seq(Events) /\ LastTells(Tail(c.q), d)
    BY <1>3, <2>2, TailTells
  <2>4. Push(c, m, IfCap).q = Append(Tail(c.q), m) /\ Push(c, m, IfCap).lag
    BY <2>1
  <2>5. LastTells(Append(Tail(c.q), m), e) /\ ~NoneFor(Append(Tail(c.q), m), n)
    BY <1>4, <2>3
  <2> QED  BY <1>1, <2>4, <2>5
<1> QED  BY <1>5, <1>6

\* The first event of a channel may be for another interface; if it is the last
\* one for this interface, it says what the interface is now.
LEMMA PopTells ==
    ASSUME NEW q \in Seq(Events), q # <<>>, NEW d, LastTells(q, d), NEW a \in Ifaces,
           NoneFor(Tail(q), a)
    PROVE  /\ Head(q).name = a => Head(q).up = d[a].up
           /\ Head(q).name # a => NoneFor(q, a)
<1>1. PICK t : t = Tail(q)
  OBVIOUS
<1>2. /\ Len(q) \in Nat /\ Len(q) > 0 /\ Len(t) = Len(q) - 1 /\ Head(q) = q[1]
      /\ \A i \in 1..Len(t) : t[i] = q[i + 1]
  BY <1>1
<1>3. ASSUME NEW j \in 2..Len(q) PROVE q[j].name # a
  <2>1. j - 1 \in 1..Len(t) /\ (j - 1) + 1 = j
    BY <1>2
  <2> QED  BY <2>1, <1>1, <1>2 DEF NoneFor
<1>4. 1 \in 1..Len(q) /\ 1 + 1 = 2
  BY <1>2
<1>5. Head(q).name = a => Head(q).up = d[a].up
  BY <1>2, <1>3, <1>4 DEF LastTells
<1>6. \A j \in 1..Len(q) : j = 1 \/ j \in 2..Len(q)
  BY <1>2
<1> QED  BY <1>2, <1>3, <1>5, <1>6 DEF NoneFor

\* Before start nothing is queued.
LEMMA SeenInit == Init => Seen
BY DEF Init, Seen, LastTells, Synced, Tracked, Empty

\* A step that leaves the interfaces, their events, the configuration and the
\* carrier alone.
LEMMA SeenSilent ==
    ASSUME Seen, UNCHANGED <<dev, ifq, cfg, dirty>>, env'.pc = env.pc,
           env'.applied = env.applied, link'.carrier = link.carrier
    PROVE  Seen'
BY DEF Seen, Synced, Tracked

\* The kernel's steps: each change of IFF_UP is followed by its event, and an
\* interface is removed only when it is down.
LEMMA SeenDev ==
    ASSUME TypeOK, Seen, NEW n \in Ifaces, DevUp(n) \/ DevDown(n) \/ DevGone(n)
    PROVE  Seen'
<1>t. /\ dev \in [Ifaces -> [idx : Indexes, up : BOOLEAN]]
      /\ ifq \in Channel(Events, IfCap) /\ env.applied.att \in Ifaces
  BY DEF TypeOK, Events, Configs
<1>u. UNCHANGED <<cfg, dirty, env, link>>
  BY DEF DevUp, DevDown, DevGone
<1>1. CASE DevGone(n)
  <2>1. /\ \A x \in Ifaces : dev'[x].up = dev[x].up
        /\ \A x \in Ifaces : x # n => dev'[x] = dev[x]
        /\ ~dev[n].up /\ ifq' = ifq
    BY <1>1, <1>t DEF DevGone
  <2>2. LastTells(ifq.q, dev)'
    BY <2>1 DEF Seen, LastTells
  <2>3. \A x \in Ifaces : dev'[x].up => dev'[x].idx # 0
    BY <2>1 DEF Seen
  <2>4. Tracked'
    BY <1>t, <1>u, <2>1 DEF Seen, Tracked
  <2> QED  BY <1>u, <2>1, <2>2, <2>3, <2>4 DEF Seen, Synced
<1>2. CASE DevUp(n) \/ DevDown(n)
  <2>1. PICK b \in BOOLEAN :
           /\ dev'[n].up = b /\ (b => dev'[n].idx # 0) /\ Emit(n, b)
           /\ \A x \in Ifaces : x # n => dev'[x] = dev[x]
    <3>1. CASE DevUp(n)
      <4>1. dev'[n].up /\ dev'[n].idx # 0 /\ \A x \in Ifaces : x # n => dev'[x] = dev[x]
        BY <3>1, <1>t, WanLinkAssumption DEF DevUp, SetFlag, TypeOK
      <4> QED  BY <3>1, <4>1 DEF DevUp
    <3>2. CASE DevDown(n)
      <4>1. dev'[n].up = FALSE /\ \A x \in Ifaces : x # n => dev'[x] = dev[x]
        BY <3>2, <1>t DEF DevDown, SetFlag
      <4> QED  BY <3>2, <4>1 DEF DevDown
    <3> QED  BY <1>2, <3>1, <3>2
  <2>2. \A x \in Ifaces : dev'[x].up => dev'[x].idx # 0
    BY <2>1 DEF Seen
  <2>3. CASE env.pc \in {"lookup", "subscribe", "over"}
    <3>1. ifq' = Empty
      BY <2>1, <2>3 DEF Emit, Seen
    <3>2. LastTells(ifq.q, dev)'
      BY <3>1 DEF LastTells, Empty
    <3> QED  BY <1>u, <2>2, <2>3, <3>1, <3>2 DEF Seen, Synced, Tracked
  <2>4. CASE env.pc \notin {"lookup", "subscribe", "over"}
    <3>1. ifq' = Push(ifq, [name |-> n, up |-> b], IfCap)
      BY <2>1, <2>4 DEF Emit
    <3>2. PICK c \in Channel(Events, IfCap) : c = ifq
      BY <1>t
    <3>3. PICK d : d = dev
      OBVIOUS
    <3>4. PICK e : e = dev'
      OBVIOUS
    <3>5. LastTells(c.q, d) /\ e[n].up = b /\ SameBut(d, e, n)
      BY <2>1, <3>2, <3>3, <3>4 DEF Seen, SameBut
    <3>6. PICK r : r = Push(c, [name |-> n, up |-> b], IfCap)
      OBVIOUS
    <3>7. /\ LastTells(r.q, e) /\ ~NoneFor(r.q, n)
          /\ \A x \in Ifaces : x # n => r.lag \/ (NoneFor(r.q, x) => NoneFor(c.q, x) /\ ~c.lag)
      BY <3>5, <3>6, PushTells
    <3>8. ifq' = r
      BY <3>1, <3>2, <3>6
    <3>9. LastTells(ifq.q, dev)'
      BY <3>4, <3>7, <3>8 DEF LastTells
    <3>10. PICK a \in Ifaces : a = env.applied.att
      BY <1>t
    <3>11. NoneFor(ifq.q, env.applied.att)' <=> NoneFor(r.q, a)
      BY <3>8, <3>10, <1>u DEF NoneFor
    <3>12. NoneFor(ifq.q, env.applied.att) <=> NoneFor(c.q, a)
      BY <3>2, <3>10 DEF NoneFor
    <3>13. Tracked'
      <4>1. CASE a = n
        BY <4>1, <3>7, <3>11 DEF Tracked
      <4>2. CASE a # n
        <5>1. r.lag \/ (NoneFor(r.q, a) => NoneFor(c.q, a) /\ ~c.lag)
          BY <4>2, <3>7
        <5>2. dev'[a] = dev[a]
          BY <4>2, <2>1
        <5> QED  BY <5>1, <5>2, <3>2, <3>8, <3>10, <3>11, <3>12, <1>u DEF Tracked, Seen
      <4> QED  BY <4>1, <4>2
    <3> QED  BY <1>u, <2>2, <2>4, <3>9, <3>13 DEF Seen, Synced
  <2> QED  BY <2>3, <2>4
<1> QED  BY <1>1, <1>2

\* The environment task's steps: the second look after the subscription, the
\* look after an event or a lag, and the look at a new attach interface.
LEMMA SeenEnv == ASSUME TypeOK, Seen, EnvStep PROVE Seen'
<1>t. /\ dev \in [Ifaces -> [idx : Indexes, up : BOOLEAN]]
      /\ ifq \in Channel(Events, IfCap) /\ env.applied.att \in Ifaces /\ cfg.att \in Ifaces
      /\ LinkOK
  BY TypeParts DEF TypeOK, Events, Configs
<1>c. \A i : set_carrier(i).carrier = i
  BY <1>t DEF set_carrier, LinkOK
<1>e. env \in [pc : {"lookup", "subscribe", "boot", "loop", "over"},
               applied : Configs, todo : SUBSET Receivers]
  BY DEF TypeOK
<1>1. CASE StartLooksUp
  BY <1>1, <1>e DEF StartLooksUp, Seen, Synced, Tracked
<1>2. CASE StartSubscribes
  BY <1>2, <1>e DEF StartSubscribes, Seen, Synced, Tracked
<1>3. CASE EnvBoots
  <2>1. env'.pc = "loop" /\ env'.applied = env.applied /\ UNCHANGED <<dev, ifq, cfg, dirty>>
    BY <1>3, <1>e DEF EnvBoots
  <2>2. dev[env.applied.att].up => link'.carrier = dev[env.applied.att].idx
    BY <1>3, <1>t, <1>c DEF EnvBoots, Seen
  <2> QED  BY <2>1, <2>2 DEF Seen, Synced, Tracked
<1>4. CASE EnvIface
  <2>u. UNCHANGED <<dev, cfg, dirty, env>> /\ ifq' = Pop(ifq) /\ env.pc = "loop"
    BY <1>4 DEF EnvIface, AtSelect
  <2>q. ifq.q \in Seq(Events)
    BY <1>t DEF Channel
  <2>1. CASE ifq.lag
    <3>1. link'.carrier = dev[env.applied.att].idx /\ ifq'.q = ifq.q
      BY <1>4, <2>1, <2>u, <1>c DEF EnvIface, Lagged, Pop
    <3> QED  BY <2>u, <3>1 DEF Seen, Synced, Tracked
  <2>2. CASE ~ifq.lag
    <3>1. ifq.q # <<>> /\ ifq'.q = Tail(ifq.q) /\ ifq'.lag = FALSE
      BY <1>4, <2>2, <2>u DEF EnvIface, IsEmpty, Pop
    <3>2. PICK q \in Seq(Events) : q = ifq.q
      BY <2>q
    <3>3. PICK d : d = dev
      OBVIOUS
    <3>4. PICK a \in Ifaces : a = env.applied.att
      BY <1>t
    <3>5. LastTells(q, d) /\ q # <<>>
      BY <3>1, <3>2, <3>3 DEF Seen
    <3>6. LastTells(Tail(q), d)
      BY <3>5, TailTells
    <3>7. LastTells(ifq.q, dev)'
      BY <3>1, <3>2, <3>3, <3>6, <2>u
    <3>8. NoneFor(ifq.q, env.applied.att)' <=> NoneFor(Tail(q), a)
      BY <3>1, <3>2, <3>4, <2>u
    <3>9. link' = IF Head(q).name = a THEN CarrierAfter(Head(q), dev[a].idx) ELSE link
      BY <1>4, <2>2, <3>2, <3>4 DEF EnvIface, Lagged
    <3>10. ASSUME NoneFor(Tail(q), a), dev[a].up PROVE link'.carrier = dev[a].idx
      <4>1. CASE Head(q).name = a
        <5>1. Head(q).up = d[a].up
          BY <4>1, <3>5, <3>10, PopTells
        <5>2. dev[a].idx # 0 /\ Head(q).up
          BY <5>1, <3>3, <3>10 DEF Seen
        <5> QED  BY <4>1, <5>2, <3>9, <1>c DEF CarrierAfter
      <4>2. CASE Head(q).name # a
        <5>1. NoneFor(q, a)
          BY <4>2, <3>5, <3>10, PopTells
        <5> QED  BY <4>2, <5>1, <3>2, <3>4, <3>9, <3>10, <2>2, <2>u DEF Seen, Tracked
      <4> QED  BY <4>1, <4>2
    <3>11. Tracked'
      BY <3>4, <3>8, <3>10, <2>u DEF Tracked
    <3> QED  BY <2>u, <3>7, <3>11 DEF Seen, Synced
  <2> QED  BY <2>1, <2>2
<1>5. CASE EnvConfig
  <2>1. /\ env'.pc = "loop" /\ env'.applied = cfg /\ env.pc = "loop"
        /\ UNCHANGED <<dev, ifq, cfg>> /\ dirty' = FALSE
    BY <1>5 DEF EnvConfig, AtSelect
  <2>2. CASE cfg.att # env.applied.att
    <3>1. link'.carrier = dev[cfg.att].idx
      BY <1>5, <2>2, <1>c DEF EnvConfig
    <3> QED  BY <2>1, <3>1 DEF Seen, Synced, Tracked
  <2>3. CASE cfg.att = env.applied.att
    <3>1. link' = link
      BY <1>5, <2>3 DEF EnvConfig
    <3> QED  BY <2>1, <2>3, <3>1 DEF Seen, Synced, Tracked
  <2> QED  BY <2>2, <2>3
<1>6. CASE EnvSends
  <2>1. env'.pc = env.pc /\ env'.applied = env.applied
    BY <1>6, <1>e DEF EnvSends
  <2> QED  BY <1>6, <2>1, SeenSilent DEF EnvSends
<1>7. CASE EnvStops
  <2>1. env'.pc = "over" /\ env'.applied = env.applied /\ ifq' = Empty /\ UNCHANGED <<dev, cfg, dirty>>
    BY <1>7, <1>e DEF EnvStops
  <2>2. LastTells(ifq.q, dev)'
    BY <2>1 DEF LastTells, Empty
  <2> QED  BY <2>1, <2>2 DEF Seen, Synced, Tracked
<1> QED  BY <1>1, <1>2, <1>3, <1>4, <1>5, <1>6, <1>7 DEF EnvStep

\* The other steps leave the carrier alone: sessions come and go without it.
LEMMA SeenNext == TypeOK /\ Seen /\ [Next]_vars => Seen'
<1> SUFFICES ASSUME TypeOK, Seen, [Next]_vars PROVE Seen'
  OBVIOUS
<1>t. LinkOK
  BY TypeParts
<1>c. /\ session_down.carrier = link.carrier
      /\ \A i, l : session_up(i, l).carrier = link.carrier
  BY <1>t, SessionDownFacts DEF session_up
<1>1. CASE \E n \in Ifaces : DevUp(n) \/ DevDown(n) \/ DevGone(n)
  BY <1>1, SeenDev
<1>2. CASE EnvStep
  BY <1>2, SeenEnv
<1>3. CASE Save
  BY <1>3 DEF Save, Seen, Synced, Tracked
<1>4. CASE RequestStop \/ V4Acquires \/ V4Loses \/ V4Dies
           \/ \E s \in Sections : SrunDies(s)
  BY <1>4, <1>c, SeenSilent DEF RequestStop, V4Acquires, V4Loses, V4Dies, SrunDies
<1>5. CASE SupStep \/ VrunStep
  BY <1>5, <1>c, SeenSilent DEF SupStep, VrunStep, SupTop, SupWakes, SupGivesUp,
     SupSeesCarrier, SupAttaches, SupStops, SupRestarts, SupIgnores, SupEnded,
     SupWaited, SupRetries, V4Anchors, V4Stops
<1>6. CASE \E s \in Sections : SecStep(s) \/ SrunStops(s)
  BY <1>6, SeenSilent DEF SecStep, SrunStops, SecTop, SecWakes, SecGivesUp,
     SecSeesSession, SecAttaches, SecStops, SecRestarts, SecIgnores, SecEnded,
     SecWaited, SecRetries
<1>7. CASE UNCHANGED vars
  BY <1>7, SeenSilent DEF vars
<1> QED  BY <1>1, <1>2, <1>3, <1>4, <1>5, <1>6, <1>7 DEF Next, World

\* An interface that is up is the carrier of a link whose environment task has
\* nothing left to read, whether it came up before the subscription, during
\* start, while another interface was configured, or in events that a full ring
\* forgot; saves may come at any pace.
THEOREM UpInterfaceIsCarrier == Spec => []UpIsSeen
<1>1. TypeOK /\ Seen => UpIsSeen
  <2> SUFFICES ASSUME TypeOK, Seen, EnvQuiet, dev[cfg.att].up
               PROVE  link.carrier = dev[cfg.att].idx
    BY DEF UpIsSeen
  <2>1. env.pc = "loop" /\ cfg = env.applied /\ ifq.q = <<>> /\ ~ifq.lag
    BY DEF EnvQuiet, AtSelect, IsEmpty, Seen, Synced
  <2>2. NoneFor(ifq.q, env.applied.att)
    BY <2>1 DEF NoneFor
  <2> QED  BY <2>1, <2>2 DEF Seen, Tracked
<1> QED  BY <1>1, TypeInit, TypeNext, SeenInit, SeenNext, PTL DEF Spec

\* Ownership, carrier and sections together: a link at rest follows its
\* interface and its stored configuration.
THEOREM LinkFollowsAll ==
    ASSUME Prompt PROVE Spec /\ []NoLag => []LinkFollows
BY LinkSound, UpInterfaceIsCarrier, LinkFollowsConfig, PTL DEF LinkFollows

=============================================================================
