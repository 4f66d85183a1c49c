--------------------------- MODULE LanIpv6Leases ---------------------------
(***************************************************************************)
(* The DHCPv6 server of a LAN interface: Ipv6ServerStatus                  *)
(* (landscape/src/lan_service/lan_ipv6_server/mod.rs), the messages that   *)
(* change it (dhcpv6.rs), the server's loop as far as leases are concerned *)
(* (server.rs) and the observer that carries changes of enrolled devices   *)
(* to it (lan_ipv6_service.rs).                                            *)
(*                                                                         *)
(* IA_NA: four tables that must agree.  An address is known by its suffix; *)
(* leases belong to DUIDs, static bindings to MACs, the owner table says   *)
(* which of the two has a suffix, and SLAAC addresses are only watched.    *)
(* IA_PD: slots of the delegated range, owned by DUIDs, and the routes     *)
(* installed for them, which depend on the parent prefix of the moment.    *)
(*                                                                         *)
(* The status lies behind one mutex and every handler is one critical      *)
(* section; only the server's own task touches IA_PD and its routes.  When *)
(* a lease runs out is left open: any lease that is not static may be      *)
(* found expired.  NA and PD are both configured.                          *)
(***************************************************************************)
EXTENDS Integers, Sequences, FiniteSets

CONSTANTS
    Duids, ClientMacs,
    NoDuid, NoMac6,
    Suffixes,                \* host parts that occur (positive numbers)
    Pool6,                   \* those of the dynamic range
    PdSlots,                 \* sub-indexes of the delegated range (positive numbers)
    Parents,                 \* parent prefixes a WAN link may supply (positive numbers)
    DeviceQueue,             \* bound: device events waiting
    MaxDeviceEdits,          \* bound: edits of the enrolled devices
    MaxPrefixChanges,        \* bound: changes of the parent prefix
    MaxServerRuns            \* bound: starts of the server

ASSUME LeaseConstants ==
    /\ NoDuid \notin Duids /\ NoMac6 \notin ClientMacs
    /\ Suffixes \subseteq Nat \ {0} /\ Pool6 \subseteq Suffixes
    /\ PdSlots \subseteq Nat \ {0} /\ Parents \subseteq Nat \ {0}
    /\ DeviceQueue \in Nat /\ MaxDeviceEdits \in Nat /\ MaxPrefixChanges \in Nat /\ MaxServerRuns \in Nat

VARIABLES
    na,          \* the IA_NA and SLAAC tables: [leases, owners, statics, slaac]
    pd,          \* the IA_PD tables: [leases, owners]
    parent,      \* the parent prefix of the delegated range (0: none)
    pdRoutes,    \* routes installed for delegated prefixes: << parent, slot >>
    enrolled,    \* the device store: the suffix bound to each MAC (0: none)
    devQueue,    \* device events on their way to the observer
    serving,     \* off, starting (devices read, status not yet published), running
    missedMacs,  \* history: MACs whose event passed while the server was starting, or was refused for one of those
    deviceEdits, prefixChanges, serverRuns

leaseVars == << na, pd, parent, pdRoutes, enrolled, devQueue, serving, missedMacs, deviceEdits, prefixChanges, serverRuns >>

NoNaLease == [suffix |-> 0, mac |-> NoMac6, static |-> FALSE]
NoPdLease == [slot |-> 0, route |-> 0]
Nobody == [by |-> "none", duid |-> NoDuid, mac |-> NoMac6]
StaticMac(m) == [by |-> "mac", duid |-> NoDuid, mac |-> m]
DynamicDuid(d) == [by |-> "duid", duid |-> d, mac |-> NoMac6]

\* Ipv6ServerStatus::new with the devices of the store.
NewStatus(devices) ==
    [ leases  |-> [d \in Duids |-> NoNaLease],
      owners  |-> [s \in Suffixes |->
                      IF \E m \in ClientMacs : devices[m] = s
                      THEN StaticMac(CHOOSE m \in ClientMacs : devices[m] = s) ELSE Nobody],
      statics |-> devices,
      slaac   |-> {} ]

NoPd == [leases |-> [d \in Duids |-> NoPdLease], owners |-> [k \in PdSlots |-> NoDuid]]

(***************************************************************************)
(* IA_NA tables.  An operator with several possible results gives the set  *)
(* of them: the search for a free suffix begins at a hash of the DUID, and *)
(* which leases of E have run out by then is not known.                    *)
(***************************************************************************)
Leased(t, d) == t.leases[d].suffix # 0
DynamicLease(t, d) == Leased(t, d) /\ ~t.leases[d].static
MayExpire(t) == SUBSET {d \in Duids : DynamicLease(t, d)}

\* remove_dynamic_owner_if_matches
WithoutOwner(owners, s, d) == [x \in Suffixes |-> IF x = s /\ owners[x] = DynamicDuid(d) THEN Nobody ELSE owners[x]]

\* remove_na_lease
remove_na_lease(t, d) ==
    [ leases  |-> [t.leases EXCEPT ![d] = NoNaLease],
      owners  |-> IF DynamicLease(t, d) THEN WithoutOwner(t.owners, t.leases[d].suffix, d) ELSE t.owners,
      statics |-> t.statics, slaac |-> t.slaac ]

\* clean_expired_na, when the dynamic leases of E have run out
clean_expired_na(t, E) ==
    [ leases  |-> [d \in Duids |-> IF d \in E /\ DynamicLease(t, d) THEN NoNaLease ELSE t.leases[d]],
      owners  |-> [s \in Suffixes |->
                      IF \E d \in E : DynamicLease(t, d) /\ t.leases[d].suffix = s /\ t.owners[s] = DynamicDuid(d)
                      THEN Nobody ELSE t.owners[s]],
      statics |-> t.statics, slaac |-> t.slaac ]

\* find_free_dynamic_suffix
FreeSuffixes(t, excluded) == {s \in Pool6 \ (t.slaac \cup {excluded}) : t.owners[s] = Nobody}

insert_dynamic_na_lease(t, d, m, s) ==
    [ leases  |-> [t.leases EXCEPT ![d] = [suffix |-> s, mac |-> m, static |-> FALSE]],
      owners  |-> [t.owners EXCEPT ![s] = DynamicDuid(d)],
      statics |-> t.statics, slaac |-> t.slaac \ {s} ]

\* allocate_dynamic_na_suffix; with no suffix left the expired leases go, and stay gone
Allocate(t, d, m, excluded, E) ==
    LET free == FreeSuffixes(t, excluded)
        cleaned == clean_expired_na(t, E)
        freed == FreeSuffixes(cleaned, excluded)
    IN IF free # {} THEN {insert_dynamic_na_lease(t, d, m, s) : s \in free}
       ELSE IF freed # {} THEN {insert_dynamic_na_lease(cleaned, d, m, s) : s \in freed}
       ELSE {cleaned}

\* static_lease_duid_for_mac, lease_duid_for_mac
StaticDuids(t, m) == {d \in Duids : Leased(t, d) /\ t.leases[d].mac = m /\ t.leases[d].static}
MacDuids(t, m) ==
    IF StaticDuids(t, m) # {} THEN StaticDuids(t, m) ELSE {d \in Duids : Leased(t, d) /\ t.leases[d].mac = m}

\* Mutant: the lease the MAC had under another DUID is kept.
insert_static_na_lease_both(t, d, m) ==
    LET s == t.statics[m] IN
    [ leases  |-> [t.leases EXCEPT ![d] = [suffix |-> s, mac |-> m, static |-> TRUE]],
      owners  |-> [WithoutOwner(t.owners, t.leases[d].suffix, d) EXCEPT ![s] = StaticMac(m)],
      statics |-> t.statics, slaac |-> t.slaac \ {s} ]

insert_static_na_lease(t, d, m) ==
    LET s == t.statics[m] IN
    [ leases  |-> [x \in Duids |-> IF x = d THEN [suffix |-> s, mac |-> m, static |-> TRUE]
                                   ELSE IF x \in StaticDuids(t, m) THEN NoNaLease ELSE t.leases[x]],
      owners  |-> [WithoutOwner(t.owners, t.leases[d].suffix, d) EXCEPT ![s] = StaticMac(m)],
      statics |-> t.statics, slaac |-> t.slaac \ {s} ]

offer_na(t, d, m, E) ==
    IF t.statics[m] # 0 THEN {insert_static_na_lease(t, d, m)}
    ELSE IF Leased(t, d) THEN {t}
    ELSE Allocate(t, d, m, 0, E)

(***************************************************************************)
(* Static bindings of enrolled devices.                                    *)
(***************************************************************************)
\* The tables once m is bound to s, the dynamic owner of s turned out (its DUID is victim).
Bound(t, m, s, d, victim) ==
    LET old == t.statics[m]
        o1 == [x \in Suffixes |-> IF x = old /\ old # s /\ t.owners[x] = StaticMac(m) THEN Nobody ELSE t.owners[x]]
        o2 == IF d = NoDuid THEN o1 ELSE WithoutOwner(o1, t.leases[d].suffix, d)
    IN [ leases  |-> [x \in Duids |-> IF x = victim THEN NoNaLease ELSE t.leases[x]],
         owners  |-> [o2 EXCEPT ![s] = Nobody],
         statics |-> [t.statics EXCEPT ![m] = s], slaac |-> t.slaac ]

\* Where the victim goes: to the suffix the MAC gives up if that is free and of the pool, else
\* (only if the MAC had none) to any free suffix.
Rehoused(b, t, m, s, victim, E) ==
    LET old == t.statics[m]
        mac == t.leases[victim].mac
    IN IF victim = NoDuid THEN {b}
       ELSE IF old = 0 THEN Allocate(b, victim, mac, s, E)
       ELSE IF old # s /\ old \in Pool6 /\ b.owners[old] = Nobody
            THEN {[ leases  |-> [b.leases EXCEPT ![victim] = [suffix |-> old, mac |-> mac, static |-> FALSE]],
                    owners  |-> [b.owners EXCEPT ![old] = DynamicDuid(victim)],
                    statics |-> b.statics, slaac |-> b.slaac ]}
            ELSE {b}

\* At last the binding itself, and the lease of the MAC's own DUID d moves to it.
Settled(r, m, s, d) ==
    [ leases  |-> IF d # NoDuid /\ r.leases[d].suffix # 0
                  THEN [r.leases EXCEPT ![d] = [suffix |-> s, mac |-> m, static |-> TRUE]] ELSE r.leases,
      owners  |-> [r.owners EXCEPT ![s] = StaticMac(m)],
      statics |-> r.statics, slaac |-> r.slaac ]

Victim(t, s, d) == IF t.owners[s].by = "duid" /\ t.owners[s].duid # d THEN t.owners[s].duid ELSE NoDuid

\* What keeps bind_mac_suffix from binding: AlreadyBound, StaticConflict, InvariantViolation.
AlreadyBound(t, m, s) == t.statics[m] = s /\ t.owners[s] = StaticMac(m)
StaticConflict(t, m, s) == t.owners[s].by = "mac" /\ t.owners[s] # StaticMac(m)
InvariantViolation(t, m, s) ==
    t.statics[m] \notin {0, s} /\ t.owners[t.statics[m]] \notin {Nobody, StaticMac(m)}

bind_mac_suffix(t, m, s, E) ==
    IF AlreadyBound(t, m, s) \/ StaticConflict(t, m, s) \/ InvariantViolation(t, m, s) THEN {t}
    ELSE UNION { {Settled(r, m, s, d) : r \in Rehoused(Bound(t, m, s, d, Victim(t, s, d)), t, m, s, Victim(t, s, d), E)}
                 : d \in IF MacDuids(t, m) = {} THEN {NoDuid} ELSE MacDuids(t, m) }

\* remove_mac_binding: the lease of the MAC, if any, becomes dynamic, on the same suffix if it can.
Unbound(t, m) ==
    [ leases  |-> t.leases,
      owners  |-> [x \in Suffixes |-> IF x = t.statics[m] /\ t.owners[x] = StaticMac(m) THEN Nobody ELSE t.owners[x]],
      statics |-> [t.statics EXCEPT ![m] = 0], slaac |-> t.slaac ]

Dropped(t, d) == [leases |-> [t.leases EXCEPT ![d] = NoNaLease], owners |-> t.owners, statics |-> t.statics, slaac |-> t.slaac]

remove_mac_binding(t, m, E) ==
    LET old == t.statics[m]
        u == Unbound(t, m)
    IN IF old = 0 THEN {t}
       ELSE IF StaticDuids(t, m) = {} THEN {u}
       ELSE UNION { LET mac == t.leases[d].mac IN
                    IF old \in Pool6 /\ u.owners[old] = Nobody
                    THEN {[ leases  |-> [u.leases EXCEPT ![d] = [suffix |-> old, mac |-> mac, static |-> FALSE]],
                            owners  |-> [u.owners EXCEPT ![old] = DynamicDuid(d)],
                            statics |-> u.statics, slaac |-> u.slaac ]}
                    ELSE Allocate(Dropped(u, d), d, mac, 0, E)
                    : d \in StaticDuids(t, m) }

update_device_binding(t, m, s, E) == IF s = 0 THEN remove_mac_binding(t, m, E) ELSE bind_mac_suffix(t, m, s, E)

(***************************************************************************)
(* IA_PD.                                                                  *)
(***************************************************************************)
\* resolve_pd_key: the prefix of a slot, 0 while no link supplies a parent.
Prefix(k) == IF k = 0 THEN 0 ELSE parent

\* offer_pd: the lease is kept while its slot resolves, else given up and a free slot taken.
PdOffers(d) ==
    LET k == pd.leases[d].slot
        keeps == k # 0 /\ pd.owners[k] = d /\ Prefix(k) # 0
        o1 == IF k = 0 THEN pd.owners ELSE [pd.owners EXCEPT ![k] = NoDuid]
        free == IF parent = 0 THEN {} ELSE {j \in PdSlots : o1[j] = NoDuid}
        first == CHOOSE j \in free : \A i \in free : j <= i
    IN IF keeps THEN pd
       ELSE IF free = {} THEN [leases |-> [pd.leases EXCEPT ![d] = NoPdLease], owners |-> o1]
       ELSE [leases |-> [pd.leases EXCEPT ![d] = [slot |-> first, route |-> 0]], owners |-> [o1 EXCEPT ![first] = d]]

\* release_pd for the DUIDs of D
PdReleases(p, D) ==
    [ leases |-> [d \in Duids |-> IF d \in D THEN NoPdLease ELSE p.leases[d]],
      owners |-> [k \in PdSlots |-> IF p.owners[k] \in D THEN NoDuid ELSE p.owners[k]] ]

\* The routes release_pd reports, to be removed: none if the slot no longer resolves.
ReleasedRoutes(D) ==
    {<< pd.leases[d].route, pd.leases[d].slot >> :
        d \in {x \in D : pd.leases[x].slot # 0 /\ Prefix(pd.leases[x].slot) # 0 /\ pd.leases[x].route # 0}}

(***************************************************************************)
(* The messages.                                                           *)
(***************************************************************************)
Running == serving = "running"
unrelated == << enrolled, devQueue, serving, missedMacs, deviceEdits, serverRuns >>

\* Solicit: addresses and a prefix are set aside.
handle_solicit(d, m, wantsNa, wantsPd) ==
    /\ Running
    /\ IF wantsNa THEN \E E \in MayExpire(na) : na' \in offer_na(na, d, m, E) ELSE UNCHANGED na
    /\ IF wantsPd THEN pd' = PdOffers(d) ELSE UNCHANGED pd
    /\ UNCHANGED << parent, pdRoutes, prefixChanges, unrelated >>

\* Request, Renew, Rebind: the same, and the route of the prefix is installed; the one of a
\* prefix it replaces is removed.
handle_request_or_renew(d, m, wantsNa, wantsPd) ==
    /\ Running
    /\ IF wantsNa THEN \E E \in MayExpire(na) : na' \in offer_na(na, d, m, E) ELSE UNCHANGED na
    /\ LET before == << Prefix(pd.leases[d].slot), pd.leases[d].slot >>
           offered == PdOffers(d)
           k == offered.leases[d].slot
       IN IF wantsPd /\ Prefix(k) # 0
          THEN /\ pd' = [leases |-> [offered.leases EXCEPT ![d] = [slot |-> k, route |-> parent]], owners |-> offered.owners]
               /\ pdRoutes' = (pdRoutes \ (IF before[1] = 0 \/ before = << parent, k >> THEN {} ELSE {before}))
                                  \cup {<< parent, k >>}
          ELSE /\ pd' = IF wantsPd THEN offered ELSE pd
               /\ UNCHANGED pdRoutes
    /\ UNCHANGED << parent, prefixChanges, unrelated >>

handle_release(d) ==
    /\ Running
    /\ na' = remove_na_lease(na, d)
    /\ pd' = PdReleases(pd, {d}) /\ pdRoutes' = pdRoutes \ ReleasedRoutes({d})
    /\ UNCHANGED << parent, prefixChanges, unrelated >>

handle_decline(d) ==
    /\ Running /\ na' = remove_na_lease(na, d)
    /\ UNCHANGED << pd, parent, pdRoutes, prefixChanges, unrelated >>

\* A neighbour advertisement of an address nobody owns (record_slaac_addr).
record_slaac_addr(s) ==
    /\ Running /\ na.owners[s] = Nobody
    /\ na' = [leases |-> na.leases, owners |-> na.owners, statics |-> na.statics, slaac |-> na.slaac \cup {s}]
    /\ UNCHANGED << pd, parent, pdRoutes, prefixChanges, unrelated >>

\* The timer: leases and SLAAC addresses that have run out.
handle_expire_tick ==
    /\ Running
    /\ \E E \in MayExpire(na), P \in SUBSET {d \in Duids : pd.leases[d].slot # 0}, A \in SUBSET na.slaac :
          LET t == clean_expired_na(na, E) IN
          /\ na' = [leases |-> t.leases, owners |-> t.owners, statics |-> t.statics, slaac |-> t.slaac \ A]
          /\ pd' = PdReleases(pd, P) /\ pdRoutes' = pdRoutes \ ReleasedRoutes(P)
    /\ UNCHANGED << parent, prefixChanges, unrelated >>

(***************************************************************************)
(* The server's loop: prefix changes, start and stop.                      *)
(***************************************************************************)
\* A lease whose route is not the one its slot resolves to now.
Stale(d, p) == pd.leases[d].route # 0 /\ pd.leases[d].route # p

\* recompute_and_diff and reconcile_pd_routes
PrefixChanges ==
    /\ Running /\ prefixChanges < MaxPrefixChanges /\ prefixChanges' = prefixChanges + 1
    /\ \E p \in (Parents \cup {0}) \ {parent} :
          /\ parent' = p
          /\ pd' = [leases |-> [d \in Duids |-> IF Stale(d, p) THEN [slot |-> pd.leases[d].slot, route |-> 0] ELSE pd.leases[d]],
                    owners |-> pd.owners]
          /\ pdRoutes' = pdRoutes \ {<< pd.leases[d].route, pd.leases[d].slot >> : d \in {x \in Duids : Stale(x, p)}}
    /\ UNCHANGED << na, unrelated >>

\* start: the devices are read, and the status published in a later step.
ServerStarts ==
    /\ serving = "off" /\ serverRuns < MaxServerRuns /\ serverRuns' = serverRuns + 1
    /\ na' = NewStatus(enrolled) /\ pd' = NoPd /\ serving' = "starting" /\ missedMacs' = {}
    /\ UNCHANGED << parent, pdRoutes, enrolled, devQueue, deviceEdits, prefixChanges >>

ServerPublished ==
    /\ serving = "starting" /\ serving' = "running"
    /\ UNCHANGED << na, pd, parent, pdRoutes, enrolled, devQueue, missedMacs, deviceEdits, prefixChanges, serverRuns >>

\* The stop branch and the clean-up: drain_all_pd_routes.
ServerStops ==
    /\ Running /\ serving' = "off" /\ missedMacs' = {}
    /\ na' = NewStatus([m \in ClientMacs |-> 0]) /\ pd' = NoPd
    /\ pdRoutes' = pdRoutes \ ReleasedRoutes(Duids)
    /\ UNCHANGED << parent, enrolled, devQueue, deviceEdits, prefixChanges, serverRuns >>

(***************************************************************************)
(* Enrolled devices.                                                       *)
(***************************************************************************)
\* A device is enrolled, changed (its MAC too) or deleted; no two devices get the same suffix.
DeviceEdited ==
    /\ deviceEdits < MaxDeviceEdits /\ deviceEdits' = deviceEdits + 1 /\ Len(devQueue) < DeviceQueue
    /\ \E old \in ClientMacs \cup {NoMac6}, new \in ClientMacs \cup {NoMac6}, s \in Suffixes :
          /\ old # NoMac6 \/ new # NoMac6
          /\ old # NoMac6 => enrolled[old] # 0
          /\ new # NoMac6 => (new = old \/ enrolled[new] = 0) /\ \A m \in ClientMacs \ {old} : enrolled[m] # s
          /\ enrolled' = [m \in ClientMacs |-> IF m = new THEN s ELSE IF m = old THEN 0 ELSE enrolled[m]]
          /\ devQueue' = Append(devQueue, [old |-> old, new |-> new, suffix |-> IF new = NoMac6 THEN 0 ELSE s])
    /\ UNCHANGED << na, pd, parent, pdRoutes, serving, missedMacs, prefixChanges, serverRuns >>

\* The observer's handling of Updated and Deleted: unbind the old MAC, then bind the new one.
Applied(t, e, E) ==
    LET first == IF e.old = NoMac6 THEN {t} ELSE update_device_binding(t, e.old, 0, E)
    IN IF e.new = NoMac6 THEN first ELSE UNION {update_device_binding(u, e.new, e.suffix, E) : u \in first}

\* A MAC whose event was missed still has the suffix of the new device, which is refused.
RefusedForMissed(e) ==
    e.new # NoMac6 /\ \E x \in missedMacs \ {e.old, e.new} : na.statics[x] = e.suffix

\* An event that arrives before the status is published is lost.
ObserverApplies ==
    /\ devQueue # << >> /\ devQueue' = Tail(devQueue)
    /\ IF Running THEN \E E \in MayExpire(na) : na' \in Applied(na, Head(devQueue), E) ELSE UNCHANGED na
    /\ LET e == Head(devQueue) IN
       missedMacs' = missedMacs \cup (IF serving = "starting" THEN {e.old, e.new} \ {NoMac6}
                                      ELSE IF Running /\ RefusedForMissed(e) THEN {e.new} ELSE {})
    /\ UNCHANGED << pd, parent, pdRoutes, enrolled, serving, deviceEdits, prefixChanges, serverRuns >>

LeaseInit ==
    /\ na = NewStatus([m \in ClientMacs |-> 0]) /\ pd = NoPd /\ parent \in Parents \cup {0} /\ pdRoutes = {}
    /\ enrolled = [m \in ClientMacs |-> 0] /\ devQueue = << >> /\ serving = "off" /\ missedMacs = {}
    /\ deviceEdits = 0 /\ prefixChanges = 0 /\ serverRuns = 0

Messages ==
    \/ \E d \in Duids, m \in ClientMacs, wantsNa, wantsPd \in BOOLEAN :
          /\ wantsNa \/ wantsPd
          /\ handle_solicit(d, m, wantsNa, wantsPd) \/ handle_request_or_renew(d, m, wantsNa, wantsPd)
    \/ \E d \in Duids : handle_release(d) \/ handle_decline(d)
    \/ \E s \in Suffixes : record_slaac_addr(s)

LeaseNext ==
    \/ Messages \/ handle_expire_tick \/ PrefixChanges
    \/ ServerStarts \/ ServerPublished \/ ServerStops
    \/ DeviceEdited \/ ObserverApplies

LeaseSpec == LeaseInit /\ [][LeaseNext]_leaseVars

(***************************************************************************)
(* Properties.                                                             *)
(***************************************************************************)
NaTables == [ leases  : [Duids -> [suffix : Suffixes \cup {0}, mac : ClientMacs \cup {NoMac6}, static : BOOLEAN]],
              owners  : [Suffixes -> [by : {"none", "mac", "duid"}, duid : Duids \cup {NoDuid}, mac : ClientMacs \cup {NoMac6}]],
              statics : [ClientMacs -> Suffixes \cup {0}],
              slaac   : SUBSET Suffixes ]

\* Types of the lease tables, the routes and the device queue, which never holds more than its capacity.
LeaseTypeOK ==
    /\ na \in NaTables
    /\ pd \in [leases : [Duids -> [slot : PdSlots \cup {0}, route : Parents \cup {0}]], owners : [PdSlots -> Duids \cup {NoDuid}]]
    /\ parent \in Parents \cup {0} /\ pdRoutes \subseteq Parents \X PdSlots
    /\ enrolled \in [ClientMacs -> Suffixes \cup {0}] /\ Len(devQueue) <= DeviceQueue
    /\ serving \in {"off", "starting", "running"} /\ missedMacs \subseteq ClientMacs

\* The owner table is the inverse of leases and bindings: a dynamic lease owns its suffix and every
\* suffix owned by a DUID is leased to it; a static lease lies on the binding of its MAC; every
\* binding owns its suffix.
NaAgree ==
    /\ \A d \in Duids : DynamicLease(na, d) => na.owners[na.leases[d].suffix] = DynamicDuid(d)
    /\ \A d \in Duids : (Leased(na, d) /\ na.leases[d].static) => na.statics[na.leases[d].mac] = na.leases[d].suffix
    /\ \A m \in ClientMacs : na.statics[m] # 0 => na.owners[na.statics[m]] = StaticMac(m)
    /\ \A s \in Suffixes :
          /\ na.owners[s].by = "duid" => DynamicLease(na, na.owners[s].duid) /\ na.leases[na.owners[s].duid].suffix = s
          /\ na.owners[s].by = "mac" => na.statics[na.owners[s].mac] = s

\* No address is leased twice, whatever order renewals, expiries, evictions and changes of the
\* bindings come in, and no MAC has two static leases.
NoSharedSuffix ==
    \A d, e \in Duids : (d # e /\ Leased(na, d) /\ Leased(na, e)) => na.leases[d].suffix # na.leases[e].suffix

\* Once the observer has applied every event, the bindings are those of the device store, except for
\* devices whose event passed between the server's reading of the store and its publication, and
\* those that were refused a suffix because such a device still had it.
StaticsFollow ==
    (Running /\ devQueue = << >>) => \A m \in ClientMacs \ missedMacs : na.statics[m] = enrolled[m]

\* The routes on the host are exactly those the leases record, one per delegated prefix: a prefix
\* change, an expiry, a release or a stop leaves none behind and takes none away.
PdRoutesTracked ==
    /\ pdRoutes = {<< pd.leases[d].route, pd.leases[d].slot >> : d \in {x \in Duids : pd.leases[x].route # 0}}
    /\ \A d \in Duids : pd.leases[d].route # 0 => pd.leases[d].slot # 0 /\ pd.leases[d].route = parent

\* A slot is owned by the DUID that leases it, and by no other.
PdSlotsAgree ==
    /\ \A d \in Duids : pd.leases[d].slot # 0 => pd.owners[pd.leases[d].slot] = d
    /\ \A k \in PdSlots : pd.owners[k] # NoDuid => pd.leases[pd.owners[k]].slot = k

\* The DHCPv6 tables agree after every message, expiry, static binding and
\* change of the parent prefix: leases and owners name each other, no suffix
\* is leased twice, a delegated prefix owns its slot, and the routes on the
\* host are exactly those the leases record.
LeaseInv ==
    /\ LeaseTypeOK
    /\ NaAgree
    /\ NoSharedSuffix
    /\ PdRoutesTracked
    /\ PdSlotsAgree

\* A SLAAC address is forgotten once its suffix has an owner.  False: bind_mac_suffix leaves it.
SlaacDisjoint == \A s \in na.slaac : na.owners[s] = Nobody

=============================================================================
