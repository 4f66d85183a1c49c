----------------------------- MODULE DhcpV4Pool -----------------------------
(***************************************************************************)
(* The address pool of the LAN DHCPv4 server: DhcpV4AssignStatus with its  *)
(* four tables, the message handler that reads and writes it, and the      *)
(* observer that applies enrolled-device events to it.                     *)
(*                                                                         *)
(* Every handler holds the pool's mutex for its whole change, so it is one *)
(* action.  Addresses are numbers; the dynamic range is 0..Cap-1 (the end  *)
(* of the configured range is not included).  The address a new offer gets *)
(* depends on a checksum of the MAC: any free address of the range may be  *)
(* the one.  Clocks are a flag per offer, set once its expire time passed. *)
(* Host names, custom options, prev_ip (written, never read) and the       *)
(* layout of the packets are left out.                                     *)
(***************************************************************************)
EXTENDS Integers, Sequences, FiniteSets

CONSTANTS
  Macs,        \* hardware addresses of the LAN's clients and devices
  NoMac,       \* no device
  Cap,         \* range_capacity: number of addresses of the dynamic range
  Reserved,    \* addresses of the subnet outside the dynamic range
  Away,        \* addresses in the subnets of other interfaces
  Honest,      \* TRUE: clients release and decline only their own address
  EventCap,    \* capacity of the device event broadcast
  MaxPushes,   \* bound: changes of enrolled devices
  MaxStarts    \* bound: restarts of the service

DynRange == 0 .. (Cap - 1)
Subnet == DynRange \cup Reserved
Addrs == Subnet \cup Away
NoIp == -1

ASSUME PoolConstants ==
  /\ NoMac \notin Macs
  /\ Cap \in Nat \ {0}
  /\ Reserved \subseteq Nat /\ Away \subseteq Nat
  /\ DynRange \cap Reserved = {} /\ Subnet \cap Away = {}
  /\ Honest \in BOOLEAN
  /\ EventCap \in Nat \ {0} /\ MaxPushes \in Nat /\ MaxStarts \in Nat

VARIABLES
  pool,      \* [bind, owner, alloc, offer, hung]: the shared status
  loaded,    \* the devices a starting service has read and not yet installed
  starting,  \* TRUE between the read of the bindings and the installation
  device,    \* database: the IPv4 address enrolled for a MAC
  events,    \* device events on their way to the observer
  lagged,    \* the broadcast has overwritten an event the observer has not read
  listening, \* the observer's loop is running
  missed,    \* history: an event went to a status about to be replaced
  lease,     \* history: the address each client was last promised
  bound,     \* history: the addresses that had a static binding in a status
  pushes, starts

poolVars == << pool, loaded, starting, device, events, lagged, listening,
               missed, lease, bound, pushes, starts >>

(***************************************************************************)
(* Tables.  bind: static_bindings, owner: ip_owner, alloc: allocated_host, *)
(* offer: offered_ip.                                                      *)
(***************************************************************************)
Free     == [kind |-> "free",     mac |-> NoMac]
Dynamic  == [kind |-> "dynamic",  mac |-> NoMac]
Declined == [kind |-> "declined", mac |-> NoMac]
Static(m) == [kind |-> "static", mac |-> m]
Sources == {Free, Dynamic, Declined} \cup {Static(m) : m \in Macs}

NoOffer == [ip |-> NoIp, static |-> FALSE, expired |-> FALSE]
Offer(a, s) == [ip |-> a, static |-> s, expired |-> FALSE]
Offers == [ip : Addrs \cup {NoIp}, static : BOOLEAN, expired : BOOLEAN]

Pools == [bind : [Macs -> Addrs \cup {NoIp}], owner : [Addrs -> Macs \cup {NoMac}],
          alloc : [Addrs -> Sources], offer : [Macs -> Offers], hung : BOOLEAN]

Allocated(p) == {a \in Addrs : p.alloc[a] # Free}
FreeInRange(p) == {a \in DynRange : p.alloc[a] = Free}
is_ip_in_range(a) == a \in DynRange

Put(f, x, v) == [f EXCEPT ![x] = v]
WithOffer(p, m, o, a, s) == [p EXCEPT !.offer = Put(p.offer, m, o), !.alloc = Put(p.alloc, a, s)]

Expired(p) == {m \in Macs : p.offer[m].ip # NoIp /\ ~p.offer[m].static /\ p.offer[m].expired}

clean_expire_ip(p) ==
  [p EXCEPT
    !.offer = [m \in Macs |-> IF m \in Expired(p) THEN NoOffer ELSE p.offer[m]],
    !.alloc = [a \in Addrs |-> IF p.alloc[a] = Declined \/ \E m \in Expired(p) : p.offer[m].ip = a
                               THEN Free ELSE p.alloc[a]]]

(***************************************************************************)
(* offer_ip: the pools it may leave behind.  The search stops when the     *)
(* number of allocated addresses equals the capacity and the clean-up      *)
(* finds nothing; otherwise it looks for a free address of the range until *)
(* there is one.                                                           *)
(***************************************************************************)
StaticOffer(p, m) ==
  LET ip  == p.bind[m]
      old == p.offer[m].ip
      al  == IF old # NoIp /\ old # ip THEN Put(p.alloc, old, Free) ELSE p.alloc
  IN  WithOffer([p EXCEPT !.alloc = al], m, Offer(ip, TRUE), ip, Static(m))

Assign(p, m) == {WithOffer(p, m, Offer(a, FALSE), a, Dynamic) : a \in FreeInRange(p)}

Full(p) == Cardinality(Allocated(p)) = Cap

Search(p, m) ==
  LET q == clean_expire_ip(p) IN
  CASE Full(p) /\ Expired(p) = {} -> {q}
    [] Full(p) /\ Expired(p) # {} ->
         Assign(q, m) \cup (IF Full(q) /\ FreeInRange(q) # DynRange THEN {q} ELSE {})
    [] OTHER -> IF FreeInRange(p) = {} THEN {[p EXCEPT !.hung = TRUE]} ELSE Assign(p, m)

offer_ip(p, m) ==
  IF p.bind[m] # NoIp THEN {StaticOffer(p, m)}
  ELSE IF p.offer[m].ip # NoIp THEN {p}
  ELSE Search(p, m)

(***************************************************************************)
(* ack_request                                                             *)
(***************************************************************************)
conflicts_with_static_binding(p, m, a) ==
  \/ p.bind[m] # NoIp /\ p.bind[m] # a
  \/ p.owner[a] # NoMac /\ p.owner[a] # m

\* Mutant: an address somebody else was offered is leased to whoever asks.
Acked_taken(p, m, a) ==
  /\ ~conflicts_with_static_binding(p, m, a)
  /\ IF p.offer[m].ip # NoIp THEN p.offer[m].ip = a ELSE is_ip_in_range(a)

Acked(p, m, a) ==
  /\ ~conflicts_with_static_binding(p, m, a)
  /\ IF p.offer[m].ip # NoIp THEN p.offer[m].ip = a
     ELSE p.alloc[a] = Free /\ is_ip_in_range(a)

ack_request(p, m, a) ==
  IF ~Acked(p, m, a) THEN p
  ELSE IF p.offer[m].ip # NoIp THEN [p EXCEPT !.offer = Put(p.offer, m, Offer(a, p.offer[m].static))]
  ELSE WithOffer(p, m, Offer(a, FALSE), a, Dynamic)

release_ip(p, m, a) ==
  IF p.offer[m].ip = NoIp THEN p ELSE WithOffer(p, m, NoOffer, a, Free)

add_decline_ip(p, a) == [p EXCEPT !.alloc[a] = IF p.alloc[a] = Free THEN Declined ELSE @]

(***************************************************************************)
(* Static bindings                                                         *)
(***************************************************************************)
DynamicOwners(p, a) == {m \in Macs : p.offer[m].ip = a /\ ~p.offer[m].static}

remove_binding(p, m) ==
  IF p.bind[m] = NoIp THEN p
  ELSE LET a == p.bind[m]
           q == [p EXCEPT !.bind = Put(p.bind, m, NoIp), !.owner = Put(p.owner, a, NoMac),
                          !.offer = Put(p.offer, m, NoOffer)]
       IN  IF q.alloc[a] = Static(m) /\ DynamicOwners(q, a) = {}
           THEN [q EXCEPT !.alloc = Put(q.alloc, a, Free)] ELSE q

\* The binding a MAC already has is dropped before it gets another one.
DropBinding(p, m) ==
  IF p.bind[m] = NoIp THEN p
  ELSE LET a == p.bind[m] IN
       [p EXCEPT !.bind = Put(p.bind, m, NoIp), !.owner = Put(p.owner, a, NoMac),
                 !.alloc = IF p.alloc[a] = Static(m) THEN Put(p.alloc, a, Free) ELSE p.alloc,
                 !.offer = Put(p.offer, m, NoOffer)]

\* The address's previous static owner loses binding and offer.
TakeOver(p, m, a) ==
  LET prev == p.owner[a]
      bind == IF prev \in Macs /\ prev # m THEN Put(p.bind, prev, NoIp) ELSE p.bind
      offer == IF prev \in Macs /\ prev # m THEN Put(p.offer, prev, NoOffer) ELSE p.offer
  IN  [p EXCEPT !.bind = Put(bind, m, a), !.owner = Put(p.owner, a, m),
                !.alloc = Put(p.alloc, a, Static(m)), !.offer = Put(offer, m, Offer(a, TRUE))]

\* The pools a new or changed binding may leave: a client that holds the address
\* dynamically is offered another one at once.
add_or_update_binding(p, m, a) ==
  IF p.alloc[a] # Dynamic \/ DynamicOwners(p, a) = {}
  THEN {TakeOver(DropBinding(p, m), m, a)}
  ELSE UNION {LET q == [p EXCEPT !.offer = Put(p.offer, z, NoOffer)]
              IN  offer_ip(TakeOver(DropBinding(q, m), m, a), z) : z \in DynamicOwners(p, a)}

\* from_config_and_devices, for devices with different addresses (the database
\* accepts no two devices with one MAC or one IPv4 address).
from_config_and_devices(dev) ==
  LET Enrolled == {m \in Macs : dev[m] \in Subnet}
      OwnerOf(a) == {m \in Enrolled : dev[m] = a}
      Pick(a) == IF OwnerOf(a) = {} THEN NoMac ELSE CHOOSE m \in OwnerOf(a) : TRUE
  IN  [bind  |-> [m \in Macs |-> IF m \in Enrolled THEN dev[m] ELSE NoIp],
       owner |-> [a \in Addrs |-> Pick(a)],
       alloc |-> [a \in Addrs |-> IF Pick(a) = NoMac THEN Free ELSE Static(Pick(a))],
       offer |-> [m \in Macs |-> IF m \in Enrolled THEN Offer(dev[m], TRUE) ELSE NoOffer],
       hung  |-> FALSE]

(***************************************************************************)
(* Actions                                                                 *)
(***************************************************************************)
NoBindings == [m \in Macs |-> NoIp]

\* Devices of a database: no two of them have the same address.
Distinct(dev) == \A m, n \in Macs : m # n /\ dev[m] = dev[n] => dev[m] = NoIp

BoundIn(dev) == {a \in Subnet : \E m \in Macs : dev[m] = a}

PoolInit ==
  /\ device \in {d \in [Macs -> Addrs \cup {NoIp}] : Distinct(d)}
  /\ pool = from_config_and_devices(device)
  /\ loaded = NoBindings /\ starting = FALSE
  /\ events = << >> /\ lagged = FALSE /\ listening = TRUE /\ missed = FALSE
  /\ lease = NoBindings /\ bound = BoundIn(device)
  /\ pushes = 0 /\ starts = 0

Serving == ~pool.hung
admin == << loaded, starting, device, events, lagged, listening, missed, bound, pushes, starts >>

\* gen_offer: an offer is no promise yet (a cached one stays what it is).
Discover(m) ==
  /\ Serving
  /\ pool' \in offer_ip(pool, m)
  /\ UNCHANGED << lease, admin >>

\* gen_ack: ACK promises the address, NAK ends what the client holds.
Request(m, a) ==
  /\ Serving
  /\ pool' = ack_request(pool, m, a)
  /\ lease' = Put(lease, m, IF Acked(pool, m, a) THEN a ELSE NoIp)
  /\ UNCHANGED admin

Decline(m, a) ==
  /\ Serving /\ (Honest => lease[m] = a)
  /\ pool' = add_decline_ip(pool, a)
  /\ lease' = IF lease[m] = a THEN Put(lease, m, NoIp) ELSE lease
  /\ UNCHANGED admin

Release(m, a) ==
  /\ Serving /\ (Honest => lease[m] = a)
  /\ pool' = release_ip(pool, m, a)
  /\ lease' = Put(lease, m, NoIp)
  /\ UNCHANGED admin

\* The expire time of an offer passes: the client gives up the address, too.
Elapse(m) ==
  /\ pool.offer[m].ip # NoIp /\ ~pool.offer[m].static /\ ~pool.offer[m].expired
  /\ pool' = [pool EXCEPT !.offer = Put(pool.offer, m, [pool.offer[m] EXCEPT !.expired = TRUE])]
  /\ lease' = Put(lease, m, NoIp)
  /\ UNCHANGED admin

\* The 600 s timer.
ExpireTimer ==
  /\ Serving
  /\ pool' = clean_expire_ip(pool)
  /\ UNCHANGED << lease, admin >>

\* The broadcast keeps EventCap events; a reader that is behind has lost one.
Send(e) ==
  /\ events' = IF Len(events) = EventCap THEN Append(Tail(events), e) ELSE Append(events, e)
  /\ lagged' = (lagged \/ Len(events) = EventCap)

\* EnrolledDeviceService::push: device o becomes device m with address a; the
\* event goes to the interfaces the device was or is enrolled on.
PushDevice(o, m, a) ==
  /\ pushes < MaxPushes
  /\ m = o \/ device[m] = NoIp
  /\ a # NoIp => \A n \in Macs \ {o} : device[n] # a
  /\ device' = Put(Put(device, o, NoIp), m, a)
  /\ IF device[o] \in Subnet \/ a \in Subnet
     THEN Send([del |-> o, add |-> IF a = NoIp THEN NoMac ELSE m, ip |-> a])
     ELSE UNCHANGED << events, lagged >>
  /\ pushes' = pushes + 1
  /\ UNCHANGED << pool, loaded, starting, listening, missed, lease, bound, starts >>

\* EnrolledDeviceService::delete
DeleteDevice(m) ==
  /\ pushes < MaxPushes
  /\ device[m] # NoIp
  /\ device' = Put(device, m, NoIp)
  /\ IF device[m] \in Subnet THEN Send([del |-> m, add |-> NoMac, ip |-> NoIp])
     ELSE UNCHANGED << events, lagged >>
  /\ pushes' = pushes + 1
  /\ UNCHANGED << pool, loaded, starting, listening, missed, lease, bound, starts >>

\* Promises the operator revokes: the server has dropped the client's offer or
\* exchanged it for another address.
Kept(p, q) == [m \in Macs |-> IF q.offer[m].ip = p.offer[m].ip THEN lease[m] ELSE NoIp]

\* Mutant: a device that changes its MAC keeps the old binding.
ApplyEvent_addOnly ==
  /\ Serving /\ listening /\ ~lagged /\ events # << >>
  /\ LET e == Head(events)
     IN  /\ pool' \in IF e.add = NoMac THEN {remove_binding(pool, e.del)}
                     ELSE add_or_update_binding(pool, e.add, e.ip)
         /\ lease' = Kept(pool, pool')
         /\ bound' = bound \cup ({e.ip} \ {NoIp})
  /\ events' = Tail(events)
  /\ missed' = (missed \/ starting)
  /\ UNCHANGED << loaded, starting, device, lagged, listening, pushes, starts >>

\* The observer applies one event under the pool's lock: the old device's binding
\* is removed, then the new one added.
ApplyEvent ==
  /\ Serving /\ listening /\ ~lagged /\ events # << >>
  /\ LET e == Head(events)
         p == remove_binding(pool, e.del)
     IN  /\ pool' \in IF e.add = NoMac THEN {p} ELSE add_or_update_binding(p, e.add, e.ip)
         /\ lease' = Kept(pool, pool')
         /\ bound' = bound \cup ({e.ip} \ {NoIp})
  /\ events' = Tail(events)
  /\ missed' = (missed \/ starting)
  /\ UNCHANGED << loaded, starting, device, lagged, listening, pushes, starts >>

\* recv reports Lagged: the observer's loop ends.
LosesEvents ==
  /\ listening /\ lagged
  /\ listening' = FALSE
  /\ UNCHANGED << pool, loaded, starting, device, events, lagged, missed, lease, bound, pushes, starts >>

\* Start of the service, first half: the bindings are read from the database.
StartReads ==
  /\ starts < MaxStarts /\ ~starting
  /\ loaded' = device /\ starting' = TRUE
  /\ starts' = starts + 1
  /\ UNCHANGED << pool, device, events, lagged, listening, missed, lease, bound, pushes >>

\* Second half: the new status replaces the old one, which knew the leases.
StartInstalls ==
  /\ starting
  /\ pool' = from_config_and_devices(loaded) /\ starting' = FALSE
  /\ lease' = NoBindings /\ loaded' = NoBindings
  /\ bound' = bound \cup BoundIn(loaded)
  /\ UNCHANGED << device, events, lagged, listening, missed, pushes, starts >>

PoolNext ==
  \/ \E m \in Macs : Discover(m) \/ Elapse(m) \/ DeleteDevice(m)
  \/ \E m \in Macs, a \in Addrs : Request(m, a) \/ Decline(m, a) \/ Release(m, a)
  \/ \E o, m \in Macs, a \in Addrs \cup {NoIp} : PushDevice(o, m, a)
  \/ ExpireTimer \/ ApplyEvent \/ LosesEvents \/ StartReads \/ StartInstalls

PoolSpec == PoolInit /\ [][PoolNext]_poolVars

(***************************************************************************)
(* Properties                                                              *)
(***************************************************************************)
Events == [del : Macs, add : Macs \cup {NoMac}, ip : Addrs \cup {NoIp}]

\* Types of the pool's tables, the observer's channel and the database.
PoolTypeOK ==
  /\ pool \in Pools /\ loaded \in [Macs -> Addrs \cup {NoIp}] /\ starting \in BOOLEAN
  /\ device \in [Macs -> Addrs \cup {NoIp}] /\ Distinct(device)
  /\ events \in Seq(Events) /\ Len(events) <= EventCap
  /\ lagged \in BOOLEAN /\ listening \in BOOLEAN /\ missed \in BOOLEAN
  /\ lease \in [Macs -> Addrs \cup {NoIp}] /\ bound \in SUBSET Addrs
  /\ pushes \in 0 .. MaxPushes /\ starts \in 0 .. MaxStarts

\* static_bindings and ip_owner are inverse to one another, and a static offer is
\* the bound address of its client, whatever sequence of events, offers and
\* releases came before.
BindingsAgree ==
  /\ \A m \in Macs, a \in Addrs : pool.bind[m] = a <=> pool.owner[a] = m
  /\ \A m \in Macs : pool.offer[m].static => pool.offer[m].ip = pool.bind[m]

\* No two clients are promised one address, except an address that had a static
\* binding: an expired, released, declined or refused address never reaches a
\* second client while the first still holds it.
NoDoubleLease ==
  \A m, n \in Macs : m # n /\ lease[m] = lease[n] => lease[m] \in bound \cup {NoIp}

\* The same without the exception.
NeverDoubleLease ==
  \A m, n \in Macs : m # n /\ lease[m] = lease[n] => lease[m] = NoIp

\* offer_ip always returns: the search for a free address never runs for ever
\* with the pool's lock held.
OfferReturns == ~pool.hung

\* The pool's tables agree after every message, expiry, event and static
\* binding; no address is promised to two clients, except one that had a
\* static binding; and offer_ip always returns, as long as every binding lies
\* inside the range.
PoolInv == PoolTypeOK /\ BindingsAgree /\ NoDoubleLease /\ OfferReturns

\* Once the observer has caught up, the pool's bindings are the devices of the
\* database, unless it fell behind the broadcast or a restart read the database
\* before an event and replaced the status after it.
BindingsCurrent ==
  listening /\ ~lagged /\ ~missed /\ ~starting /\ events = << >> =>
    pool.bind = [m \in Macs |-> IF device[m] \in Subnet THEN device[m] ELSE NoIp]

=============================================================================
