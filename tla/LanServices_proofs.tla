------------------------- MODULE LanServices_proofs -------------------------
(***************************************************************************)
(* Proofs about the servers of the LAN, for any number of clients,         *)
(* addresses, device changes and restarts: the tables of the DHCPv4 pool   *)
(* agree and no address is leased twice; so do those of the DHCPv6 server, *)
(* with the routes of its delegated prefixes; and what both hold for       *)
(* enrolled devices follows the database.  And about the connections the   *)
(* DNS server keeps to its upstreams, for any number of endpoints, lookups *)
(* and connections.                                                        *)
(***************************************************************************)
EXTENDS MCLanServices, WellFoundedInduction, FiniteSetTheorems, SequenceTheorems, TLAPS

(***************************************************************************)
(* DhcpV4Pool: the inductive invariant, in terms of a pool p.              *)
(***************************************************************************)
\* static_bindings and ip_owner are inverse to one another; a static offer is
\* the bound address, and a client with a binding is offered nothing else.
Tables(p) ==
  /\ \A m \in Macs, a \in Addrs : p.bind[m] = a <=> p.owner[a] = m
  /\ \A m \in Macs : p.offer[m].static => p.offer[m].ip = p.bind[m]
  /\ \A m \in Macs : p.bind[m] # NoIp /\ p.offer[m].ip # NoIp => p.offer[m].ip = p.bind[m]

\* All bound addresses are in B, and an offered address outside B is marked as
\* allocated and offered to one client.
Apart(p, B) ==
  \A m \in Macs :
    /\ p.bind[m] \in B \cup {NoIp}
    /\ p.offer[m].ip \notin B \cup {NoIp} =>
         /\ p.alloc[p.offer[m].ip] = Dynamic
         /\ \A n \in Macs : p.offer[n].ip = p.offer[m].ip => n = m

\* What a client was promised it is still offered.
LeasesHeld == \A m \in Macs : lease[m] # NoIp => pool.offer[m].ip = lease[m] /\ ~pool.offer[m].expired

\* An event that adds a device names its address.
EventsNamed == \A i \in 1 .. Len(events) : events[i].add # NoMac => events[i].ip # NoIp

\* With every address in the range, and clients that release only their own.
PoolIInv ==
  /\ PoolTypeOK /\ Tables(pool) /\ LeasesHeld /\ EventsNamed /\ Distinct(loaded)
  /\ Honest => Apart(pool, bound)
  /\ Addrs = DynRange => ~pool.hung

(***************************************************************************)
(* DhcpV4Pool: the tables.                                                 *)
(***************************************************************************)
LEMMA PoolSets ==
  /\ NoIp \notin Addrs /\ DynRange \subseteq Addrs /\ Subnet \subseteq Addrs /\ NoMac \notin Macs
  <1>1. NoIp \notin Nat /\ DynRange \subseteq Nat
    BY PoolConstants DEF NoIp, DynRange
  <1>2. Reserved \subseteq Nat /\ Away \subseteq Nat /\ NoMac \notin Macs
    BY PoolConstants
  <1> QED BY <1>1, <1>2 DEF Addrs, Subnet

LEMMA PoolRecords ==
  /\ NoOffer \in Offers /\ NoOffer.ip = NoIp /\ NoOffer.static = FALSE /\ NoOffer.expired = FALSE
  /\ \A a \in Addrs, s \in BOOLEAN :
       Offer(a, s) \in Offers /\ Offer(a, s).ip = a /\ Offer(a, s).static = s /\ Offer(a, s).expired = FALSE
  /\ Free \in Sources /\ Dynamic \in Sources /\ Declined \in Sources
  /\ \A m \in Macs : Static(m) \in Sources
  /\ Dynamic # Free /\ Dynamic # Declined
  BY DEF NoOffer, Offer, Offers, Free, Dynamic, Declined, Static, Sources

LEMMA OfferFields ==
  ASSUME NEW o \in Offers
  PROVE  o.ip \in Addrs \cup {NoIp} /\ o.static \in BOOLEAN /\ o.expired \in BOOLEAN
  BY DEF Offers

LEMMA PoolFields ==
  ASSUME NEW p \in Pools
  PROVE  /\ p.bind \in [Macs -> Addrs \cup {NoIp}] /\ p.owner \in [Addrs -> Macs \cup {NoMac}]
         /\ p.alloc \in [Addrs -> Sources] /\ p.offer \in [Macs -> Offers] /\ p.hung \in BOOLEAN
  BY DEF Pools

\* A pool with one of its tables replaced.
LEMMA EditOffer ==
  ASSUME NEW p \in Pools, NEW o \in [Macs -> Offers], NEW q, q = [p EXCEPT !.offer = o]
  PROVE  q \in Pools /\ q.bind = p.bind /\ q.owner = p.owner /\ q.alloc = p.alloc /\ q.offer = o /\ q.hung = p.hung
  BY DEF Pools

LEMMA EditAlloc ==
  ASSUME NEW p \in Pools, NEW l \in [Addrs -> Sources], NEW q, q = [p EXCEPT !.alloc = l]
  PROVE  q \in Pools /\ q.bind = p.bind /\ q.owner = p.owner /\ q.alloc = l /\ q.offer = p.offer /\ q.hung = p.hung
  BY DEF Pools

LEMMA EditBind ==
  ASSUME NEW p \in Pools, NEW b \in [Macs -> Addrs \cup {NoIp}], NEW q, q = [p EXCEPT !.bind = b]
  PROVE  q \in Pools /\ q.bind = b /\ q.owner = p.owner /\ q.alloc = p.alloc /\ q.offer = p.offer /\ q.hung = p.hung
  BY DEF Pools

LEMMA EditOwner ==
  ASSUME NEW p \in Pools, NEW w \in [Addrs -> Macs \cup {NoMac}], NEW q, q = [p EXCEPT !.owner = w]
  PROVE  q \in Pools /\ q.bind = p.bind /\ q.owner = w /\ q.alloc = p.alloc /\ q.offer = p.offer /\ q.hung = p.hung
  BY DEF Pools

\* What the operators below keep: offers that have not expired, and what they
\* hand out is not expired.
Keeps(p, q) ==
  \A n \in Macs : ~p.offer[n].expired /\ p.offer[n].ip # NoIp =>
                    q.offer[n].ip = p.offer[n].ip /\ ~q.offer[n].expired
Fresh(p, q) == \A n \in Macs : q.offer[n] = p.offer[n] \/ ~q.offer[n].expired

\* A table with one of its entries replaced.
LEMMA PutOffer ==
  ASSUME NEW f \in [Macs -> Offers], NEW x \in Macs, NEW v \in Offers
  PROVE  \E g : g \in [Macs -> Offers] /\ g = Put(f, x, v) /\ \A y \in Macs : g[y] = IF y = x THEN v ELSE f[y]
  <1>1. PICK g : g = Put(f, x, v)
    OBVIOUS
  <1>2. g \in [Macs -> Offers] /\ \A y \in Macs : g[y] = IF y = x THEN v ELSE f[y]
    BY <1>1 DEF Put
  <1> QED BY <1>1, <1>2

LEMMA PutAlloc ==
  ASSUME NEW f \in [Addrs -> Sources], NEW x \in Addrs, NEW v \in Sources
  PROVE  \E g : g \in [Addrs -> Sources] /\ g = Put(f, x, v) /\ \A y \in Addrs : g[y] = IF y = x THEN v ELSE f[y]
  <1>1. PICK g : g = Put(f, x, v)
    OBVIOUS
  <1>2. g \in [Addrs -> Sources] /\ \A y \in Addrs : g[y] = IF y = x THEN v ELSE f[y]
    BY <1>1 DEF Put
  <1> QED BY <1>1, <1>2

LEMMA PutBind ==
  ASSUME NEW f \in [Macs -> Addrs \cup {NoIp}], NEW x \in Macs, NEW v \in Addrs \cup {NoIp}
  PROVE  \E g : g \in [Macs -> Addrs \cup {NoIp}] /\ g = Put(f, x, v) /\ \A y \in Macs : g[y] = IF y = x THEN v ELSE f[y]
  <1>1. PICK g : g = Put(f, x, v)
    OBVIOUS
  <1>2. g \in [Macs -> Addrs \cup {NoIp}] /\ \A y \in Macs : g[y] = IF y = x THEN v ELSE f[y]
    BY <1>1 DEF Put
  <1> QED BY <1>1, <1>2

LEMMA PutOwner ==
  ASSUME NEW f \in [Addrs -> Macs \cup {NoMac}], NEW x \in Addrs, NEW v \in Macs \cup {NoMac}
  PROVE  \E g : g \in [Addrs -> Macs \cup {NoMac}] /\ g = Put(f, x, v) /\ \A y \in Addrs : g[y] = IF y = x THEN v ELSE f[y]
  <1>1. PICK g : g = Put(f, x, v)
    OBVIOUS
  <1>2. g \in [Addrs -> Macs \cup {NoMac}] /\ \A y \in Addrs : g[y] = IF y = x THEN v ELSE f[y]
    BY <1>1 DEF Put
  <1> QED BY <1>1, <1>2

\* One offer and one allocation are replaced.
LEMMA WithOfferMade ==
  ASSUME NEW p \in Pools, NEW m \in Macs, NEW o \in Offers, NEW a \in Addrs, NEW s \in Sources,
         NEW q, q = WithOffer(p, m, o, a, s)
  PROVE  /\ q \in Pools /\ q.bind = p.bind /\ q.owner = p.owner /\ q.hung = p.hung
         /\ \A n \in Macs : q.offer[n] = IF n = m THEN o ELSE p.offer[n]
         /\ \A b \in Addrs : q.alloc[b] = IF b = a THEN s ELSE p.alloc[b]
  <1>0. PICK f0 \in [Macs -> Offers], l0 \in [Addrs -> Sources] : f0 = p.offer /\ l0 = p.alloc
    BY PoolFields
  <1>1. PICK f : /\ f \in [Macs -> Offers] /\ f = Put(f0, m, o)
                 /\ \A n \in Macs : f[n] = IF n = m THEN o ELSE f0[n]
    BY PutOffer
  <1>2. PICK l : /\ l \in [Addrs -> Sources] /\ l = Put(l0, a, s)
                 /\ \A b \in Addrs : l[b] = IF b = a THEN s ELSE l0[b]
    BY PutAlloc
  <1>3. PICK g : g = [p EXCEPT !.offer = f]
    OBVIOUS
  <1>4. g \in Pools /\ g.bind = p.bind /\ g.owner = p.owner /\ g.offer = f /\ g.hung = p.hung
    BY <1>1, <1>3, EditOffer
  <1>5. q = [g EXCEPT !.alloc = l]
    BY <1>0, <1>1, <1>2, <1>3 DEF WithOffer
  <1>6. q \in Pools /\ q.bind = g.bind /\ q.owner = g.owner /\ q.alloc = l /\ q.offer = g.offer /\ q.hung = g.hung
    BY <1>2, <1>4, <1>5, EditAlloc
  <1> QED BY <1>0, <1>1, <1>2, <1>4, <1>6

\* Pool q is p with another offer for m.
OfferSet(p, q, m, o) ==
  /\ q.bind = p.bind /\ q.owner = p.owner
  /\ \A n \in Macs : q.offer[n] = IF n = m THEN o ELSE p.offer[n]

\* A new offer for one client fits the bindings.
LEMMA OfferFits ==
  ASSUME NEW p \in Pools, Tables(p), NEW m \in Macs, NEW o \in Offers, NEW q \in Pools,
         OfferSet(p, q, m, o),
         o.static => o.ip = p.bind[m],
         p.bind[m] # NoIp /\ o.ip # NoIp => o.ip = p.bind[m]
  PROVE  Tables(q)
  BY DEF Tables, OfferSet

LEMMA OfferFresh ==
  ASSUME NEW p, NEW q, NEW m \in Macs, NEW o, ~o.expired, OfferSet(p, q, m, o)
  PROVE  /\ Fresh(p, q)
         /\ (p.offer[m].ip # NoIp => o.ip = p.offer[m].ip) => Keeps(p, q)
  BY DEF Fresh, Keeps, OfferSet

NoneElse(p, m, a) == \A n \in Macs : n # m => p.offer[n].ip # a

\* Nobody else is offered the address of a new offer, if it is not in B.
LEMMA OfferApart ==
  ASSUME NEW p \in Pools, NEW B, Apart(p, B), NEW m \in Macs, NEW o \in Offers, NEW q \in Pools,
         OfferSet(p, q, m, o),
         \A b \in Addrs : b \in {o.ip} \cup B \/ q.alloc[b] = p.alloc[b] \/ NoneElse(p, m, b),
         o.ip \notin B \cup {NoIp} => q.alloc[o.ip] = Dynamic /\ NoneElse(p, m, o.ip)
  PROVE  Apart(q, B)
  <1> USE DEF OfferSet, NoneElse
  <1> SUFFICES ASSUME NEW n \in Macs, q.offer[n].ip \notin B \cup {NoIp}
               PROVE  /\ q.alloc[q.offer[n].ip] = Dynamic
                      /\ \A k \in Macs : q.offer[k].ip = q.offer[n].ip => k = n
    BY DEF Apart
  <1>1. CASE n = m
    BY <1>1
  <1>2. CASE n # m
    <2>1. q.offer[n] = p.offer[n] /\ p.offer[n].ip \in Addrs
      BY <1>2, PoolFields, OfferFields
    <2>2. p.alloc[p.offer[n].ip] = Dynamic /\ \A k \in Macs : p.offer[k].ip = p.offer[n].ip => k = n
      BY <2>1 DEF Apart
    <2>3. p.offer[n].ip # o.ip
      BY <1>2, <2>1
    <2> QED BY <1>2, <2>1, <2>2, <2>3
  <1> QED BY <1>1, <1>2

(***************************************************************************)
(* DhcpV4Pool: expiry.                                                     *)
(***************************************************************************)
LEMMA CleanMade ==
  ASSUME NEW p \in Pools, NEW q, q = clean_expire_ip(p)
  PROVE  /\ q \in Pools /\ q.bind = p.bind /\ q.owner = p.owner /\ q.hung = p.hung
         /\ \A n \in Macs : q.offer[n] = IF n \in Expired(p) THEN NoOffer ELSE p.offer[n]
         /\ \A b \in Addrs : q.alloc[b] = IF p.alloc[b] = Declined \/ \E m \in Expired(p) : p.offer[m].ip = b
                                          THEN Free ELSE p.alloc[b]
  <1>1. PICK o : o = [m \in Macs |-> IF m \in Expired(p) THEN NoOffer ELSE p.offer[m]]
    OBVIOUS
  <1>2. PICK l : l = [a \in Addrs |-> IF p.alloc[a] = Declined \/ \E m \in Expired(p) : p.offer[m].ip = a
                                      THEN Free ELSE p.alloc[a]]
    OBVIOUS
  <1>3. o \in [Macs -> Offers]
    BY <1>1, PoolFields, PoolRecords
  <1>4. l \in [Addrs -> Sources]
    BY <1>2, PoolFields, PoolRecords
  <1>5. PICK g : g = [p EXCEPT !.offer = o]
    OBVIOUS
  <1>6. g \in Pools /\ g.bind = p.bind /\ g.owner = p.owner /\ g.offer = o /\ g.hung = p.hung
    BY <1>3, <1>5, EditOffer
  <1>7. q = [g EXCEPT !.alloc = l]
    BY <1>1, <1>2, <1>5 DEF clean_expire_ip
  <1>8. q \in Pools /\ q.bind = g.bind /\ q.owner = g.owner /\ q.alloc = l /\ q.offer = g.offer /\ q.hung = g.hung
    BY <1>4, <1>6, <1>7, EditAlloc
  <1> QED BY <1>1, <1>2, <1>6, <1>8

LEMMA CleanHolds ==
  ASSUME NEW p \in Pools, Tables(p), NEW q, q = clean_expire_ip(p)
  PROVE  /\ q \in Pools /\ Tables(q) /\ Keeps(p, q) /\ Fresh(p, q) /\ q.hung = p.hung
         /\ q.bind = p.bind /\ (\A m \in Macs : p.offer[m].ip = NoIp => q.offer[m].ip = NoIp)
         /\ \A B : Apart(p, B) => Apart(q, B)
  <1>1. /\ q \in Pools /\ q.bind = p.bind /\ q.owner = p.owner /\ q.hung = p.hung
        /\ \A n \in Macs : q.offer[n] = IF n \in Expired(p) THEN NoOffer ELSE p.offer[n]
        /\ \A b \in Addrs : q.alloc[b] = IF p.alloc[b] = Declined \/ \E m \in Expired(p) : p.offer[m].ip = b
                                         THEN Free ELSE p.alloc[b]
    BY CleanMade
  <1>2. Tables(q)
    BY <1>1, PoolRecords DEF Tables
  <1>3. Keeps(p, q) /\ Fresh(p, q) /\ (\A m \in Macs : p.offer[m].ip = NoIp => q.offer[m].ip = NoIp)
    BY <1>1, PoolRecords DEF Keeps, Fresh, Expired
  <1>4. ASSUME NEW B, Apart(p, B)
        PROVE  Apart(q, B)
    <2> SUFFICES ASSUME NEW n \in Macs, q.offer[n].ip \notin B \cup {NoIp}
                 PROVE  /\ q.alloc[q.offer[n].ip] = Dynamic
                        /\ \A k \in Macs : q.offer[k].ip = q.offer[n].ip => k = n
      BY <1>1, <1>4 DEF Apart
    <2>1. n \notin Expired(p) /\ q.offer[n] = p.offer[n] /\ p.offer[n].ip \in Addrs
      BY <1>1, PoolRecords, PoolFields, OfferFields
    <2>2. p.alloc[p.offer[n].ip] = Dynamic /\ \A k \in Macs : p.offer[k].ip = p.offer[n].ip => k = n
      BY <1>4, <2>1 DEF Apart
    <2>3. ~\E m \in Expired(p) : p.offer[m].ip = p.offer[n].ip
      BY <2>1, <2>2 DEF Expired
    <2>4. q.alloc[q.offer[n].ip] = Dynamic
      BY <1>1, <2>1, <2>2, <2>3, PoolRecords
    <2>5. \A k \in Macs : q.offer[k].ip = q.offer[n].ip => k = n
      BY <1>1, <2>1, <2>2, PoolRecords
    <2> QED BY <2>4, <2>5
  <1> QED BY <1>1, <1>2, <1>3, <1>4

(***************************************************************************)
(* DhcpV4Pool: offers and requests.                                        *)
(***************************************************************************)
\* What a step of the pool that leaves the bindings alone keeps.
Kept4(p, q) ==
  /\ q \in Pools /\ Tables(q) /\ Keeps(p, q) /\ Fresh(p, q)
  /\ \A B : Apart(p, B) => Apart(q, B)

LEMMA StaticOfferHolds ==
  ASSUME NEW p \in Pools, Tables(p), NEW m \in Macs, p.bind[m] # NoIp, NEW q, q = StaticOffer(p, m)
  PROVE  Kept4(p, q) /\ q.hung = p.hung
  <1>1. PICK ip \in Addrs : ip = p.bind[m]
    BY PoolFields
  <1>2. p.offer[m].ip \in {NoIp, ip}
    BY <1>1 DEF Tables
  <1>3. PICK g : g = [p EXCEPT !.alloc = p.alloc]
    OBVIOUS
  <1>4. g \in Pools /\ g.bind = p.bind /\ g.owner = p.owner /\ g.alloc = p.alloc /\ g.offer = p.offer /\ g.hung = p.hung
    BY <1>3, EditAlloc, PoolFields
  <1>5. q = WithOffer(g, m, Offer(ip, TRUE), ip, Static(m))
    BY <1>1, <1>2, <1>3 DEF StaticOffer
  <1>6. PICK o \in Offers : o = Offer(ip, TRUE) /\ o.ip = ip /\ o.static = TRUE /\ o.expired = FALSE
    BY PoolRecords
  <1>61. PICK s \in Sources : s = Static(m)
    BY PoolRecords
  <1>62. q = WithOffer(g, m, o, ip, s)
    BY <1>5, <1>6, <1>61
  <1>7. /\ q \in Pools /\ q.bind = g.bind /\ q.owner = g.owner /\ q.hung = g.hung
        /\ \A n \in Macs : q.offer[n] = IF n = m THEN o ELSE g.offer[n]
        /\ \A b \in Addrs : q.alloc[b] = IF b = ip THEN s ELSE g.alloc[b]
    BY <1>4, <1>62, WithOfferMade
  <1>8. OfferSet(p, q, m, o)
    BY <1>4, <1>7 DEF OfferSet
  <1>9. Tables(q)
    BY <1>1, <1>6, <1>7, <1>8, OfferFits
  <1>10. Keeps(p, q) /\ Fresh(p, q)
    BY <1>2, <1>6, <1>8, OfferFresh
  <1>11. ASSUME NEW B, Apart(p, B) PROVE Apart(q, B)
    <2>1. ip \in B
      BY <1>1, <1>11, PoolSets DEF Apart
    <2>2. \A b \in Addrs : b \in {o.ip} \cup B \/ q.alloc[b] = p.alloc[b] \/ NoneElse(p, m, b)
      BY <1>4, <1>6, <1>7
    <2>3. q \in Pools /\ (o.ip \notin B \cup {NoIp} => q.alloc[o.ip] = Dynamic /\ NoneElse(p, m, o.ip))
      BY <1>6, <1>7, <2>1
    <2> QED BY ONLY p \in Pools, m \in Macs, o \in Offers, <1>8, <1>11, <2>2, <2>3, OfferApart
  <1> QED BY <1>4, <1>7, <1>9, <1>10, <1>11 DEF Kept4

\* A free address is offered to a client without binding and offer.
OffersFree(p, m, a, q) ==
  /\ p.offer[m].ip = NoIp /\ p.bind[m] \in {NoIp, a} /\ p.alloc[a] = Free
  /\ q = WithOffer(p, m, Offer(a, FALSE), a, Dynamic)

\* The tables keep what they had.
LEMMA DynamicHolds ==
  ASSUME NEW p \in Pools, Tables(p), NEW m \in Macs, NEW a \in Addrs, NEW q, OffersFree(p, m, a, q)
  PROVE  Kept4(p, q) /\ q.hung = p.hung /\ q.offer[m] = Offer(a, FALSE)
  <1>0. /\ p.offer[m].ip = NoIp /\ p.bind[m] \in {NoIp, a} /\ p.alloc[a] = Free
        /\ q = WithOffer(p, m, Offer(a, FALSE), a, Dynamic)
    BY DEF OffersFree
  <1>1. PICK o \in Offers : o = Offer(a, FALSE) /\ o.ip = a /\ o.static = FALSE /\ o.expired = FALSE
    BY PoolRecords
  <1>11. PICK s \in Sources : s = Dynamic
    BY PoolRecords
  <1>12. q = WithOffer(p, m, o, a, s)
    BY <1>0, <1>1, <1>11
  <1>13. /\ q \in Pools /\ q.bind = p.bind /\ q.owner = p.owner /\ q.hung = p.hung
         /\ \A n \in Macs : q.offer[n] = IF n = m THEN o ELSE p.offer[n]
         /\ \A b \in Addrs : q.alloc[b] = IF b = a THEN s ELSE p.alloc[b]
    BY ONLY <1>12, p \in Pools, m \in Macs, a \in Addrs, o \in Offers, s \in Sources, WithOfferMade
  <1>2. /\ q \in Pools /\ q.hung = p.hung /\ OfferSet(p, q, m, o)
        /\ \A b \in Addrs : q.alloc[b] = IF b = a THEN Dynamic ELSE p.alloc[b]
    BY <1>11, <1>13 DEF OfferSet
  <1>3. Tables(q)
    BY <1>0, <1>1, <1>2, OfferFits
  <1>4. Keeps(p, q) /\ Fresh(p, q)
    BY <1>0, <1>1, <1>2, OfferFresh
  <1>5. ASSUME NEW B, Apart(p, B) PROVE Apart(q, B)
    <2>1. a \notin B \cup {NoIp} => NoneElse(p, m, a)
      BY <1>0, <1>5, PoolRecords DEF Apart, NoneElse
    <2>2. \A b \in Addrs : b \in {o.ip} \cup B \/ q.alloc[b] = p.alloc[b] \/ NoneElse(p, m, b)
      BY <1>1, <1>2
    <2>3. q.alloc[a] = Dynamic
      BY <1>2
    <2>4. q \in Pools /\ (o.ip \notin B \cup {NoIp} => q.alloc[o.ip] = Dynamic /\ NoneElse(p, m, o.ip))
      BY <1>1, <1>2, <2>1, <2>3
    <2>5. OfferSet(p, q, m, o)
      BY <1>2
    <2> QED BY ONLY p \in Pools, m \in Macs, <1>1, <1>5, <2>2, <2>4, <2>5, OfferApart
  <1> QED BY <1>1, <1>2, <1>3, <1>4, <1>5 DEF Kept4, OfferSet

\* With every address in the range, a pool without a free one is full.
LEMMA NoneFreeIsFull ==
  ASSUME NEW p \in Pools, Addrs = DynRange, FreeInRange(p) = {}
  PROVE  Full(p)
  <1>1. Allocated(p) = 0 .. (Cap - 1)
    BY DEF Allocated, FreeInRange, DynRange
  <1>2. Cardinality(0 .. (Cap - 1)) = Cap
    BY PoolConstants, FS_Interval
  <1> QED BY <1>1, <1>2 DEF Full

LEMMA SearchCases ==
  ASSUME NEW p \in Pools, NEW m \in Macs, NEW q \in Search(p, m)
  PROVE  \/ q = clean_expire_ip(p)
         \/ q \in Assign(clean_expire_ip(p), m)
         \/ q \in Assign(p, m)
         \/ ~Full(p) /\ FreeInRange(p) = {} /\ q = [p EXCEPT !.hung = TRUE]
  <1>1. CASE Full(p) /\ Expired(p) = {}
    BY <1>1 DEF Search
  <1>2. CASE Full(p) /\ Expired(p) # {}
    BY <1>2 DEF Search
  <1>3. CASE ~Full(p)
    BY <1>3 DEF Search
  <1> QED BY <1>1, <1>2, <1>3

LEMMA Kept4Trans ==
  ASSUME NEW p, NEW g, NEW q, Kept4(p, g), Kept4(g, q)
  PROVE  Kept4(p, q)
  BY DEF Kept4, Keeps, Fresh

LEMMA SearchHolds ==
  ASSUME NEW p \in Pools, Tables(p), NEW m \in Macs, p.bind[m] = NoIp, p.offer[m].ip = NoIp,
         NEW q \in Search(p, m)
  PROVE  Kept4(p, q) /\ (Addrs = DynRange => q.hung = p.hung)
  <1>0. PICK g : g = clean_expire_ip(p)
    OBVIOUS
  <1>1. Kept4(p, g) /\ g.hung = p.hung /\ g.bind = p.bind /\ g.offer[m].ip = NoIp
    BY <1>0, CleanHolds DEF Kept4
  <1>2. CASE q = g
    BY <1>1, <1>2
  <1>3. ASSUME NEW h \in Pools, Tables(h), h.bind[m] = NoIp, h.offer[m].ip = NoIp, q \in Assign(h, m)
        PROVE  Kept4(h, q) /\ q.hung = h.hung
    <2>1. PICK a \in FreeInRange(h) : q = WithOffer(h, m, Offer(a, FALSE), a, Dynamic)
      BY <1>3 DEF Assign
    <2>2. a \in Addrs /\ h.alloc[a] = Free
      BY <2>1, PoolSets DEF FreeInRange
    <2>3. OffersFree(h, m, a, q)
      BY <1>3, <2>1, <2>2 DEF OffersFree
    <2> QED BY <1>3, <2>2, <2>3, DynamicHolds
  <1>4. CASE q \in Assign(g, m)
    <2>1. g \in Pools /\ Tables(g) /\ g.bind[m] = NoIp
      BY <1>1 DEF Kept4
    <2>2. Kept4(g, q) /\ q.hung = g.hung
      BY <1>1, <1>3, <1>4, <2>1
    <2> QED BY <1>1, <2>2, Kept4Trans
  <1>5. CASE q \in Assign(p, m)
    BY <1>3, <1>5
  <1>6. CASE ~Full(p) /\ FreeInRange(p) = {} /\ q = [p EXCEPT !.hung = TRUE]
    <2>1. q \in Pools /\ q.bind = p.bind /\ q.owner = p.owner /\ q.alloc = p.alloc /\ q.offer = p.offer
      BY <1>6 DEF Pools
    <2>2. Addrs # DynRange
      BY <1>6, NoneFreeIsFull
    <2> QED BY <2>1, <2>2 DEF Kept4, Tables, Keeps, Fresh, Apart
  <1> QED BY <1>0, <1>2, <1>4, <1>5, <1>6, SearchCases

LEMMA OfferIpHolds ==
  ASSUME NEW p \in Pools, Tables(p), NEW m \in Macs, NEW q \in offer_ip(p, m)
  PROVE  Kept4(p, q) /\ (Addrs = DynRange => q.hung = p.hung)
  <1>1. CASE p.bind[m] # NoIp
    <2>1. q = StaticOffer(p, m)
      BY <1>1 DEF offer_ip
    <2> QED BY <1>1, <2>1, StaticOfferHolds
  <1>2. CASE p.bind[m] = NoIp /\ p.offer[m].ip # NoIp
    <2>1. q = p
      BY <1>2 DEF offer_ip
    <2> QED BY <2>1 DEF Kept4, Keeps, Fresh
  <1>3. CASE p.bind[m] = NoIp /\ p.offer[m].ip = NoIp
    <2>1. q \in Search(p, m)
      BY <1>3 DEF offer_ip
    <2> QED BY <1>3, <2>1, SearchHolds
  <1> QED BY <1>1, <1>2, <1>3

\* A request that is acknowledged ends with the address in the client's offer.
LEMMA AckHolds ==
  ASSUME NEW p \in Pools, Tables(p), NEW m \in Macs, NEW a \in Addrs, NEW q, q = ack_request(p, m, a)
  PROVE  /\ Kept4(p, q) /\ q.hung = p.hung
         /\ Acked(p, m, a) => q.offer[m].ip = a /\ ~q.offer[m].expired
  <1>1. CASE ~Acked(p, m, a)
    <2>1. q = p
      BY <1>1 DEF ack_request
    <2> QED BY <1>1, <2>1 DEF Kept4, Keeps, Fresh
  <1>2. CASE Acked(p, m, a) /\ p.offer[m].ip # NoIp
    <2>1. p.offer[m].ip = a /\ p.offer[m] \in Offers /\ p.offer[m].static \in BOOLEAN
      BY <1>2, PoolFields, OfferFields DEF Acked
    <2>2. PICK o \in Offers : /\ o = Offer(a, p.offer[m].static)
                              /\ o.ip = a /\ o.static = p.offer[m].static /\ o.expired = FALSE
      BY <2>1, PoolRecords
    <2>3. PICK f0 \in [Macs -> Offers] : f0 = p.offer
      BY PoolFields
    <2>4. PICK f : /\ f \in [Macs -> Offers] /\ f = Put(f0, m, o)
                   /\ \A n \in Macs : f[n] = IF n = m THEN o ELSE f0[n]
      BY PutOffer
    <2>5. q = [p EXCEPT !.offer = f]
      BY <1>2, <2>2, <2>3, <2>4 DEF ack_request
    <2>6. q \in Pools /\ q.bind = p.bind /\ q.owner = p.owner /\ q.alloc = p.alloc /\ q.offer = f /\ q.hung = p.hung
      BY <2>4, <2>5, EditOffer
    <2>7. OfferSet(p, q, m, o)
      BY <2>3, <2>4, <2>6 DEF OfferSet
    <2>8. Tables(q)
      BY <2>1, <2>2, <2>6, <2>7 DEF Tables, OfferSet
    <2>9. Keeps(p, q) /\ Fresh(p, q)
      BY <2>1, <2>2, <2>7, OfferFresh
    <2>10. ASSUME NEW B, Apart(p, B) PROVE Apart(q, B)
      <3>1. \A n \in Macs : q.offer[n].ip = p.offer[n].ip
        BY <2>1, <2>2, <2>7 DEF OfferSet
      <3> QED BY <2>6, <2>10, <3>1 DEF Apart
    <2> QED BY <2>2, <2>6, <2>7, <2>8, <2>9, <2>10 DEF Kept4, OfferSet
  <1>3. CASE Acked(p, m, a) /\ p.offer[m].ip = NoIp
    <2>1. q = WithOffer(p, m, Offer(a, FALSE), a, Dynamic) /\ p.alloc[a] = Free
      BY <1>3 DEF ack_request, Acked
    <2>2. p.bind[m] \in {NoIp, a}
      BY <1>3 DEF Acked, conflicts_with_static_binding
    <2>3. Kept4(p, q) /\ q.hung = p.hung /\ q.offer[m] = Offer(a, FALSE)
      <3>1. OffersFree(p, m, a, q)
        BY <1>3, <2>1, <2>2 DEF OffersFree
      <3> QED BY ONLY p \in Pools, Tables(p), m \in Macs, a \in Addrs, <3>1, DynamicHolds
    <2> QED BY <2>3, PoolRecords
  <1> QED BY <1>1, <1>2, <1>3

\* A release frees the address the client names: its own, when it is honest.
LEMMA ReleaseHolds ==
  ASSUME NEW p \in Pools, Tables(p), NEW m \in Macs, NEW a \in Addrs, NEW q, q = release_ip(p, m, a)
  PROVE  /\ q \in Pools /\ Tables(q) /\ q.hung = p.hung
         /\ \A n \in Macs : n # m => q.offer[n] = p.offer[n]
         /\ \A B : Apart(p, B) /\ p.offer[m].ip \in {NoIp, a} => Apart(q, B)
  <1>1. CASE p.offer[m].ip = NoIp
    BY <1>1 DEF release_ip
  <1>2. CASE p.offer[m].ip # NoIp
    <2>1. q = WithOffer(p, m, NoOffer, a, Free)
      BY <1>2 DEF release_ip
    <2>11. PICK o \in Offers : o = NoOffer /\ o.ip = NoIp /\ o.static = FALSE
      BY PoolRecords
    <2>12. PICK s \in Sources : s = Free
      BY PoolRecords
    <2>2. /\ q \in Pools /\ q.hung = p.hung /\ OfferSet(p, q, m, o)
          /\ \A b \in Addrs : q.alloc[b] = IF b = a THEN Free ELSE p.alloc[b]
      BY <2>1, <2>11, <2>12, WithOfferMade DEF OfferSet
    <2>3. Tables(q)
      BY <2>2, <2>11, OfferFits
    <2>4. ASSUME NEW B, Apart(p, B), p.offer[m].ip \in {NoIp, a} PROVE Apart(q, B)
      <3>1. a \in B \/ NoneElse(p, m, a)
        BY <1>2, <2>4, PoolSets DEF Apart, NoneElse
      <3>2. \A b \in Addrs : b \in {o.ip} \cup B \/ q.alloc[b] = p.alloc[b] \/ NoneElse(p, m, b)
        BY <2>2, <3>1
      <3> QED BY <2>2, <2>4, <2>11, <3>2, OfferApart
    <2> QED BY <2>2, <2>3, <2>4 DEF OfferSet
  <1> QED BY <1>1, <1>2

LEMMA DeclineHolds ==
  ASSUME NEW p \in Pools, Tables(p), NEW a \in Addrs, NEW q, q = add_decline_ip(p, a)
  PROVE  Kept4(p, q) /\ q.hung = p.hung /\ q.offer = p.offer
  <1>1. PICK l0 \in [Addrs -> Sources] : l0 = p.alloc
    BY PoolFields
  <1>2. PICK l : l = [l0 EXCEPT ![a] = IF p.alloc[a] = Free THEN Declined ELSE @]
    OBVIOUS
  <1>3. /\ l \in [Addrs -> Sources]
        /\ \A b \in Addrs : l[b] = p.alloc[b] \/ p.alloc[b] = Free
    BY <1>1, <1>2, PoolRecords
  <1>4. q = [p EXCEPT !.alloc = l]
    BY <1>1, <1>2 DEF add_decline_ip
  <1>5. q \in Pools /\ q.bind = p.bind /\ q.owner = p.owner /\ q.alloc = l /\ q.offer = p.offer /\ q.hung = p.hung
    BY <1>3, <1>4, EditAlloc
  <1>6. Tables(q) /\ Keeps(p, q) /\ Fresh(p, q)
    BY <1>5 DEF Tables, Keeps, Fresh
  <1>7. ASSUME NEW B, Apart(p, B) PROVE Apart(q, B)
    <2> SUFFICES ASSUME NEW n \in Macs, p.offer[n].ip \notin B \cup {NoIp}
                 PROVE  q.alloc[p.offer[n].ip] = Dynamic
      BY <1>5, <1>7 DEF Apart
    <2>1. p.offer[n].ip \in Addrs /\ p.alloc[p.offer[n].ip] = Dynamic
      BY <1>7, PoolFields, OfferFields DEF Apart
    <2> QED BY <1>3, <1>5, <2>1, PoolRecords
  <1> QED BY <1>5, <1>6, <1>7 DEF Kept4

(***************************************************************************)
(* DhcpV4Pool: static bindings.                                            *)
(***************************************************************************)
\* Pool q is p without the binding of m, and without the offer of m.
UnboundFrom(p, q, m) ==
  /\ \A n \in Macs : q.bind[n] = IF n = m THEN NoIp ELSE p.bind[n]
  /\ \A b \in Addrs : q.owner[b] = IF b = p.bind[m] THEN NoMac ELSE p.owner[b]
  /\ \A n \in Macs : q.offer[n] = IF n = m THEN NoOffer ELSE p.offer[n]
  /\ \A b \in Addrs : b # p.bind[m] => q.alloc[b] = p.alloc[b]

LEMMA UnboundHolds ==
  ASSUME NEW p \in Pools, Tables(p), NEW m \in Macs, p.bind[m] # NoIp, NEW q \in Pools, UnboundFrom(p, q, m)
  PROVE  Tables(q) /\ Fresh(p, q) /\ (\A B : Apart(p, B) => Apart(q, B)) /\ q.bind[m] = NoIp
  <1>1. PICK a \in Addrs : a = p.bind[m]
    BY PoolFields
  <1>2. Fresh(p, q) /\ q.bind[m] = NoIp
    BY PoolRecords DEF UnboundFrom, Fresh
  <1>3. \A n \in Macs, b \in Addrs : q.bind[n] = b <=> q.owner[b] = n
    <2> SUFFICES ASSUME NEW n \in Macs, NEW b \in Addrs
                 PROVE  q.bind[n] = b <=> q.owner[b] = n
      OBVIOUS
    <2>1. (p.bind[n] = b <=> p.owner[b] = n) /\ (p.bind[m] = b <=> p.owner[b] = m)
      BY DEF Tables
    <2> QED BY <2>1, PoolSets DEF UnboundFrom
  <1>4. Tables(q)
    BY <1>3, PoolRecords DEF Tables, UnboundFrom
  <1>5. ASSUME NEW B, Apart(p, B) PROVE Apart(q, B)
    <2>1. a \in B
      BY <1>1, <1>5, PoolSets DEF Apart
    <2>2. \A n \in Macs : q.bind[n] \in B \cup {NoIp}
      BY <1>5 DEF Apart, UnboundFrom
    <2> SUFFICES ASSUME NEW n \in Macs, q.offer[n].ip \notin B \cup {NoIp}
                 PROVE  /\ q.alloc[q.offer[n].ip] = Dynamic
                        /\ \A k \in Macs : q.offer[k].ip = q.offer[n].ip => k = n
      BY <2>2 DEF Apart
    <2>3. n # m /\ q.offer[n] = p.offer[n] /\ p.offer[n].ip \in Addrs
      <3>1. n # m
        BY PoolRecords DEF UnboundFrom
      <3>2. p.offer[n] \in Offers /\ q.offer[n] = p.offer[n]
        BY <3>1, PoolFields DEF UnboundFrom
      <3> QED BY <3>1, <3>2, OfferFields
    <2>4. p.alloc[p.offer[n].ip] = Dynamic /\ \A k \in Macs : p.offer[k].ip = p.offer[n].ip => k = n
      BY <1>5, <2>3 DEF Apart
    <2>5. q.alloc[q.offer[n].ip] = Dynamic
      BY <1>1, <2>1, <2>3, <2>4 DEF UnboundFrom
    <2>6. \A k \in Macs : q.offer[k].ip = q.offer[n].ip => k = n
      BY <2>3, <2>4, PoolRecords DEF UnboundFrom
    <2> QED BY <2>5, <2>6
  <1> QED BY <1>2, <1>4, <1>5

\* The three tables and the allocations of a pool replaced.
Rebuilt(p, b, w, l, o) == [p EXCEPT !.bind = b, !.owner = w, !.alloc = l, !.offer = o]

LEMMA RebuiltMade ==
  ASSUME NEW p \in Pools, NEW b \in [Macs -> Addrs \cup {NoIp}], NEW w \in [Addrs -> Macs \cup {NoMac}],
         NEW l \in [Addrs -> Sources], NEW o \in [Macs -> Offers], NEW q, q = Rebuilt(p, b, w, l, o)
  PROVE  q \in Pools /\ q.bind = b /\ q.owner = w /\ q.alloc = l /\ q.offer = o /\ q.hung = p.hung
  <1>1. PICK g1 : g1 = [p EXCEPT !.bind = b]
    OBVIOUS
  <1>2. g1 \in Pools /\ g1.bind = b /\ g1.hung = p.hung
    BY <1>1, EditBind
  <1>3. PICK g2 : g2 = [g1 EXCEPT !.owner = w]
    OBVIOUS
  <1>4. g2 \in Pools /\ g2.bind = b /\ g2.owner = w /\ g2.hung = p.hung
    BY <1>2, <1>3, EditOwner
  <1>5. PICK g3 : g3 = [g2 EXCEPT !.alloc = l]
    OBVIOUS
  <1>6. g3 \in Pools /\ g3.bind = b /\ g3.owner = w /\ g3.alloc = l /\ g3.hung = p.hung
    BY <1>4, <1>5, EditAlloc
  <1>7. q = [g3 EXCEPT !.offer = o]
    BY <1>1, <1>3, <1>5 DEF Rebuilt
  <1> QED BY <1>6, <1>7, EditOffer

\* The tables of a pool without the binding of m, whatever l marks as free.
LEMMA DropMade ==
  ASSUME NEW p \in Pools, NEW m \in Macs, NEW a \in Addrs, a = p.bind[m], NEW l \in [Addrs -> Sources],
         \A b \in Addrs : b # a => l[b] = p.alloc[b], NEW q,
         q = Rebuilt(p, Put(p.bind, m, NoIp), Put(p.owner, a, NoMac), l, Put(p.offer, m, NoOffer))
  PROVE  q \in Pools /\ UnboundFrom(p, q, m) /\ q.hung = p.hung
  <1>1. PICK b0 \in [Macs -> Addrs \cup {NoIp}], w0 \in [Addrs -> Macs \cup {NoMac}], o0 \in [Macs -> Offers] :
          b0 = p.bind /\ w0 = p.owner /\ o0 = p.offer
    BY PoolFields
  <1>2. PICK b : /\ b \in [Macs -> Addrs \cup {NoIp}] /\ b = Put(b0, m, NoIp)
                 /\ \A n \in Macs : b[n] = IF n = m THEN NoIp ELSE b0[n]
    BY PutBind
  <1>3. PICK w : /\ w \in [Addrs -> Macs \cup {NoMac}] /\ w = Put(w0, a, NoMac)
                 /\ \A x \in Addrs : w[x] = IF x = a THEN NoMac ELSE w0[x]
    BY PutOwner
  <1>40. PICK e \in Offers : e = NoOffer
    BY PoolRecords
  <1>4. PICK o : /\ o \in [Macs -> Offers] /\ o = Put(o0, m, e)
                 /\ \A n \in Macs : o[n] = IF n = m THEN e ELSE o0[n]
    BY PutOffer
  <1>5. q = Rebuilt(p, b, w, l, o)
    BY <1>1, <1>2, <1>3, <1>4, <1>40
  <1>6. q \in Pools /\ q.bind = b /\ q.owner = w /\ q.alloc = l /\ q.offer = o /\ q.hung = p.hung
    BY ONLY <1>5, p \in Pools, <1>2, <1>3, <1>4, l \in [Addrs -> Sources], RebuiltMade
  <1> QED BY <1>1, <1>2, <1>3, <1>4, <1>40, <1>6 DEF UnboundFrom

\* An allocation table with one entry freed, or not.
LEMMA FreedMade ==
  ASSUME NEW p \in Pools, NEW a \in Addrs, NEW l, l = p.alloc \/ l = Put(p.alloc, a, Free)
  PROVE  l \in [Addrs -> Sources] /\ \A b \in Addrs : b # a => l[b] = p.alloc[b]
  <1>1. PICK l0 \in [Addrs -> Sources] : l0 = p.alloc
    BY PoolFields
  <1>2. PICK g : /\ g \in [Addrs -> Sources] /\ g = Put(l0, a, Free)
                 /\ \A b \in Addrs : g[b] = IF b = a THEN Free ELSE l0[b]
    BY PutAlloc, PoolRecords
  <1> QED BY <1>1, <1>2

LEMMA DropHolds ==
  ASSUME NEW p \in Pools, Tables(p), NEW m \in Macs, NEW q, q = DropBinding(p, m) \/ q = remove_binding(p, m)
  PROVE  /\ q \in Pools /\ Tables(q) /\ Fresh(p, q) /\ q.hung = p.hung /\ q.bind[m] = NoIp
         /\ \A B : Apart(p, B) => Apart(q, B)
  <1>1. CASE p.bind[m] = NoIp
    BY <1>1 DEF DropBinding, remove_binding, Fresh
  <1>2. CASE p.bind[m] # NoIp
    <2>1. PICK a \in Addrs : a = p.bind[m]
      BY <1>2, PoolFields
    <2>2. \E l : /\ l = p.alloc \/ l = Put(p.alloc, a, Free)
                 /\ q = Rebuilt(p, Put(p.bind, m, NoIp), Put(p.owner, a, NoMac), l, Put(p.offer, m, NoOffer))
      <3>1. CASE q = DropBinding(p, m)
        BY <1>2, <2>1, <3>1 DEF DropBinding, Rebuilt
      <3>2. CASE q = remove_binding(p, m)
        <4>1. PICK g : g = [p EXCEPT !.bind = Put(p.bind, m, NoIp), !.owner = Put(p.owner, a, NoMac),
                                     !.offer = Put(p.offer, m, NoOffer)]
          OBVIOUS
        <4>2. \/ q = g
              \/ q = [g EXCEPT !.alloc = Put(g.alloc, a, Free)]
          BY <1>2, <2>1, <3>2, <4>1 DEF remove_binding
        <4>3. g.alloc = p.alloc /\ g = Rebuilt(p, Put(p.bind, m, NoIp), Put(p.owner, a, NoMac), p.alloc, Put(p.offer, m, NoOffer))
          BY <4>1 DEF Pools, Rebuilt
        <4>4. ASSUME NEW l, q = [g EXCEPT !.alloc = l]
              PROVE  q = Rebuilt(p, Put(p.bind, m, NoIp), Put(p.owner, a, NoMac), l, Put(p.offer, m, NoOffer))
          BY <4>1, <4>4 DEF Pools, Rebuilt
        <4> QED BY <4>2, <4>3, <4>4
      <3> QED BY <3>1, <3>2
    <2>3. PICK l : /\ l = p.alloc \/ l = Put(p.alloc, a, Free)
                   /\ q = Rebuilt(p, Put(p.bind, m, NoIp), Put(p.owner, a, NoMac), l, Put(p.offer, m, NoOffer))
      BY <2>2
    <2>4. l \in [Addrs -> Sources] /\ \A b \in Addrs : b # a => l[b] = p.alloc[b]
      BY <2>3, FreedMade
    <2>5. q \in Pools /\ UnboundFrom(p, q, m) /\ q.hung = p.hung
      BY <2>1, <2>3, <2>4, DropMade
    <2> QED BY <1>2, <2>5, UnboundHolds
  <1> QED BY <1>1, <1>2

\* The tables of a pool in which m has taken over address a.
BoundTo(p, q, m, a) ==
  LET prev == p.owner[a] IN
  /\ \A n \in Macs : q.bind[n] = IF n = m THEN a ELSE IF n = prev THEN NoIp ELSE p.bind[n]
  /\ \A b \in Addrs : q.owner[b] = IF b = a THEN m ELSE p.owner[b]
  /\ \A n \in Macs : q.offer[n] = IF n = m THEN Offer(a, TRUE) ELSE IF n = prev THEN NoOffer ELSE p.offer[n]
  /\ \A b \in Addrs : b # a => q.alloc[b] = p.alloc[b]

LEMMA BoundHolds ==
  ASSUME NEW p \in Pools, Tables(p), NEW m \in Macs, NEW a \in Addrs, p.bind[m] = NoIp, NEW q \in Pools,
         BoundTo(p, q, m, a)
  PROVE  Tables(q) /\ Fresh(p, q) /\ \A B : Apart(p, B) => Apart(q, B \cup {a})
  <1>0. PICK prev \in Macs \cup {NoMac} : prev = p.owner[a]
    BY PoolFields
  <1>01. PICK o \in Offers : o = Offer(a, TRUE) /\ o.ip = a /\ o.static = TRUE /\ o.expired = FALSE
    BY PoolRecords
  <1>02. /\ \A n \in Macs : q.bind[n] = IF n = m THEN a ELSE IF n = prev THEN NoIp ELSE p.bind[n]
         /\ \A b \in Addrs : q.owner[b] = IF b = a THEN m ELSE p.owner[b]
         /\ \A n \in Macs : q.offer[n] = IF n = m THEN o ELSE IF n = prev THEN NoOffer ELSE p.offer[n]
         /\ \A b \in Addrs : b # a => q.alloc[b] = p.alloc[b]
    BY <1>0, <1>01 DEF BoundTo
  <1>1. Fresh(p, q)
    BY <1>01, <1>02, PoolRecords DEF Fresh
  <1>2. \A n \in Macs, b \in Addrs : q.bind[n] = b <=> q.owner[b] = n
    <2> SUFFICES ASSUME NEW n \in Macs, NEW b \in Addrs
                 PROVE  q.bind[n] = b <=> q.owner[b] = n
      OBVIOUS
    <2>1. /\ p.bind[n] = b <=> p.owner[b] = n
          /\ p.bind[n] = a <=> p.owner[a] = n
          /\ p.bind[m] = b <=> p.owner[b] = m
      BY DEF Tables
    <2> QED BY <1>0, <1>02, <2>1, PoolSets
  <1>3. Tables(q)
    <2>1. \A n \in Macs : q.offer[n].static => q.offer[n].ip = q.bind[n]
      <3> SUFFICES ASSUME NEW n \in Macs, q.offer[n].static PROVE q.offer[n].ip = q.bind[n]
        OBVIOUS
      <3>1. CASE n = m
        BY <1>01, <1>02, <3>1
      <3>2. CASE n # m
        BY <1>02, <3>2, PoolRecords DEF Tables
      <3> QED BY <3>1, <3>2
    <2>2. \A n \in Macs : q.bind[n] # NoIp /\ q.offer[n].ip # NoIp => q.offer[n].ip = q.bind[n]
      <3> SUFFICES ASSUME NEW n \in Macs, q.bind[n] # NoIp, q.offer[n].ip # NoIp PROVE q.offer[n].ip = q.bind[n]
        OBVIOUS
      <3>1. CASE n = m
        BY <1>01, <1>02, <3>1
      <3>2. CASE n # m
        BY <1>02, <3>2, PoolRecords DEF Tables
      <3> QED BY <3>1, <3>2
    <2> QED BY <1>2, <2>1, <2>2 DEF Tables
  <1>4. ASSUME NEW B, Apart(p, B) PROVE Apart(q, B \cup {a})
    <2>1. \A n \in Macs : q.bind[n] \in B \cup {a} \cup {NoIp}
      BY <1>02, <1>4 DEF Apart
    <2> SUFFICES ASSUME NEW n \in Macs, q.offer[n].ip \notin B \cup {a} \cup {NoIp}
                 PROVE  /\ q.alloc[q.offer[n].ip] = Dynamic
                        /\ \A k \in Macs : q.offer[k].ip = q.offer[n].ip => k = n
      BY <2>1 DEF Apart
    <2>2. n # m /\ q.offer[n] = p.offer[n]
      BY <1>01, <1>02, PoolRecords
    <2>3. p.offer[n].ip \in Addrs /\ p.offer[n].ip # a
      <3>1. p.offer[n] \in Offers
        BY PoolFields
      <3> QED BY <2>2, <3>1, OfferFields
    <2>4. p.alloc[p.offer[n].ip] = Dynamic /\ \A k \in Macs : p.offer[k].ip = p.offer[n].ip => k = n
      BY <1>4, <2>2 DEF Apart
    <2>5. q.alloc[q.offer[n].ip] = Dynamic
      BY <1>02, <2>2, <2>3, <2>4
    <2>6. \A k \in Macs : q.offer[k].ip = q.offer[n].ip => k = n
      <3> SUFFICES ASSUME NEW k \in Macs, q.offer[k].ip = q.offer[n].ip PROVE k = n
        OBVIOUS
      <3>1. q.offer[n].ip # a /\ q.offer[n].ip # NoIp
        BY <2>2, <2>3, PoolSets
      <3>2. k # m
        BY <1>01, <1>02, <3>1
      <3>3. q.offer[k] = p.offer[k]
        BY <1>02, <3>1, <3>2, PoolRecords
      <3> QED BY <2>2, <2>4, <3>3
    <2> QED BY <2>5, <2>6
  <1> QED BY <1>1, <1>3, <1>4

\* A table after its entry for the previous owner is cleared, if there was one.
LEMMA ClearedMade ==
  ASSUME NEW p \in Pools, NEW m \in Macs, NEW prev \in Macs \cup {NoMac}, prev # m,
         NEW b, b = IF prev \in Macs /\ prev # m THEN Put(p.bind, prev, NoIp) ELSE p.bind,
         NEW o, o = IF prev \in Macs /\ prev # m THEN Put(p.offer, prev, NoOffer) ELSE p.offer
  PROVE  /\ b \in [Macs -> Addrs \cup {NoIp}] /\ o \in [Macs -> Offers]
         /\ \A n \in Macs : b[n] = IF n = prev THEN NoIp ELSE p.bind[n]
         /\ \A n \in Macs : o[n] = IF n = prev THEN NoOffer ELSE p.offer[n]
  <1>1. PICK b0 \in [Macs -> Addrs \cup {NoIp}], o0 \in [Macs -> Offers], e \in Offers :
          b0 = p.bind /\ o0 = p.offer /\ e = NoOffer
    BY PoolFields, PoolRecords
  <1>2. CASE prev \in Macs
    <2>1. PICK g : /\ g \in [Macs -> Addrs \cup {NoIp}] /\ g = Put(b0, prev, NoIp)
                   /\ \A n \in Macs : g[n] = IF n = prev THEN NoIp ELSE b0[n]
      BY <1>2, PutBind
    <2>21. PICK h : h = Put(o0, prev, e)
      OBVIOUS
    <2>2. h \in [Macs -> Offers] /\ \A n \in Macs : h[n] = IF n = prev THEN e ELSE o0[n]
      BY <1>2, <2>21 DEF Put
    <2> QED BY <1>1, <1>2, <2>1, <2>21, <2>2
  <1>3. CASE prev \notin Macs
    BY <1>1, <1>3
  <1> QED BY <1>2, <1>3

LEMMA TakeOverHolds ==
  ASSUME NEW p \in Pools, Tables(p), NEW m \in Macs, NEW a \in Addrs, p.bind[m] = NoIp,
         NEW q, q = TakeOver(p, m, a)
  PROVE  /\ q \in Pools /\ Tables(q) /\ Fresh(p, q) /\ q.hung = p.hung
         /\ \A B : Apart(p, B) => Apart(q, B \cup {a})
  <1>1. PICK prev \in Macs \cup {NoMac} : prev = p.owner[a]
    BY PoolFields
  <1>2. prev # m
    BY <1>1, PoolSets DEF Tables
  <1>3. PICK b1, o1 : /\ b1 = IF prev \in Macs /\ prev # m THEN Put(p.bind, prev, NoIp) ELSE p.bind
                      /\ o1 = IF prev \in Macs /\ prev # m THEN Put(p.offer, prev, NoOffer) ELSE p.offer
    OBVIOUS
  <1>4. /\ b1 \in [Macs -> Addrs \cup {NoIp}] /\ o1 \in [Macs -> Offers]
        /\ \A n \in Macs : b1[n] = IF n = prev THEN NoIp ELSE p.bind[n]
        /\ \A n \in Macs : o1[n] = IF n = prev THEN NoOffer ELSE p.offer[n]
    BY ONLY p \in Pools, m \in Macs, prev \in Macs \cup {NoMac}, <1>2, <1>3, ClearedMade
  <1>5. PICK w0 \in [Addrs -> Macs \cup {NoMac}], l0 \in [Addrs -> Sources], o \in Offers, s \in Sources :
          w0 = p.owner /\ l0 = p.alloc /\ o = Offer(a, TRUE) /\ s = Static(m)
    BY PoolFields, PoolRecords
  <1>6. PICK b : /\ b \in [Macs -> Addrs \cup {NoIp}] /\ b = Put(b1, m, a)
                 /\ \A n \in Macs : b[n] = IF n = m THEN a ELSE b1[n]
    BY <1>4, PutBind
  <1>7. PICK w : /\ w \in [Addrs -> Macs \cup {NoMac}] /\ w = Put(w0, a, m)
                 /\ \A x \in Addrs : w[x] = IF x = a THEN m ELSE w0[x]
    BY PutOwner
  <1>8. PICK l : /\ l \in [Addrs -> Sources] /\ l = Put(l0, a, s)
                 /\ \A x \in Addrs : l[x] = IF x = a THEN s ELSE l0[x]
    BY ONLY a \in Addrs, l0 \in [Addrs -> Sources], s \in Sources, PutAlloc
  <1>91. PICK f : f = Put(o1, m, o)
    OBVIOUS
  <1>9. f \in [Macs -> Offers] /\ f = Put(o1, m, o) /\ \A n \in Macs : f[n] = IF n = m THEN o ELSE o1[n]
    BY <1>4, <1>91 DEF Put
  <1>10. q = Rebuilt(p, b, w, l, f)
    BY <1>1, <1>3, <1>5, <1>6, <1>7, <1>8, <1>9 DEF TakeOver, Rebuilt
  <1>11. q \in Pools /\ q.bind = b /\ q.owner = w /\ q.alloc = l /\ q.offer = f /\ q.hung = p.hung
    BY ONLY <1>10, p \in Pools, <1>6, <1>7, <1>8, <1>9, RebuiltMade
  <1>12. BoundTo(p, q, m, a)
    <2>1. \A n \in Macs : q.bind[n] = IF n = m THEN a ELSE IF n = prev THEN NoIp ELSE p.bind[n]
      BY <1>4, <1>6, <1>11
    <2>2. \A n \in Macs : q.offer[n] = IF n = m THEN o ELSE IF n = prev THEN NoOffer ELSE p.offer[n]
      BY <1>4, <1>9, <1>11
    <2>3. \A x \in Addrs : q.owner[x] = IF x = a THEN m ELSE p.owner[x]
      BY <1>5, <1>7, <1>11
    <2>4. \A x \in Addrs : x # a => q.alloc[x] = p.alloc[x]
      BY <1>5, <1>8, <1>11
    <2> QED BY <1>1, <1>5, <2>1, <2>2, <2>3, <2>4 DEF BoundTo
  <1> QED BY <1>11, <1>12, BoundHolds

\* The client that held the address dynamically loses it before the binding.
LEMMA ClearOfferHolds ==
  ASSUME NEW p \in Pools, Tables(p), NEW z \in Macs, NEW q, q = [p EXCEPT !.offer = Put(p.offer, z, NoOffer)]
  PROVE  /\ q \in Pools /\ Tables(q) /\ Fresh(p, q) /\ q.hung = p.hung
         /\ \A B : Apart(p, B) => Apart(q, B)
  <1>1. PICK o0 \in [Macs -> Offers] : o0 = p.offer
    BY PoolFields
  <1>2. PICK e \in Offers : e = NoOffer /\ e.ip = NoIp /\ e.static = FALSE /\ e.expired = FALSE
    BY PoolRecords
  <1>3. PICK f : f = Put(o0, z, e)
    OBVIOUS
  <1>4. f \in [Macs -> Offers] /\ \A n \in Macs : f[n] = IF n = z THEN e ELSE o0[n]
    BY <1>3 DEF Put
  <1>5. q = [p EXCEPT !.offer = f]
    BY <1>1, <1>2, <1>3
  <1>6. q \in Pools /\ q.bind = p.bind /\ q.owner = p.owner /\ q.alloc = p.alloc /\ q.offer = f /\ q.hung = p.hung
    BY ONLY p \in Pools, <1>4, <1>5, EditOffer
  <1>7. OfferSet(p, q, z, e)
    BY <1>1, <1>4, <1>6 DEF OfferSet
  <1>8. Tables(q)
    BY <1>2, <1>6, <1>7, OfferFits
  <1>9. Fresh(p, q)
    BY <1>2, <1>7, OfferFresh
  <1>10. ASSUME NEW B, Apart(p, B) PROVE Apart(q, B)
    <2>1. \A n \in Macs : q.offer[n].ip \in {p.offer[n].ip, NoIp}
      BY <1>2, <1>7 DEF OfferSet
    <2> QED BY <1>6, <1>10, <2>1 DEF Apart
  <1> QED BY <1>6, <1>8, <1>9, <1>10

LEMMA RebindHolds ==
  ASSUME NEW p \in Pools, Tables(p), NEW m \in Macs, NEW a \in Addrs,
         NEW q, q = TakeOver(DropBinding(p, m), m, a)
  PROVE  /\ q \in Pools /\ Tables(q) /\ Fresh(p, q) /\ q.hung = p.hung
         /\ \A B : Apart(p, B) => Apart(q, B \cup {a})
  <1>1. PICK g : g = DropBinding(p, m)
    OBVIOUS
  <1>2. /\ g \in Pools /\ Tables(g) /\ Fresh(p, g) /\ g.hung = p.hung /\ g.bind[m] = NoIp
        /\ \A B : Apart(p, B) => Apart(g, B)
    BY <1>1, DropHolds
  <1>3. q = TakeOver(g, m, a)
    BY <1>1
  <1>4. /\ q \in Pools /\ Tables(q) /\ Fresh(g, q) /\ q.hung = g.hung
        /\ \A B : Apart(g, B) => Apart(q, B \cup {a})
    BY <1>2, <1>3, TakeOverHolds
  <1>5. Fresh(p, q)
    BY <1>2, <1>4 DEF Fresh
  <1> QED BY <1>2, <1>4, <1>5

LEMMA AddHolds ==
  ASSUME NEW p \in Pools, Tables(p), NEW m \in Macs, NEW a \in Addrs, NEW q \in add_or_update_binding(p, m, a)
  PROVE  /\ q \in Pools /\ Tables(q) /\ Fresh(p, q) /\ (Addrs = DynRange => q.hung = p.hung)
         /\ \A B : Apart(p, B) => Apart(q, B \cup {a})
  <1>1. CASE p.alloc[a] # Dynamic \/ DynamicOwners(p, a) = {}
    <2>1. q = TakeOver(DropBinding(p, m), m, a)
      BY <1>1 DEF add_or_update_binding
    <2> QED BY <2>1, RebindHolds
  <1>2. CASE ~(p.alloc[a] # Dynamic \/ DynamicOwners(p, a) = {})
    <2>1. PICK z \in DynamicOwners(p, a) :
            q \in offer_ip(TakeOver(DropBinding([p EXCEPT !.offer = Put(p.offer, z, NoOffer)], m), m, a), z)
      BY <1>2 DEF add_or_update_binding
    <2>2. z \in Macs
      BY <2>1 DEF DynamicOwners
    <2>3. PICK g : g = [p EXCEPT !.offer = Put(p.offer, z, NoOffer)]
      OBVIOUS
    <2>4. /\ g \in Pools /\ Tables(g) /\ Fresh(p, g) /\ g.hung = p.hung
          /\ \A B : Apart(p, B) => Apart(g, B)
      BY ONLY p \in Pools, Tables(p), <2>2, <2>3, ClearOfferHolds
    <2>5. PICK h : h = TakeOver(DropBinding(g, m), m, a)
      OBVIOUS
    <2>6. /\ h \in Pools /\ Tables(h) /\ Fresh(g, h) /\ h.hung = g.hung
          /\ \A B : Apart(g, B) => Apart(h, B \cup {a})
      BY <2>4, <2>5, RebindHolds
    <2>7. q \in offer_ip(h, z)
      BY <2>1, <2>3, <2>5
    <2>8. Kept4(h, q) /\ (Addrs = DynRange => q.hung = h.hung)
      BY <2>2, <2>6, <2>7, OfferIpHolds
    <2>9. Fresh(p, q)
      BY <2>4, <2>6, <2>8 DEF Fresh, Kept4
    <2>10. \A B : Apart(p, B) => Apart(q, B \cup {a})
      BY <2>4, <2>6, <2>8 DEF Kept4
    <2> QED BY <2>4, <2>6, <2>8, <2>9, <2>10 DEF Kept4
  <1> QED BY <1>1, <1>2

\* A status built from the devices of the database.
LEMMA BuiltHolds ==
  ASSUME NEW dev \in [Macs -> Addrs \cup {NoIp}], Distinct(dev), NEW q, q = from_config_and_devices(dev)
  PROVE  q \in Pools /\ Tables(q) /\ q.hung = FALSE /\ Apart(q, BoundIn(dev))
  <1> DEFINE Owners(a) == {m \in {n \in Macs : dev[n] \in Subnet} : dev[m] = a}
             First(a) == IF Owners(a) = {} THEN NoMac ELSE CHOOSE m \in Owners(a) : TRUE
  <1>1. \A a \in Addrs, m \in Macs : First(a) = m <=> dev[m] = a /\ a \in Subnet
    <2> SUFFICES ASSUME NEW a \in Addrs, NEW m \in Macs
                 PROVE  First(a) = m <=> dev[m] = a /\ a \in Subnet
      OBVIOUS
    <2>1. CASE Owners(a) = {}
      BY <2>1, PoolSets
    <2>2. CASE Owners(a) # {}
      <3>1. First(a) \in Owners(a)
        BY <2>2
      <3>2. \A k \in Macs : dev[k] = a /\ dev[m] = a => k = m
        BY PoolSets DEF Distinct
      <3> QED BY <3>1, <3>2
    <2> QED BY <2>1, <2>2
  <1>2. \A a \in Addrs : First(a) \in Macs \cup {NoMac}
    OBVIOUS
  <1> HIDE DEF First
  <1>3. PICK w : w = [a \in Addrs |-> First(a)]
    OBVIOUS
  <1>4. w \in [Addrs -> Macs \cup {NoMac}] /\ \A a \in Addrs : w[a] = First(a)
    BY <1>2, <1>3
  <1>5. PICK l : l = [a \in Addrs |-> IF First(a) = NoMac THEN Free ELSE Static(First(a))]
    OBVIOUS
  <1>6. l \in [Addrs -> Sources]
    BY <1>2, <1>5, PoolRecords
  <1>7. PICK b : b = [m \in Macs |-> IF dev[m] \in Subnet THEN dev[m] ELSE NoIp]
    OBVIOUS
  <1>8. b \in [Macs -> Addrs \cup {NoIp}] /\ \A m \in Macs : b[m] = IF dev[m] \in Subnet THEN dev[m] ELSE NoIp
    BY <1>7, PoolSets
  <1>9. PICK o : o = [m \in Macs |-> IF dev[m] \in Subnet THEN Offer(dev[m], TRUE) ELSE NoOffer]
    OBVIOUS
  <1>10. o \in [Macs -> Offers] /\ \A m \in Macs : o[m] = IF dev[m] \in Subnet THEN Offer(dev[m], TRUE) ELSE NoOffer
    BY <1>9, PoolSets, PoolRecords
  <1>11. q = [bind |-> b, owner |-> w, alloc |-> l, offer |-> o, hung |-> FALSE]
    BY <1>3, <1>5, <1>7, <1>9 DEF from_config_and_devices, First
  <1>12. q \in Pools /\ q.bind = b /\ q.owner = w /\ q.offer = o /\ q.hung = FALSE
    BY <1>4, <1>6, <1>8, <1>10, <1>11 DEF Pools
  <1>13. \A m \in Macs : o[m].ip = b[m]
    <2> SUFFICES ASSUME NEW m \in Macs PROVE o[m].ip = b[m]
      OBVIOUS
    <2>1. CASE dev[m] \in Subnet
      <3>1. dev[m] \in Addrs /\ o[m] = Offer(dev[m], TRUE) /\ b[m] = dev[m]
        BY <1>8, <1>10, <2>1, PoolSets
      <3> QED BY <3>1, PoolRecords
    <2>2. CASE dev[m] \notin Subnet
      BY <1>8, <1>10, <2>2, PoolRecords
    <2> QED BY <2>1, <2>2
  <1>14. \A m \in Macs, a \in Addrs : b[m] = a <=> w[a] = m
    BY <1>1, <1>4, <1>8, PoolSets
  <1>15. \A m \in Macs : b[m] \in BoundIn(dev) \cup {NoIp}
    BY <1>8 DEF BoundIn
  <1> QED BY <1>12, <1>13, <1>14, <1>15 DEF Tables, Apart

(***************************************************************************)
(* DhcpV4Pool: the invariant is inductive, one lemma per group of actions. *)
(***************************************************************************)
LEMMA ApartGrows ==
  ASSUME NEW p, NEW B, NEW C, B \subseteq C, Apart(p, B)
  PROVE  Apart(p, C)
  BY DEF Apart

LEMMA PoolStarts == PoolInit => PoolIInv
  <1> SUFFICES ASSUME PoolInit PROVE PoolIInv
    OBVIOUS
  <1>1. PICK d : d = device
    OBVIOUS
  <1>2. d \in [Macs -> Addrs \cup {NoIp}] /\ Distinct(d)
    BY <1>1 DEF PoolInit
  <1>3. PICK q : q = pool
    OBVIOUS
  <1>4. q = from_config_and_devices(d)
    BY <1>1, <1>3 DEF PoolInit
  <1>5. q \in Pools /\ Tables(q) /\ q.hung = FALSE /\ Apart(q, BoundIn(d))
    BY <1>2, <1>4, BuiltHolds
  <1>6. NoBindings \in [Macs -> Addrs \cup {NoIp}] /\ Distinct(NoBindings) /\ \A m \in Macs : NoBindings[m] = NoIp
    BY DEF NoBindings, Distinct
  <1>7. BoundIn(d) \in SUBSET Addrs
    BY PoolSets DEF BoundIn
  <1>8. << >> \in Seq(Events) /\ Len(<< >>) = 0
    OBVIOUS
  <1>81. 0 <= EventCap /\ 0 \in 0 .. MaxPushes /\ 0 \in 0 .. MaxStarts
    BY PoolConstants
  <1>82. pool \in Pools /\ device \in [Macs -> Addrs \cup {NoIp}] /\ Distinct(device)
    BY <1>1, <1>2, <1>3, <1>5
  <1>83. loaded \in [Macs -> Addrs \cup {NoIp}] /\ lease \in [Macs -> Addrs \cup {NoIp}] /\ bound \in SUBSET Addrs
    BY <1>1, <1>6, <1>7 DEF PoolInit
  <1>84. events \in Seq(Events) /\ Len(events) <= EventCap
    BY <1>8, <1>81 DEF PoolInit
  <1>9. PoolTypeOK
    BY <1>81, <1>82, <1>83, <1>84 DEF PoolTypeOK, PoolInit
  <1>10. LeasesHeld /\ EventsNamed /\ Distinct(loaded)
    BY <1>6, <1>8 DEF LeasesHeld, EventsNamed, PoolInit
  <1> QED BY <1>1, <1>3, <1>5, <1>9, <1>10 DEF PoolIInv, PoolInit

\* The message handlers, the clock and the timer leave the devices alone.
LEMMA ServeStep ==
  ASSUME PoolIInv, UNCHANGED admin, pool' \in Pools, Tables(pool'), lease' \in [Macs -> Addrs \cup {NoIp}],
         LeasesHeld', Honest => Apart(pool', bound), Addrs = DynRange => ~pool'.hung
  PROVE  PoolIInv'
  <1>1. UNCHANGED << loaded, starting, device, events, lagged, listening, missed, bound, pushes, starts >>
    BY DEF admin
  <1>2. PoolTypeOK'
    BY <1>1 DEF PoolIInv, PoolTypeOK, Distinct
  <1>3. EventsNamed' /\ Distinct(loaded)'
    BY <1>1 DEF PoolIInv, EventsNamed, Distinct
  <1> QED BY <1>1, <1>2, <1>3 DEF PoolIInv

\* A pool whose offers are kept holds the same leases.
LEMMA LeasesKept ==
  ASSUME LeasesHeld, Keeps(pool, pool'), \A m \in Macs : lease'[m] \in {lease[m], NoIp}
  PROVE  LeasesHeld'
  BY DEF LeasesHeld, Keeps

LEMMA DiscoverStep ==
  ASSUME PoolIInv, NEW m \in Macs, Discover(m)
  PROVE  PoolIInv'
  <1>1. PICK p : p = pool
    OBVIOUS
  <1>2. PICK q : q = pool'
    OBVIOUS
  <1>3. p \in Pools /\ Tables(p) /\ q \in offer_ip(p, m)
    BY <1>1, <1>2 DEF PoolIInv, PoolTypeOK, Discover
  <1>4. Kept4(p, q) /\ (Addrs = DynRange => q.hung = p.hung)
    BY <1>3, OfferIpHolds
  <1>5. UNCHANGED admin /\ lease' = lease
    BY DEF Discover
  <1>6. LeasesHeld'
    BY <1>1, <1>2, <1>4, <1>5, LeasesKept DEF PoolIInv, Kept4
  <1>7. lease' \in [Macs -> Addrs \cup {NoIp}]
    BY <1>5 DEF PoolIInv, PoolTypeOK
  <1>8. (Honest => Apart(p, bound)) /\ (Addrs = DynRange => ~p.hung)
    BY <1>1 DEF PoolIInv
  <1>9. q \in Pools /\ Tables(q) /\ (Honest => Apart(q, bound)) /\ (Addrs = DynRange => ~q.hung)
    BY <1>4, <1>8 DEF Kept4
  <1> QED BY <1>2, <1>5, <1>6, <1>7, <1>9, ServeStep

LEMMA TimerStep ==
  ASSUME PoolIInv, ExpireTimer
  PROVE  PoolIInv'
  <1>1. PICK p : p = pool
    OBVIOUS
  <1>2. PICK q : q = pool'
    OBVIOUS
  <1>3. p \in Pools /\ Tables(p) /\ q = clean_expire_ip(p)
    BY <1>1, <1>2 DEF PoolIInv, PoolTypeOK, ExpireTimer
  <1>4. q \in Pools /\ Tables(q) /\ Keeps(p, q) /\ q.hung = p.hung /\ \A B : Apart(p, B) => Apart(q, B)
    BY <1>3, CleanHolds
  <1>5. UNCHANGED admin /\ lease' = lease
    BY DEF ExpireTimer
  <1>6. LeasesHeld'
    BY <1>1, <1>2, <1>4, <1>5, LeasesKept DEF PoolIInv
  <1>7. lease' \in [Macs -> Addrs \cup {NoIp}]
    BY <1>5 DEF PoolIInv, PoolTypeOK
  <1>8. (Honest => Apart(p, bound)) /\ (Addrs = DynRange => ~p.hung)
    BY <1>1 DEF PoolIInv
  <1> QED BY <1>2, <1>4, <1>5, <1>6, <1>7, <1>8, ServeStep

\* The lease table after one client is promised an address, or loses its own.
LEMMA LeasePut ==
  ASSUME NEW f \in [Macs -> Addrs \cup {NoIp}], NEW m \in Macs, NEW v \in Addrs \cup {NoIp}, NEW g, g = Put(f, m, v)
  PROVE  g \in [Macs -> Addrs \cup {NoIp}] /\ \A n \in Macs : g[n] = IF n = m THEN v ELSE f[n]
  BY DEF Put

LEMMA RequestStep ==
  ASSUME PoolIInv, NEW m \in Macs, NEW a \in Addrs, Request(m, a)
  PROVE  PoolIInv'
  <1>1. PICK p : p = pool
    OBVIOUS
  <1>2. PICK q : q = pool'
    OBVIOUS
  <1>3. p \in Pools /\ Tables(p) /\ q = ack_request(p, m, a)
    BY <1>1, <1>2 DEF PoolIInv, PoolTypeOK, Request
  <1>4. Kept4(p, q) /\ q.hung = p.hung /\ (Acked(p, m, a) => q.offer[m].ip = a /\ ~q.offer[m].expired)
    BY <1>3, AckHolds
  <1>5. UNCHANGED admin
    BY DEF Request
  <1>6. PICK f, g, v : f = lease /\ g = lease' /\ v = IF Acked(p, m, a) THEN a ELSE NoIp
    OBVIOUS
  <1>7. f \in [Macs -> Addrs \cup {NoIp}] /\ v \in Addrs \cup {NoIp} /\ g = Put(f, m, v)
    BY <1>1, <1>6 DEF PoolIInv, PoolTypeOK, Request
  <1>8. g \in [Macs -> Addrs \cup {NoIp}] /\ \A n \in Macs : g[n] = IF n = m THEN v ELSE f[n]
    BY <1>7, LeasePut
  <1>9. LeasesHeld'
    <2> SUFFICES ASSUME NEW n \in Macs, g[n] # NoIp
                 PROVE  q.offer[n].ip = g[n] /\ ~q.offer[n].expired
      BY <1>2, <1>6 DEF LeasesHeld
    <2>1. CASE n = m
      BY <1>4, <1>6, <1>8, <2>1
    <2>2. CASE n # m
      <3>1. g[n] = f[n]
        BY <1>8, <2>2
      <3>2. p.offer[n].ip = f[n] /\ ~p.offer[n].expired
        BY <1>1, <1>6, <3>1 DEF PoolIInv, LeasesHeld
      <3> QED BY <1>4, <3>1, <3>2 DEF Kept4, Keeps
    <2> QED BY <2>1, <2>2
  <1>10. (Honest => Apart(p, bound)) /\ (Addrs = DynRange => ~p.hung)
    BY <1>1 DEF PoolIInv
  <1>11. q \in Pools /\ Tables(q) /\ (Honest => Apart(q, bound)) /\ (Addrs = DynRange => ~q.hung)
    BY <1>4, <1>10 DEF Kept4
  <1> QED BY <1>2, <1>5, <1>6, <1>8, <1>9, <1>11, ServeStep

LEMMA DeclineStep ==
  ASSUME PoolIInv, NEW m \in Macs, NEW a \in Addrs, Decline(m, a)
  PROVE  PoolIInv'
  <1>1. PICK p : p = pool
    OBVIOUS
  <1>2. PICK q : q = pool'
    OBVIOUS
  <1>3. p \in Pools /\ Tables(p) /\ q = add_decline_ip(p, a)
    BY <1>1, <1>2 DEF PoolIInv, PoolTypeOK, Decline
  <1>4. Kept4(p, q) /\ q.hung = p.hung /\ q.offer = p.offer
    BY <1>3, DeclineHolds
  <1>5. UNCHANGED admin
    BY DEF Decline
  <1>6. PICK f, g, v : f = lease /\ g = lease' /\ v = Put(f, m, NoIp)
    OBVIOUS
  <1>7. f \in [Macs -> Addrs \cup {NoIp}] /\ g \in {f, v}
    BY <1>1, <1>6 DEF PoolIInv, PoolTypeOK, Decline
  <1>8. v \in [Macs -> Addrs \cup {NoIp}] /\ \A n \in Macs : v[n] = IF n = m THEN NoIp ELSE f[n]
    BY <1>6, <1>7, LeasePut
  <1>9. LeasesHeld'
    <2>1. \A n \in Macs : lease'[n] \in {lease[n], NoIp}
      BY <1>6, <1>7, <1>8
    <2> QED BY <1>1, <1>2, <1>4, <2>1, LeasesKept DEF PoolIInv, Kept4
  <1>10. (Honest => Apart(p, bound)) /\ (Addrs = DynRange => ~p.hung)
    BY <1>1 DEF PoolIInv
  <1>11. q \in Pools /\ Tables(q) /\ (Honest => Apart(q, bound)) /\ (Addrs = DynRange => ~q.hung)
    BY <1>4, <1>10 DEF Kept4
  <1>12. g \in [Macs -> Addrs \cup {NoIp}]
    BY <1>7, <1>8
  <1> QED BY <1>2, <1>5, <1>6, <1>9, <1>11, <1>12, ServeStep

LEMMA ReleaseStep ==
  ASSUME PoolIInv, NEW m \in Macs, NEW a \in Addrs, Release(m, a)
  PROVE  PoolIInv'
  <1>1. PICK p : p = pool
    OBVIOUS
  <1>2. PICK q : q = pool'
    OBVIOUS
  <1>3. p \in Pools /\ Tables(p) /\ q = release_ip(p, m, a)
    BY <1>1, <1>2 DEF PoolIInv, PoolTypeOK, Release
  <1>4. /\ q \in Pools /\ Tables(q) /\ q.hung = p.hung
        /\ \A n \in Macs : n # m => q.offer[n] = p.offer[n]
        /\ \A B : Apart(p, B) /\ p.offer[m].ip \in {NoIp, a} => Apart(q, B)
    BY <1>3, ReleaseHolds
  <1>5. UNCHANGED admin
    BY DEF Release
  <1>6. PICK f, g : f = lease /\ g = lease'
    OBVIOUS
  <1>7. f \in [Macs -> Addrs \cup {NoIp}] /\ g = Put(f, m, NoIp) /\ (Honest => f[m] = a)
    BY <1>6 DEF PoolIInv, PoolTypeOK, Release
  <1>8. g \in [Macs -> Addrs \cup {NoIp}] /\ \A n \in Macs : g[n] = IF n = m THEN NoIp ELSE f[n]
    BY <1>7, LeasePut
  <1>9. \A n \in Macs : f[n] # NoIp => p.offer[n].ip = f[n] /\ ~p.offer[n].expired
    BY <1>1, <1>6 DEF PoolIInv, LeasesHeld
  <1>10. LeasesHeld'
    BY <1>2, <1>4, <1>6, <1>8, <1>9 DEF LeasesHeld
  <1>11. (Honest => Apart(p, bound)) /\ (Addrs = DynRange => ~p.hung)
    BY <1>1 DEF PoolIInv
  <1>12. Honest => p.offer[m].ip = a
    BY <1>7, <1>9, PoolSets
  <1>13. (Honest => Apart(q, bound)) /\ (Addrs = DynRange => ~q.hung)
    BY <1>4, <1>11, <1>12
  <1> QED BY <1>2, <1>4, <1>5, <1>6, <1>8, <1>10, <1>13, ServeStep

LEMMA ElapseStep ==
  ASSUME PoolIInv, NEW m \in Macs, Elapse(m)
  PROVE  PoolIInv'
  <1>1. PICK p : p = pool
    OBVIOUS
  <1>2. PICK q : q = pool'
    OBVIOUS
  <1>3. p \in Pools /\ Tables(p)
    BY <1>1 DEF PoolIInv, PoolTypeOK
  <1>31. PICK o0 \in [Macs -> Offers] : o0 = p.offer
    BY <1>3, PoolFields
  <1>32. PICK e : e = [o0[m] EXCEPT !.expired = TRUE]
    OBVIOUS
  <1>33. e \in Offers /\ e.ip = o0[m].ip /\ e.static = o0[m].static
    BY <1>32 DEF Offers
  <1>34. PICK o : o = Put(o0, m, e)
    OBVIOUS
  <1>35. o \in [Macs -> Offers] /\ \A n \in Macs : o[n] = IF n = m THEN e ELSE o0[n]
    BY <1>33, <1>34 DEF Put
  <1>36. q = [p EXCEPT !.offer = o]
    BY <1>1, <1>2, <1>31, <1>32, <1>34 DEF Elapse
  <1>4. q \in Pools /\ q.bind = p.bind /\ q.owner = p.owner /\ q.alloc = p.alloc /\ q.offer = o /\ q.hung = p.hung
    BY ONLY <1>3, <1>35, <1>36, EditOffer
  <1>5. UNCHANGED admin
    BY DEF Elapse
  <1>6. PICK f, g : f = lease /\ g = lease'
    OBVIOUS
  <1>7. f \in [Macs -> Addrs \cup {NoIp}] /\ g = Put(f, m, NoIp)
    BY <1>6 DEF PoolIInv, PoolTypeOK, Elapse
  <1>8. g \in [Macs -> Addrs \cup {NoIp}] /\ \A n \in Macs : g[n] = IF n = m THEN NoIp ELSE f[n]
    BY <1>7, LeasePut
  <1>9. \A n \in Macs : f[n] # NoIp => p.offer[n].ip = f[n] /\ ~p.offer[n].expired
    BY <1>1, <1>6 DEF PoolIInv, LeasesHeld
  <1>10. LeasesHeld'
    BY <1>2, <1>4, <1>6, <1>8, <1>9, <1>31, <1>35 DEF LeasesHeld
  <1>11. \A n \in Macs : q.offer[n].ip = p.offer[n].ip /\ q.offer[n].static = p.offer[n].static
    BY <1>4, <1>31, <1>33, <1>35
  <1>12. Tables(q)
    BY <1>3, <1>4, <1>11 DEF Tables
  <1>13. (Honest => Apart(p, bound)) /\ (Addrs = DynRange => ~p.hung)
    BY <1>1 DEF PoolIInv
  <1>14. (Honest => Apart(q, bound)) /\ (Addrs = DynRange => ~q.hung)
    BY <1>4, <1>11, <1>13 DEF Apart
  <1> QED BY <1>2, <1>4, <1>5, <1>6, <1>8, <1>10, <1>12, <1>14, ServeStep

\* The channel of the observer.
Named(s) == s \in Seq(Events) /\ Len(s) <= EventCap /\ \A i \in 1 .. Len(s) : s[i].add # NoMac => s[i].ip # NoIp

LEMMA NamedTail ==
  ASSUME NEW s, Named(s), s # << >>
  PROVE  Named(Tail(s)) /\ Head(s) \in Events /\ (Head(s).add # NoMac => Head(s).ip # NoIp) /\ Len(Tail(s)) = Len(s) - 1
  <1>0. s \in Seq(Events) /\ Len(s) \in Nat /\ Len(s) <= EventCap /\ EventCap \in Nat
    BY PoolConstants DEF Named
  <1>1. /\ Head(s) = s[1] /\ Head(s) \in Events /\ Tail(s) \in Seq(Events) /\ Len(Tail(s)) = Len(s) - 1
        /\ \A i \in 1 .. Len(Tail(s)) : Tail(s)[i] = s[i + 1]
    BY <1>0, HeadTailProperties
  <1>2. Len(s) # 0
    BY <1>0, EmptySeq
  <1>3. 1 \in 1 .. Len(s)
    BY <1>0, <1>2
  <1>4. Head(s).add # NoMac => Head(s).ip # NoIp
    BY <1>1, <1>3 DEF Named
  <1>5. \A i \in 1 .. Len(Tail(s)) : Tail(s)[i].add # NoMac => Tail(s)[i].ip # NoIp
    <2> SUFFICES ASSUME NEW i \in 1 .. Len(Tail(s))
                 PROVE  Tail(s)[i].add # NoMac => Tail(s)[i].ip # NoIp
      OBVIOUS
    <2>1. i + 1 \in 1 .. Len(s)
      BY <1>0, <1>1
    <2> QED BY <1>1, <2>1 DEF Named
  <1>6. Len(Tail(s)) <= EventCap
    BY <1>0, <1>1
  <1> QED BY <1>1, <1>4, <1>5, <1>6 DEF Named

LEMMA NamedAppend ==
  ASSUME NEW s, Named(s), Len(s) < EventCap, NEW e \in Events, e.add # NoMac => e.ip # NoIp, NEW t, t = Append(s, e)
  PROVE  Named(t)
  <1>0. s \in Seq(Events) /\ Len(s) \in Nat /\ EventCap \in Nat
    BY PoolConstants DEF Named
  <1>1. /\ t \in Seq(Events) /\ Len(t) = Len(s) + 1
        /\ \A i \in 1 .. Len(s) : t[i] = s[i]
        /\ t[Len(s) + 1] = e
    BY <1>0, AppendProperties
  <1>2. \A i \in 1 .. Len(t) : t[i].add # NoMac => t[i].ip # NoIp
    <2> SUFFICES ASSUME NEW i \in 1 .. Len(t) PROVE t[i].add # NoMac => t[i].ip # NoIp
      OBVIOUS
    <2>1. i \in 1 .. Len(s) \/ i = Len(s) + 1
      BY <1>0, <1>1
    <2> QED BY <1>1, <2>1 DEF Named
  <1>3. Len(t) <= EventCap
    BY <1>0, <1>1
  <1> QED BY <1>1, <1>2, <1>3 DEF Named

LEMMA SendNamed ==
  ASSUME Named(events), lagged \in BOOLEAN, NEW e \in Events, e.add # NoMac => e.ip # NoIp, Send(e)
  PROVE  Named(events') /\ lagged' \in BOOLEAN
  <1>1. PICK s : s = events
    OBVIOUS
  <1>2. PICK t : t = events'
    OBVIOUS
  <1>3. Named(s) /\ Len(s) \in Nat /\ Len(s) <= EventCap /\ EventCap \in Nat \ {0}
    BY <1>1, PoolConstants DEF Named
  <1>4. CASE Len(s) = EventCap
    <2>1. t = Append(Tail(s), e)
      BY <1>1, <1>2, <1>4 DEF Send
    <2>2. s # << >>
      BY <1>3, <1>4
    <2>3. PICK r : r = Tail(s)
      OBVIOUS
    <2>4. Named(r) /\ Len(r) = Len(s) - 1
      BY <1>3, <2>2, <2>3, NamedTail
    <2>5. Len(r) < EventCap
      BY <1>3, <1>4, <2>4
    <2> QED BY <1>2, <2>1, <2>3, <2>4, <2>5, NamedAppend DEF Send
  <1>5. CASE Len(s) # EventCap
    <2>1. t = Append(s, e) /\ Len(s) < EventCap
      BY <1>1, <1>2, <1>3, <1>5 DEF Send
    <2> QED BY <1>2, <1>3, <2>1, NamedAppend DEF Send
  <1> QED BY <1>4, <1>5

\* A change of the enrolled devices goes to the database and the channel.
LEMMA DeviceStep ==
  ASSUME PoolIInv, UNCHANGED << pool, loaded, starting, listening, missed, lease, bound, starts >>,
         device' \in [Macs -> Addrs \cup {NoIp}], Distinct(device'),
         pushes < MaxPushes, pushes' = pushes + 1, Named(events'), lagged' \in BOOLEAN
  PROVE  PoolIInv'
  <1>1. pushes' \in 0 .. MaxPushes
    BY PoolConstants DEF PoolIInv, PoolTypeOK
  <1>2. PoolTypeOK'
    BY <1>1 DEF PoolIInv, PoolTypeOK, Named, Distinct
  <1>3. EventsNamed'
    BY DEF EventsNamed, Named
  <1>4. LeasesHeld' /\ Distinct(loaded)' /\ Tables(pool)'
    BY DEF PoolIInv, LeasesHeld, Distinct, Tables
  <1> QED BY <1>2, <1>3, <1>4 DEF PoolIInv

LEMMA ChannelNamed ==
  ASSUME PoolIInv
  PROVE  Named(events) /\ lagged \in BOOLEAN
  BY DEF PoolIInv, PoolTypeOK, EventsNamed, Named

LEMMA PushStep ==
  ASSUME PoolIInv, NEW o \in Macs, NEW m \in Macs, NEW a \in Addrs \cup {NoIp}, PushDevice(o, m, a)
  PROVE  PoolIInv'
  <1>1. PICK d : d = device
    OBVIOUS
  <1>2. d \in [Macs -> Addrs \cup {NoIp}] /\ Distinct(d)
    BY <1>1 DEF PoolIInv, PoolTypeOK
  <1>3. PICK d1 : d1 = Put(d, o, NoIp)
    OBVIOUS
  <1>4. d1 \in [Macs -> Addrs \cup {NoIp}] /\ \A n \in Macs : d1[n] = IF n = o THEN NoIp ELSE d[n]
    BY <1>2, <1>3, LeasePut
  <1>5. PICK d2 : d2 = Put(d1, m, a)
    OBVIOUS
  <1>6. d2 \in [Macs -> Addrs \cup {NoIp}] /\ \A n \in Macs : d2[n] = IF n = m THEN a ELSE d1[n]
    BY <1>4, <1>5, LeasePut
  <1>7. device' = d2
    BY <1>1, <1>3, <1>5 DEF PushDevice
  <1>8. a # NoIp => \A n \in Macs : n # o => d[n] # a
    BY <1>1 DEF PushDevice
  <1>9. Distinct(d2)
    BY <1>2, <1>4, <1>6, <1>8 DEF Distinct
  <1>10. PICK e : e = [del |-> o, add |-> IF a = NoIp THEN NoMac ELSE m, ip |-> a]
    OBVIOUS
  <1>11. e \in Events /\ (e.add # NoMac => e.ip # NoIp)
    BY <1>10 DEF Events
  <1>12. Send(e) \/ UNCHANGED << events, lagged >>
    BY <1>10 DEF PushDevice
  <1>13. Named(events') /\ lagged' \in BOOLEAN
    BY <1>11, <1>12, ChannelNamed, SendNamed
  <1>14. /\ UNCHANGED << pool, loaded, starting, listening, missed, lease, bound, starts >>
         /\ pushes < MaxPushes /\ pushes' = pushes + 1
    BY DEF PushDevice
  <1> QED BY <1>6, <1>7, <1>9, <1>13, <1>14, DeviceStep

LEMMA DeleteStep ==
  ASSUME PoolIInv, NEW m \in Macs, DeleteDevice(m)
  PROVE  PoolIInv'
  <1>1. PICK d : d = device
    OBVIOUS
  <1>2. d \in [Macs -> Addrs \cup {NoIp}] /\ Distinct(d)
    BY <1>1 DEF PoolIInv, PoolTypeOK
  <1>3. PICK d1 : d1 = Put(d, m, NoIp)
    OBVIOUS
  <1>4. d1 \in [Macs -> Addrs \cup {NoIp}] /\ \A n \in Macs : d1[n] = IF n = m THEN NoIp ELSE d[n]
    BY <1>2, <1>3, LeasePut
  <1>5. device' = d1
    BY <1>1, <1>3 DEF DeleteDevice
  <1>6. Distinct(d1)
    BY <1>2, <1>4 DEF Distinct
  <1>7. PICK e : e = [del |-> m, add |-> NoMac, ip |-> NoIp]
    OBVIOUS
  <1>8. e \in Events /\ e.add = NoMac
    BY <1>7 DEF Events
  <1>9. Send(e) \/ UNCHANGED << events, lagged >>
    BY <1>7 DEF DeleteDevice
  <1>10. Named(events') /\ lagged' \in BOOLEAN
    BY <1>8, <1>9, ChannelNamed, SendNamed
  <1>11. /\ UNCHANGED << pool, loaded, starting, listening, missed, lease, bound, starts >>
         /\ pushes < MaxPushes /\ pushes' = pushes + 1
    BY DEF DeleteDevice
  <1> QED BY <1>4, <1>5, <1>6, <1>10, <1>11, DeviceStep

\* What the observer's event does to the pool.
LEMMA EventHolds ==
  ASSUME NEW p \in Pools, Tables(p), NEW e \in Events, e.add # NoMac => e.ip # NoIp, NEW g, g = remove_binding(p, e.del),
         NEW q, q \in IF e.add = NoMac THEN {g} ELSE add_or_update_binding(g, e.add, e.ip)
  PROVE  /\ q \in Pools /\ Tables(q) /\ Fresh(p, q) /\ (Addrs = DynRange => q.hung = p.hung)
         /\ \A B : Apart(p, B) => Apart(q, B \cup ({e.ip} \ {NoIp}))
  <1>0. e.del \in Macs /\ e.add \in Macs \cup {NoMac} /\ e.ip \in Addrs \cup {NoIp}
    BY DEF Events
  <1>1. /\ g \in Pools /\ Tables(g) /\ Fresh(p, g) /\ g.hung = p.hung
        /\ \A B : Apart(p, B) => Apart(g, B)
    BY <1>0, DropHolds
  <1>2. CASE e.add = NoMac
    <2>1. q = g
      BY <1>2
    <2>2. \A B : Apart(p, B) => Apart(q, B \cup ({e.ip} \ {NoIp}))
      BY <1>1, <2>1, ApartGrows
    <2> QED BY <1>1, <2>1, <2>2
  <1>3. CASE e.add # NoMac
    <2>1. PICK m \in Macs, a \in Addrs : m = e.add /\ a = e.ip /\ a # NoIp
      BY <1>0, <1>3
    <2>2. q \in add_or_update_binding(g, m, a)
      BY <1>3, <2>1
    <2>3. /\ q \in Pools /\ Tables(q) /\ Fresh(g, q) /\ (Addrs = DynRange => q.hung = g.hung)
          /\ \A B : Apart(g, B) => Apart(q, B \cup {a})
      BY <1>1, <2>2, AddHolds
    <2>4. Fresh(p, q)
      BY <1>1, <2>3 DEF Fresh
    <2>5. {e.ip} \ {NoIp} = {a}
      BY <2>1
    <2> QED BY <1>1, <2>3, <2>4, <2>5
  <1> QED BY <1>2, <1>3

LEMMA ApplyStep ==
  ASSUME PoolIInv, ApplyEvent
  PROVE  PoolIInv'
  <1>1. PICK p, s, f, B : p = pool /\ s = events /\ f = lease /\ B = bound
    OBVIOUS
  <1>2. PICK q : q = pool'
    OBVIOUS
  <1>3. p \in Pools /\ Tables(p) /\ Named(s) /\ s # << >>
    BY <1>1, ChannelNamed DEF PoolIInv, PoolTypeOK, ApplyEvent
  <1>4. PICK e : e = Head(s)
    OBVIOUS
  <1>5. e \in Events /\ (e.add # NoMac => e.ip # NoIp) /\ Named(Tail(s))
    BY <1>3, <1>4, NamedTail
  <1>6. PICK g : g = remove_binding(p, e.del)
    OBVIOUS
  <1>7. q \in IF e.add = NoMac THEN {g} ELSE add_or_update_binding(g, e.add, e.ip)
    BY <1>1, <1>2, <1>4, <1>6 DEF ApplyEvent
  <1>8. /\ q \in Pools /\ Tables(q) /\ Fresh(p, q) /\ (Addrs = DynRange => q.hung = p.hung)
        /\ \A C : Apart(p, C) => Apart(q, C \cup ({e.ip} \ {NoIp}))
    BY <1>3, <1>5, <1>6, <1>7, EventHolds
  <1>9. lease' = [m \in Macs |-> IF q.offer[m].ip = p.offer[m].ip THEN f[m] ELSE NoIp]
    BY <1>1, <1>2 DEF ApplyEvent, Kept
  <1>10. f \in [Macs -> Addrs \cup {NoIp}] /\ \A n \in Macs : f[n] # NoIp => p.offer[n].ip = f[n] /\ ~p.offer[n].expired
    BY <1>1 DEF PoolIInv, PoolTypeOK, LeasesHeld
  <1>11. lease' \in [Macs -> Addrs \cup {NoIp}]
    BY <1>9, <1>10
  <1>12. LeasesHeld'
    <2> SUFFICES ASSUME NEW n \in Macs, lease'[n] # NoIp
                 PROVE  q.offer[n].ip = lease'[n] /\ ~q.offer[n].expired
      BY <1>2 DEF LeasesHeld
    <2>1. q.offer[n].ip = p.offer[n].ip /\ lease'[n] = f[n]
      BY <1>9
    <2>2. p.offer[n].ip = f[n] /\ ~p.offer[n].expired
      BY <1>10, <2>1
    <2>3. ~q.offer[n].expired
      BY <1>8, <2>2 DEF Fresh
    <2> QED BY <2>1, <2>2, <2>3
  <1>13. bound' = B \cup ({e.ip} \ {NoIp}) /\ events' = Tail(s)
    BY <1>1, <1>4 DEF ApplyEvent
  <1>14. bound' \in SUBSET Addrs
    BY <1>1, <1>5, <1>13 DEF PoolIInv, PoolTypeOK, Events
  <1>15. missed' \in BOOLEAN /\ UNCHANGED << loaded, starting, device, lagged, listening, pushes, starts >>
    BY DEF ApplyEvent, PoolIInv, PoolTypeOK
  <1>16. PoolTypeOK'
    BY <1>2, <1>5, <1>8, <1>11, <1>13, <1>14, <1>15 DEF PoolIInv, PoolTypeOK, Named, Distinct
  <1>17. EventsNamed' /\ Distinct(loaded)'
    BY <1>5, <1>13, <1>15 DEF EventsNamed, Named, PoolIInv, Distinct
  <1>18. (Honest => Apart(p, B)) /\ (Addrs = DynRange => ~p.hung)
    BY <1>1 DEF PoolIInv
  <1>19. (Honest => Apart(pool', bound')) /\ (Addrs = DynRange => ~pool'.hung) /\ Tables(pool')
    BY <1>2, <1>8, <1>13, <1>18
  <1> QED BY <1>12, <1>16, <1>17, <1>19 DEF PoolIInv

LEMMA RestartSteps ==
  ASSUME PoolIInv, LosesEvents \/ StartReads \/ StartInstalls
  PROVE  PoolIInv'
  <1>1. CASE LosesEvents
    <2>1. PoolTypeOK' /\ Distinct(loaded)'
      BY <1>1 DEF LosesEvents, PoolIInv, PoolTypeOK, Distinct
    <2>2. Tables(pool)' /\ LeasesHeld' /\ EventsNamed' /\ (Honest => Apart(pool, bound))' /\ (Addrs = DynRange => ~pool.hung)'
      BY <1>1 DEF LosesEvents, PoolIInv, Tables, LeasesHeld, EventsNamed, Apart
    <2> QED BY <2>1, <2>2 DEF PoolIInv
  <1>2. CASE StartReads
    <2>1. starts' \in 0 .. MaxStarts
      BY <1>2, PoolConstants DEF StartReads, PoolIInv, PoolTypeOK
    <2>2. PoolTypeOK' /\ Distinct(loaded)'
      BY <1>2, <2>1 DEF StartReads, PoolIInv, PoolTypeOK, Distinct
    <2>3. Tables(pool)' /\ LeasesHeld' /\ EventsNamed' /\ (Honest => Apart(pool, bound))' /\ (Addrs = DynRange => ~pool.hung)'
      BY <1>2 DEF StartReads, PoolIInv, Tables, LeasesHeld, EventsNamed, Apart
    <2> QED BY <2>2, <2>3 DEF PoolIInv
  <1>3. CASE StartInstalls
    <2>1. PICK d, B : d = loaded /\ B = bound
      OBVIOUS
    <2>2. PICK q : q = pool'
      OBVIOUS
    <2>3. d \in [Macs -> Addrs \cup {NoIp}] /\ Distinct(d) /\ q = from_config_and_devices(d)
      BY <1>3, <2>1, <2>2 DEF StartInstalls, PoolIInv, PoolTypeOK
    <2>4. q \in Pools /\ Tables(q) /\ q.hung = FALSE /\ Apart(q, BoundIn(d))
      BY <2>3, BuiltHolds
    <2>5. Apart(q, B \cup BoundIn(d))
      BY <2>4, ApartGrows
    <2>6. NoBindings \in [Macs -> Addrs \cup {NoIp}] /\ Distinct(NoBindings) /\ \A m \in Macs : NoBindings[m] = NoIp
      BY DEF NoBindings, Distinct
    <2>7. BoundIn(d) \in SUBSET Addrs
      BY PoolSets DEF BoundIn
    <2>8. /\ starting' = FALSE /\ lease' = NoBindings /\ loaded' = NoBindings /\ bound' = B \cup BoundIn(d)
          /\ UNCHANGED << device, events, lagged, listening, missed, pushes, starts >>
      BY <1>3, <2>1 DEF StartInstalls
    <2>9. bound' \in SUBSET Addrs
      BY <2>1, <2>7, <2>8 DEF PoolIInv, PoolTypeOK
    <2>10. PoolTypeOK'
      BY <2>2, <2>4, <2>6, <2>8, <2>9 DEF PoolIInv, PoolTypeOK, Distinct
    <2>11. LeasesHeld' /\ EventsNamed' /\ Distinct(loaded)'
      BY <2>6, <2>8 DEF PoolIInv, LeasesHeld, EventsNamed
    <2> QED BY <2>2, <2>4, <2>5, <2>8, <2>10, <2>11 DEF PoolIInv
  <1> QED BY <1>1, <1>2, <1>3

LEMMA PoolStutters ==
  ASSUME PoolIInv, UNCHANGED poolVars
  PROVE  PoolIInv'
  BY DEF poolVars, PoolIInv, PoolTypeOK, Tables, LeasesHeld, EventsNamed, Distinct, Apart

LEMMA PoolInductive == PoolIInv /\ [PoolNext]_poolVars => PoolIInv'
  <1> SUFFICES ASSUME PoolIInv, [PoolNext]_poolVars PROVE PoolIInv'
    OBVIOUS
  <1>1. ASSUME NEW m \in Macs, Discover(m) \/ Elapse(m) \/ DeleteDevice(m) PROVE PoolIInv'
    BY <1>1, DiscoverStep, ElapseStep, DeleteStep
  <1>2. ASSUME NEW m \in Macs, NEW a \in Addrs, Request(m, a) \/ Decline(m, a) \/ Release(m, a) PROVE PoolIInv'
    BY <1>2, RequestStep, DeclineStep, ReleaseStep
  <1>3. ASSUME NEW o \in Macs, NEW m \in Macs, NEW a \in Addrs \cup {NoIp}, PushDevice(o, m, a) PROVE PoolIInv'
    BY <1>3, PushStep
  <1>4. ASSUME ExpireTimer \/ ApplyEvent \/ LosesEvents \/ StartReads \/ StartInstalls PROVE PoolIInv'
    BY <1>4, TimerStep, ApplyStep, RestartSteps
  <1>5. CASE UNCHANGED poolVars
    BY <1>5, PoolStutters
  <1> QED BY <1>1, <1>2, <1>3, <1>4, <1>5 DEF PoolNext

LEMMA PoolIInvAlways == PoolSpec => []PoolIInv
  BY PoolStarts, PoolInductive, PTL DEF PoolSpec

\* With clients that may release and decline addresses they do not hold, and
\* bindings anywhere, the tables of the pool still agree: static_bindings is the
\* inverse of ip_owner and a static offer is its client's bound address.
THEOREM PoolTablesAgree == PoolSpec => [](PoolTypeOK /\ BindingsAgree)
  <1>1. PoolIInv => PoolTypeOK /\ BindingsAgree
    BY DEF PoolIInv, Tables, BindingsAgree
  <1> QED BY <1>1, PoolIInvAlways, PTL

\* With clients that release and decline only the address they hold, no two of
\* them are promised one address, except an address that had a static binding.
THEOREM PoolLeasesApart ==
  ASSUME Honest
  PROVE  PoolSpec => []NoDoubleLease
  <1>1. PoolIInv => NoDoubleLease
    BY DEF PoolIInv, LeasesHeld, Apart, NoDoubleLease
  <1> QED BY <1>1, PoolIInvAlways, PTL

\* With every binding inside the range besides, offer_ip always returns: the
\* search finds a free address or sees that all of them are allocated.
THEOREM PoolSound ==
  ASSUME Honest, Reserved = {}, Away = {}
  PROVE  PoolSpec => []PoolInv
  <1>1. Addrs = DynRange
    BY DEF Addrs, Subnet
  <1>2. PoolIInv => PoolInv
    <2>1. PoolIInv => BindingsAgree
      BY DEF PoolIInv, Tables, BindingsAgree
    <2>2. PoolIInv => NoDoubleLease
      BY DEF PoolIInv, LeasesHeld, Apart, NoDoubleLease
    <2>3. PoolIInv => OfferReturns /\ PoolTypeOK
      BY <1>1 DEF PoolIInv, OfferReturns
    <2> QED BY <2>1, <2>2, <2>3 DEF PoolInv
  <1> QED BY <1>2, PoolIInvAlways, PTL

(***************************************************************************)
(* LanIpv6Leases: the address tables.                                      *)
(***************************************************************************)
StaticLease(t, d) == Leased(t, d) /\ t.leases[d].static

\* A dynamic lease owns its suffix, apart from that of DUID h.
DynamicOwns(t, h) ==
  \A d \in Duids : d # h /\ DynamicLease(t, d) => t.owners[t.leases[d].suffix] = DynamicDuid(d)

\* A static lease lies on the binding of its MAC, which is not g.
StaticBound(t, h, g) ==
  \A d \in Duids : d # h /\ StaticLease(t, d) =>
    /\ t.leases[d].mac \in ClientMacs /\ t.leases[d].mac # g
    /\ t.statics[t.leases[d].mac] = t.leases[d].suffix

\* A binding owns its suffix, apart from that of g.
BindingOwns(t, g) == \A m \in ClientMacs : m # g /\ t.statics[m] # 0 => t.owners[t.statics[m]] = StaticMac(m)

\* A DUID that owns a suffix leases it.
OwnerLeases(t, h) ==
  \A s \in Suffixes, d \in Duids :
    t.owners[s] = DynamicDuid(d) => d # h /\ DynamicLease(t, d) /\ t.leases[d].suffix = s

\* A MAC that owns a suffix is bound to it.
OwnerBound(t, g) == \A s \in Suffixes, m \in ClientMacs : t.owners[s] = StaticMac(m) => m # g /\ t.statics[m] = s

\* No MAC has two static leases.
OneStatic(t, h) ==
  \A d, e \in Duids :
    d # h /\ e # h /\ StaticLease(t, d) /\ StaticLease(t, e) /\ t.leases[d].mac = t.leases[e].mac => d = e

\* An owner is a MAC or a DUID, or there is none.
OwnersKnown(t) ==
  \A s \in Suffixes : \/ t.owners[s] = Nobody
                      \/ \E m \in ClientMacs : t.owners[s] = StaticMac(m)
                      \/ \E d \in Duids : t.owners[s] = DynamicDuid(d)

\* The tables agree, apart from the lease of DUID h and the binding of MAC g, which are being
\* changed: nothing in the owner table speaks of either.
AgreeBut(t, h, g) ==
  /\ DynamicOwns(t, h) /\ StaticBound(t, h, g) /\ BindingOwns(t, g)
  /\ OwnerLeases(t, h) /\ OwnerBound(t, g) /\ OneStatic(t, h)

\* The tables are well formed and agree, apart from h and g; or all of them do.
NaFitsBut(t, h, g) == t \in NaTables /\ OwnersKnown(t) /\ AgreeBut(t, h, g)
NaFits(t) == NaFitsBut(t, NoDuid, NoMac6)

\* The records the two tables hold.
NaLeases == [suffix : Suffixes \cup {0}, mac : ClientMacs \cup {NoMac6}, static : BOOLEAN]
NaOwners == [by : {"none", "mac", "duid"}, duid : Duids \cup {NoDuid}, mac : ClientMacs \cup {NoMac6}]

\* Different owners are different records.
LEMMA NaOwnersApart ==
  /\ \A d, e : DynamicDuid(d) = DynamicDuid(e) <=> d = e
  /\ \A m, n : StaticMac(m) = StaticMac(n) <=> m = n
  /\ \A d, m : DynamicDuid(d) # StaticMac(m)
  /\ \A d : DynamicDuid(d) # Nobody /\ DynamicDuid(d).by = "duid" /\ DynamicDuid(d).duid = d
  /\ \A m : StaticMac(m) # Nobody /\ StaticMac(m).by = "mac" /\ StaticMac(m).mac = m
  /\ Nobody.by = "none" /\ Nobody \in NaOwners
  /\ \A d \in Duids : DynamicDuid(d) \in NaOwners
  /\ \A m \in ClientMacs : StaticMac(m) \in NaOwners
  BY DEF DynamicDuid, StaticMac, Nobody, NaOwners

\* The records written by the handlers, and what the constants leave no room for.
LEMMA NaRecords ==
  /\ NoNaLease \in NaLeases /\ NoNaLease.suffix = 0 /\ NoNaLease.static = FALSE
  /\ \A s \in Suffixes, m \in ClientMacs \cup {NoMac6}, b \in BOOLEAN :
        [suffix |-> s, mac |-> m, static |-> b] \in NaLeases
  /\ 0 \notin Suffixes /\ NoDuid \notin Duids /\ NoMac6 \notin ClientMacs /\ Pool6 \subseteq Suffixes
  BY LeaseConstants DEF NoNaLease, NaLeases

\* The parts of a table.
LEMMA NaFields ==
  ASSUME NEW t \in NaTables
  PROVE  /\ t.leases \in [Duids -> NaLeases] /\ t.owners \in [Suffixes -> NaOwners]
         /\ t.statics \in [ClientMacs -> Suffixes \cup {0}] /\ t.slaac \subseteq Suffixes
         /\ \A d \in Duids : /\ t.leases[d].suffix \in Suffixes \cup {0} /\ t.leases[d].static \in BOOLEAN
                             /\ t.leases[d].mac \in ClientMacs \cup {NoMac6}
  BY DEF NaTables, NaLeases, NaOwners

\* A table is made of its four parts.
LEMMA NaMade ==
  ASSUME NEW L \in [Duids -> NaLeases], NEW O \in [Suffixes -> NaOwners],
         NEW S \in [ClientMacs -> Suffixes \cup {0}], NEW A \in SUBSET Suffixes
  PROVE  [leases |-> L, owners |-> O, statics |-> S, slaac |-> A] \in NaTables
  BY DEF NaTables, NaLeases, NaOwners

\* remove_na_lease
LEMMA RemoveFits ==
  ASSUME NEW t, NaFits(t), NEW d \in Duids
  PROVE  NaFits(remove_na_lease(t, d))
  <1>t. /\ t \in NaTables /\ OwnersKnown(t) /\ AgreeBut(t, NoDuid, NoMac6)
    BY DEF NaFits, NaFitsBut
  <1>f. /\ t.leases \in [Duids -> NaLeases] /\ t.owners \in [Suffixes -> NaOwners]
        /\ t.statics \in [ClientMacs -> Suffixes \cup {0}] /\ t.slaac \in SUBSET Suffixes
    BY <1>t, NaFields
  <1>1. PICK u : u = remove_na_lease(t, d)
    OBVIOUS
  <1>2. /\ u.leases = [t.leases EXCEPT ![d] = NoNaLease] /\ u.statics = t.statics /\ u.slaac = t.slaac
        /\ u.owners = IF DynamicLease(t, d) THEN WithoutOwner(t.owners, t.leases[d].suffix, d) ELSE t.owners
    BY <1>1 DEF remove_na_lease
  <1>3. /\ u.leases \in [Duids -> NaLeases] /\ u.leases[d] = NoNaLease
        /\ \A e \in Duids : e # d => u.leases[e] = t.leases[e]
    BY <1>2, <1>f, NaRecords
  <1>4. /\ u.owners \in [Suffixes -> NaOwners]
        /\ \A s \in Suffixes : u.owners[s] = IF t.owners[s] = DynamicDuid(d) THEN Nobody ELSE t.owners[s]
    <2>1. CASE DynamicLease(t, d)
      <3>1. u.owners = WithoutOwner(t.owners, t.leases[d].suffix, d)
        BY <1>2, <2>1
      <3>2. \A s \in Suffixes : t.owners[s] = DynamicDuid(d) => s = t.leases[d].suffix
        BY <1>t DEF AgreeBut, OwnerLeases
      <3> QED BY <3>1, <3>2, <1>f, NaOwnersApart DEF WithoutOwner
    <2>2. CASE ~DynamicLease(t, d)
      <3>1. \A s \in Suffixes : t.owners[s] # DynamicDuid(d)
        BY <1>t, <2>2 DEF AgreeBut, OwnerLeases
      <3> QED BY <3>1, <1>2, <2>2, <1>f
    <2> QED BY <2>1, <2>2
  <1>5. u \in NaTables
    <2>1. u = [leases |-> u.leases, owners |-> u.owners, statics |-> u.statics, slaac |-> u.slaac]
      BY <1>1 DEF remove_na_lease
    <2>2. u.statics \in [ClientMacs -> Suffixes \cup {0}] /\ u.slaac \in SUBSET Suffixes
      BY <1>2, <1>f
    <2> QED BY <2>1, <2>2, <1>3, <1>4, NaMade
  <1>6. OwnersKnown(u)
    BY <1>t, <1>4 DEF OwnersKnown
  <1>7. \A e \in Duids : (DynamicLease(u, e) <=> e # d /\ DynamicLease(t, e)) /\ (StaticLease(u, e) <=> e # d /\ StaticLease(t, e))
    BY <1>3, NaRecords DEF DynamicLease, StaticLease, Leased
  <1>8. AgreeBut(u, NoDuid, NoMac6)
    <2> USE <1>t, <1>2, <1>3, <1>4, <1>7, NaOwnersApart, NaRecords DEF AgreeBut
    <2>0. \A e \in Duids : DynamicLease(t, e) => t.leases[e].suffix \in Suffixes
      BY NaFields DEF DynamicLease, Leased
    <2>1. DynamicOwns(u, NoDuid)
      BY <2>0 DEF DynamicOwns
    <2>2. StaticBound(u, NoDuid, NoMac6)
      BY DEF StaticBound
    <2>3. BindingOwns(u, NoMac6)
      BY <1>f DEF BindingOwns
    <2>4. OwnerLeases(u, NoDuid)
      BY DEF OwnerLeases
    <2>5. OwnerBound(u, NoMac6)
      BY DEF OwnerBound
    <2>6. OneStatic(u, NoDuid)
      BY DEF OneStatic
    <2> QED BY <2>1, <2>2, <2>3, <2>4, <2>5, <2>6
  <1> QED BY <1>1, <1>5, <1>6, <1>8 DEF NaFits, NaFitsBut

\* clean_expired_na
LEMMA CleanFits ==
  ASSUME NEW t, NEW h, NEW g, NaFitsBut(t, h, g), NEW E \in SUBSET Duids
  PROVE  /\ NaFitsBut(clean_expired_na(t, E), h, g)
         /\ clean_expired_na(t, E).statics = t.statics
         /\ \A e \in Duids : clean_expired_na(t, E).leases[e] \in {t.leases[e], NoNaLease}
         /\ \A s \in Suffixes : t.owners[s] = Nobody => clean_expired_na(t, E).owners[s] = Nobody
  <1>t. /\ t \in NaTables /\ OwnersKnown(t) /\ AgreeBut(t, h, g)
    BY DEF NaFitsBut
  <1>f. /\ t.leases \in [Duids -> NaLeases] /\ t.owners \in [Suffixes -> NaOwners]
        /\ t.statics \in [ClientMacs -> Suffixes \cup {0}] /\ t.slaac \in SUBSET Suffixes
    BY <1>t, NaFields
  <1>1. PICK u : u = clean_expired_na(t, E)
    OBVIOUS
  <1>2. /\ u.leases = [d \in Duids |-> IF d \in E /\ DynamicLease(t, d) THEN NoNaLease ELSE t.leases[d]]
        /\ u.statics = t.statics /\ u.slaac = t.slaac
        /\ u.owners = [s \in Suffixes |->
              IF \E d \in E : DynamicLease(t, d) /\ t.leases[d].suffix = s /\ t.owners[s] = DynamicDuid(d)
              THEN Nobody ELSE t.owners[s]]
    BY <1>1 DEF clean_expired_na
  <1>3. /\ u.leases \in [Duids -> NaLeases]
        /\ \A e \in Duids : u.leases[e] = IF e \in E /\ DynamicLease(t, e) THEN NoNaLease ELSE t.leases[e]
    BY <1>2, <1>f, NaRecords
  <1>4. /\ u.owners \in [Suffixes -> NaOwners]
        /\ \A s \in Suffixes : u.owners[s] \in {t.owners[s], Nobody}
        /\ \A s \in Suffixes, d \in E : t.owners[s] = DynamicDuid(d) => u.owners[s] = Nobody
        /\ \A s \in Suffixes : (\A d \in E : t.owners[s] # DynamicDuid(d)) => u.owners[s] = t.owners[s]
    <2>1. \A s \in Suffixes, d \in E :
            t.owners[s] = DynamicDuid(d) => DynamicLease(t, d) /\ t.leases[d].suffix = s
      BY <1>t DEF AgreeBut, OwnerLeases
    <2>2. \A s \in Suffixes : u.owners[s] =
            IF \E d \in E : DynamicLease(t, d) /\ t.leases[d].suffix = s /\ t.owners[s] = DynamicDuid(d)
              THEN Nobody ELSE t.owners[s]
      BY <1>2
    <2>3. u.owners \in [Suffixes -> NaOwners]
      BY <1>2, <1>f, NaOwnersApart
    <2> QED BY <2>1, <2>2, <2>3
  <1>5. u \in NaTables
    <2>1. u = [leases |-> u.leases, owners |-> u.owners, statics |-> u.statics, slaac |-> u.slaac]
      BY <1>1 DEF clean_expired_na
    <2>2. u.statics \in [ClientMacs -> Suffixes \cup {0}] /\ u.slaac \in SUBSET Suffixes
      BY <1>2, <1>f
    <2> QED BY <2>1, <2>2, <1>3, <1>4, NaMade
  <1>6. OwnersKnown(u)
    BY <1>t, <1>4 DEF OwnersKnown
  <1>7. \A e \in Duids : /\ DynamicLease(u, e) <=> e \notin E /\ DynamicLease(t, e)
                         /\ StaticLease(u, e) <=> StaticLease(t, e)
                         /\ StaticLease(u, e) \/ DynamicLease(u, e) => u.leases[e] = t.leases[e]
    BY <1>3, NaRecords DEF DynamicLease, StaticLease, Leased
  <1>8. AgreeBut(u, h, g)
    <2> USE <1>t, <1>2, <1>4, <1>7, NaOwnersApart, NaRecords DEF AgreeBut
    <2>0. \A e \in Duids : DynamicLease(t, e) => t.leases[e].suffix \in Suffixes
      BY NaFields DEF DynamicLease, Leased
    <2>1. DynamicOwns(u, h)
      BY <2>0 DEF DynamicOwns
    <2>2. StaticBound(u, h, g)
      BY DEF StaticBound
    <2>3. BindingOwns(u, g)
      BY <1>f DEF BindingOwns
    <2>4. OwnerLeases(u, h)
      <3> SUFFICES ASSUME NEW s \in Suffixes, NEW d \in Duids, u.owners[s] = DynamicDuid(d)
                   PROVE  d # h /\ DynamicLease(u, d) /\ u.leases[d].suffix = s
        BY DEF OwnerLeases
      <3>1. t.owners[s] = DynamicDuid(d) /\ d \notin E
        OBVIOUS
      <3>2. d # h /\ DynamicLease(t, d) /\ t.leases[d].suffix = s
        BY <3>1 DEF OwnerLeases
      <3> QED BY <3>1, <3>2
    <2>5. OwnerBound(u, g)
      BY DEF OwnerBound
    <2>6. OneStatic(u, h)
      BY DEF OneStatic
    <2> QED BY <2>1, <2>2, <2>3, <2>4, <2>5, <2>6
  <1> QED BY <1>1, <1>2, <1>3, <1>4, <1>5, <1>6, <1>8 DEF NaFitsBut

\* A dynamic lease on a suffix nobody owns, for a DUID that has none.
PutsDynamic(t, u, v, m, s) ==
  /\ u.leases = [t.leases EXCEPT ![v] = [suffix |-> s, mac |-> m, static |-> FALSE]]
  /\ u.owners = [t.owners EXCEPT ![s] = DynamicDuid(v)]
  /\ u.statics = t.statics /\ u.slaac \in SUBSET Suffixes
  /\ u = [leases |-> u.leases, owners |-> u.owners, statics |-> u.statics, slaac |-> u.slaac]

\* A lease put on a suffix nobody owns, for a DUID that has none.
LEMMA InsertFits ==
  ASSUME NEW t, NEW u, NEW h, NEW g, NaFitsBut(t, h, g),
         NEW v \in Duids, v # h, ~Leased(t, v), NEW m \in ClientMacs \cup {NoMac6},
         NEW s \in Suffixes, t.owners[s] = Nobody, PutsDynamic(t, u, v, m, s)
  PROVE  /\ NaFitsBut(u, h, g) /\ u.statics = t.statics
         /\ \A e \in Duids : e # v => u.leases[e] = t.leases[e]
         /\ \A x \in Suffixes : x # s => u.owners[x] = t.owners[x]
  <1>t. /\ t \in NaTables /\ OwnersKnown(t) /\ AgreeBut(t, h, g)
    BY DEF NaFitsBut
  <1>f. /\ t.leases \in [Duids -> NaLeases] /\ t.owners \in [Suffixes -> NaOwners]
        /\ t.statics \in [ClientMacs -> Suffixes \cup {0}] /\ t.slaac \in SUBSET Suffixes
    BY <1>t, NaFields
  <1>1. PICK l : l = [suffix |-> s, mac |-> m, static |-> FALSE]
    OBVIOUS
  <1>2. l \in NaLeases /\ l.suffix = s /\ l.mac = m /\ l.static = FALSE
    BY <1>1, NaRecords
  <1>3. /\ u.leases \in [Duids -> NaLeases] /\ u.leases[v] = l
        /\ \A e \in Duids : e # v => u.leases[e] = t.leases[e]
    BY <1>1, <1>2, <1>f DEF PutsDynamic
  <1>4. /\ u.owners \in [Suffixes -> NaOwners] /\ u.owners[s] = DynamicDuid(v)
        /\ \A x \in Suffixes : x # s => u.owners[x] = t.owners[x]
    BY <1>f, NaOwnersApart DEF PutsDynamic
  <1>5. u \in NaTables
    <2>1. /\ u.statics \in [ClientMacs -> Suffixes \cup {0}] /\ u.slaac \in SUBSET Suffixes
          /\ u = [leases |-> u.leases, owners |-> u.owners, statics |-> u.statics, slaac |-> u.slaac]
      BY <1>f DEF PutsDynamic
    <2> QED BY <2>1, <1>3, <1>4, NaMade
  <1>6. OwnersKnown(u)
    BY <1>t, <1>4 DEF OwnersKnown
  <1>7. /\ \A e \in Duids : e # v => (DynamicLease(u, e) <=> DynamicLease(t, e)) /\ (StaticLease(u, e) <=> StaticLease(t, e))
        /\ DynamicLease(u, v) /\ ~StaticLease(u, v)
    BY <1>2, <1>3, NaRecords DEF DynamicLease, StaticLease, Leased
  <1>8. ~DynamicLease(t, v) /\ ~StaticLease(t, v)
    BY DEF DynamicLease, StaticLease
  <1>9. AgreeBut(u, h, g)
    <2> USE <1>t, <1>2, <1>3, <1>4, <1>7, <1>8, NaOwnersApart, NaRecords DEF AgreeBut
    <2>0. /\ \A e \in Duids : DynamicLease(t, e) => t.leases[e].suffix \in Suffixes
          /\ u.statics = t.statics
      BY NaFields DEF DynamicLease, Leased, PutsDynamic
    <2>1. DynamicOwns(u, h)
      BY <2>0 DEF DynamicOwns
    <2>2. StaticBound(u, h, g)
      BY <2>0 DEF StaticBound
    <2>3. BindingOwns(u, g)
      BY <2>0, <1>f DEF BindingOwns
    <2>4. OwnerLeases(u, h)
      BY DEF OwnerLeases
    <2>5. OwnerBound(u, g)
      BY <2>0 DEF OwnerBound
    <2>6. OneStatic(u, h)
      BY DEF OneStatic
    <2> QED BY <2>1, <2>2, <2>3, <2>4, <2>5, <2>6
  <1> QED BY <1>3, <1>4, <1>5, <1>6, <1>9 DEF NaFitsBut, PutsDynamic

\* What allocate_dynamic_na_suffix leaves behind: at most the new lease and fewer old ones, never
\* on the suffix it was told to avoid.
Allocated6(t, u, v, x) ==
  /\ u.statics = t.statics
  /\ \A e \in Duids : e # v => u.leases[e] \in {t.leases[e], NoNaLease}
  /\ x \in Suffixes /\ t.owners[x] = Nobody => u.owners[x] = Nobody

\* allocate_dynamic_na_suffix
LEMMA AllocateFits ==
  ASSUME NEW t, NEW h, NEW g, NaFitsBut(t, h, g), NEW v \in Duids, v # h, ~Leased(t, v),
         NEW m \in ClientMacs \cup {NoMac6}, NEW x, NEW E \in SUBSET Duids, NEW u \in Allocate(t, v, m, x, E)
  PROVE  NaFitsBut(u, h, g) /\ Allocated6(t, u, v, x)
  <1>1. PICK c : c = clean_expired_na(t, E)
    OBVIOUS
  <1>2. /\ NaFitsBut(c, h, g) /\ c.statics = t.statics
        /\ \A e \in Duids : c.leases[e] \in {t.leases[e], NoNaLease}
        /\ \A s \in Suffixes : t.owners[s] = Nobody => c.owners[s] = Nobody
    BY <1>1, CleanFits
  <1>3. ~Leased(c, v)
    BY <1>2, NaRecords DEF Leased
  <1>4. ASSUME NEW b, NaFitsBut(b, h, g), ~Leased(b, v), NEW s \in FreeSuffixes(b, x), u = insert_dynamic_na_lease(b, v, m, s)
        PROVE  /\ NaFitsBut(u, h, g) /\ u.statics = b.statics
               /\ \A e \in Duids : e # v => u.leases[e] = b.leases[e]
               /\ x \in Suffixes /\ b.owners[x] = Nobody => u.owners[x] = Nobody
    <2>1. s \in Suffixes /\ b.owners[s] = Nobody /\ s # x
      BY NaRecords DEF FreeSuffixes
    <2>2. b.slaac \in SUBSET Suffixes
      BY <1>4, NaFields DEF NaFitsBut
    <2>3. PutsDynamic(b, u, v, m, s)
      BY <1>4, <2>2 DEF insert_dynamic_na_lease, PutsDynamic
    <2>4. /\ NaFitsBut(u, h, g) /\ u.statics = b.statics
          /\ \A e \in Duids : e # v => u.leases[e] = b.leases[e]
          /\ \A z \in Suffixes : z # s => u.owners[z] = b.owners[z]
      <3>1. NaFitsBut(b, h, g) /\ ~Leased(b, v)
        BY <1>4
      <3> QED BY <3>1, <2>1, <2>3, InsertFits
    <2> QED BY <2>1, <2>4
  <1>5. \/ \E s \in FreeSuffixes(t, x) : u = insert_dynamic_na_lease(t, v, m, s)
        \/ \E s \in FreeSuffixes(c, x) : u = insert_dynamic_na_lease(c, v, m, s)
        \/ u = c
    BY <1>1 DEF Allocate
  <1>6. CASE u = c
    BY <1>2, <1>6 DEF Allocated6
  <1>7. CASE \E s \in FreeSuffixes(t, x) : u = insert_dynamic_na_lease(t, v, m, s)
    <2>1. /\ NaFitsBut(u, h, g) /\ u.statics = t.statics
          /\ \A e \in Duids : e # v => u.leases[e] = t.leases[e]
          /\ x \in Suffixes /\ t.owners[x] = Nobody => u.owners[x] = Nobody
      BY <1>4, <1>7
    <2> QED BY <2>1 DEF Allocated6
  <1>8. CASE \E s \in FreeSuffixes(c, x) : u = insert_dynamic_na_lease(c, v, m, s)
    <2>1. /\ NaFitsBut(u, h, g) /\ u.statics = c.statics
          /\ \A e \in Duids : e # v => u.leases[e] = c.leases[e]
          /\ x \in Suffixes /\ c.owners[x] = Nobody => u.owners[x] = Nobody
      BY <1>2, <1>3, <1>4, <1>8
    <2> QED BY <1>2, <2>1 DEF Allocated6
  <1> QED BY <1>5, <1>6, <1>7, <1>8

\* insert_static_na_lease: the MAC's other static lease goes, the DUID's dynamic one is replaced.
LEMMA InsertStaticFits ==
  ASSUME NEW t, NaFits(t), NEW d \in Duids, NEW m \in ClientMacs, t.statics[m] # 0
  PROVE  NaFits(insert_static_na_lease(t, d, m)) /\ insert_static_na_lease(t, d, m).statics = t.statics
  <1>t. /\ t \in NaTables /\ OwnersKnown(t) /\ AgreeBut(t, NoDuid, NoMac6)
    BY DEF NaFits, NaFitsBut
  <1>f. /\ t.leases \in [Duids -> NaLeases] /\ t.owners \in [Suffixes -> NaOwners]
        /\ t.statics \in [ClientMacs -> Suffixes \cup {0}] /\ t.slaac \in SUBSET Suffixes
    BY <1>t, NaFields
  <1>1. PICK s \in Suffixes : s = t.statics[m]
    BY <1>f
  <1>2. PICK l : l = [suffix |-> s, mac |-> m, static |-> TRUE]
    OBVIOUS
  <1>3. l \in NaLeases /\ l.suffix = s /\ l.mac = m /\ l.static = TRUE
    BY <1>2, NaRecords
  <1>4. PICK u : u = insert_static_na_lease(t, d, m)
    OBVIOUS
  <1>5. /\ u.leases = [x \in Duids |-> IF x = d THEN l ELSE IF x \in StaticDuids(t, m) THEN NoNaLease ELSE t.leases[x]]
        /\ u.owners = [WithoutOwner(t.owners, t.leases[d].suffix, d) EXCEPT ![s] = StaticMac(m)]
        /\ u.statics = t.statics /\ u.slaac = t.slaac \ {s}
        /\ u = [leases |-> u.leases, owners |-> u.owners, statics |-> u.statics, slaac |-> u.slaac]
    BY <1>1, <1>2, <1>4 DEF insert_static_na_lease
  <1>6. /\ u.leases \in [Duids -> NaLeases] /\ u.leases[d] = l
        /\ \A e \in Duids : e # d => u.leases[e] = IF StaticLease(t, e) /\ t.leases[e].mac = m THEN NoNaLease ELSE t.leases[e]
    <2>1. \A e \in Duids : e \in StaticDuids(t, m) <=> StaticLease(t, e) /\ t.leases[e].mac = m
      BY DEF StaticDuids, StaticLease
    <2> QED BY <1>3, <1>5, <1>f, <2>1, NaRecords
  <1>7. /\ u.owners \in [Suffixes -> NaOwners]
        /\ \A x \in Suffixes : u.owners[x] = IF t.owners[x] = DynamicDuid(d) THEN Nobody ELSE t.owners[x]
    <2>1. \A x \in Suffixes : t.owners[x] = DynamicDuid(d) => x = t.leases[d].suffix
      BY <1>t DEF AgreeBut, OwnerLeases
    <2>2. t.owners[s] = StaticMac(m)
      BY <1>t, <1>1, NaRecords DEF AgreeBut, BindingOwns
    <2>3. PICK o : o = WithoutOwner(t.owners, t.leases[d].suffix, d)
      OBVIOUS
    <2>4. /\ o \in [Suffixes -> NaOwners]
          /\ \A x \in Suffixes : o[x] = IF t.owners[x] = DynamicDuid(d) THEN Nobody ELSE t.owners[x]
      BY <2>1, <2>3, <1>f, NaOwnersApart DEF WithoutOwner
    <2>5. o[s] = StaticMac(m)
      BY <2>2, <2>4, NaOwnersApart
    <2>6. u.owners = o
      BY <1>5, <2>3, <2>4, <2>5
    <2> QED BY <2>4, <2>6
  <1>8. u \in NaTables
    <2>1. u.statics \in [ClientMacs -> Suffixes \cup {0}] /\ u.slaac \in SUBSET Suffixes
      BY <1>5, <1>f
    <2> QED BY <2>1, <1>5, <1>6, <1>7, NaMade
  <1>9. OwnersKnown(u)
    BY <1>t, <1>7 DEF OwnersKnown
  <1>10. /\ \A e \in Duids : DynamicLease(u, e) <=> e # d /\ DynamicLease(t, e)
         /\ \A e \in Duids : e # d => (StaticLease(u, e) <=> StaticLease(t, e) /\ t.leases[e].mac # m)
         /\ \A e \in Duids : e # d /\ (DynamicLease(u, e) \/ StaticLease(u, e)) => u.leases[e] = t.leases[e]
    BY <1>3, <1>6, NaRecords DEF DynamicLease, StaticLease, Leased
  <1>11. AgreeBut(u, NoDuid, NoMac6)
    <2> USE <1>t, <1>7, <1>10, NaOwnersApart, NaRecords DEF AgreeBut
    <2>0. /\ \A e \in Duids : DynamicLease(t, e) => t.leases[e].suffix \in Suffixes
          /\ u.statics = t.statics
      BY <1>5, NaFields DEF DynamicLease, Leased
    <2>1. DynamicOwns(u, NoDuid)
      BY <2>0 DEF DynamicOwns
    <2>2. StaticBound(u, NoDuid, NoMac6)
      BY <2>0, <1>1, <1>3, <1>6 DEF StaticBound
    <2>3. BindingOwns(u, NoMac6)
      BY <2>0, <1>f DEF BindingOwns
    <2>4. OwnerLeases(u, NoDuid)
      BY DEF OwnerLeases
    <2>5. OwnerBound(u, NoMac6)
      BY <2>0 DEF OwnerBound
    <2>6. OneStatic(u, NoDuid)
      BY <1>3, <1>6 DEF OneStatic
    <2> QED BY <2>1, <2>2, <2>3, <2>4, <2>5, <2>6
  <1> QED BY <1>4, <1>5, <1>8, <1>9, <1>11 DEF NaFits, NaFitsBut

\* offer_na
LEMMA OfferNaFits ==
  ASSUME NEW t, NaFits(t), NEW d \in Duids, NEW m \in ClientMacs, NEW E \in SUBSET Duids, NEW u \in offer_na(t, d, m, E)
  PROVE  NaFits(u) /\ u.statics = t.statics
  <1>1. CASE t.statics[m] # 0
    BY <1>1, InsertStaticFits DEF offer_na
  <1>2. CASE t.statics[m] = 0 /\ Leased(t, d)
    BY <1>2 DEF offer_na
  <1>3. CASE t.statics[m] = 0 /\ ~Leased(t, d)
    <2>1. u \in Allocate(t, d, m, 0, E)
      BY <1>3 DEF offer_na
    <2>2. d # NoDuid /\ m \in ClientMacs \cup {NoMac6} /\ NaFitsBut(t, NoDuid, NoMac6)
      BY NaRecords DEF NaFits
    <2>3. NaFitsBut(u, NoDuid, NoMac6) /\ Allocated6(t, u, d, 0)
      BY <2>1, <2>2, <1>3, AllocateFits
    <2> QED BY <2>3 DEF NaFits, Allocated6
  <1> QED BY <1>1, <1>2, <1>3

\* Ipv6ServerStatus::new for a store in which no two devices have one suffix.
DistinctSuffixes(f) == \A m, n \in ClientMacs : m # n /\ f[m] = f[n] => f[m] = 0

\* It has the bindings of the store.
LEMMA NewStatusFits ==
  ASSUME NEW f \in [ClientMacs -> Suffixes \cup {0}], DistinctSuffixes(f)
  PROVE  NaFits(NewStatus(f)) /\ NewStatus(f).statics = f
  <1>1. PICK u : u = NewStatus(f)
    OBVIOUS
  <1>2. /\ u.leases = [d \in Duids |-> NoNaLease] /\ u.statics = f /\ u.slaac = {}
        /\ u.owners = [s \in Suffixes |-> IF \E m \in ClientMacs : f[m] = s
                          THEN StaticMac(CHOOSE m \in ClientMacs : f[m] = s) ELSE Nobody]
        /\ u = [leases |-> u.leases, owners |-> u.owners, statics |-> u.statics, slaac |-> u.slaac]
    BY <1>1 DEF NewStatus
  <1>3. /\ u.owners \in [Suffixes -> NaOwners]
        /\ \A s \in Suffixes, m \in ClientMacs : f[m] = s => u.owners[s] = StaticMac(m)
        /\ \A s \in Suffixes : (\A m \in ClientMacs : f[m] # s) => u.owners[s] = Nobody
    <2>1. ASSUME NEW s \in Suffixes, NEW m \in ClientMacs, f[m] = s PROVE u.owners[s] = StaticMac(m)
      <3>1. PICK n : n = CHOOSE x \in ClientMacs : f[x] = s
        OBVIOUS
      <3>2. n \in ClientMacs /\ f[n] = s
        BY <2>1, <3>1
      <3>3. n = m
        BY <2>1, <3>2, NaRecords DEF DistinctSuffixes
      <3>4. u.owners[s] = StaticMac(CHOOSE x \in ClientMacs : f[x] = s)
        BY <2>1, <1>2
      <3> QED BY <3>1, <3>3, <3>4
    <2>2. ASSUME NEW s \in Suffixes, \A m \in ClientMacs : f[m] # s PROVE u.owners[s] = Nobody
      BY <2>2, <1>2
    <2>3. \A s \in Suffixes : u.owners[s] \in NaOwners
      BY <2>1, <2>2, NaOwnersApart
    <2>4. u.owners = [s \in Suffixes |-> u.owners[s]]
      BY <1>2
    <2>5. u.owners \in [Suffixes -> NaOwners]
      BY <2>3, <2>4
    <2> QED BY <2>1, <2>2, <2>5
  <1>4. u \in NaTables
    <2>1. u.leases \in [Duids -> NaLeases] /\ u.statics \in [ClientMacs -> Suffixes \cup {0}] /\ u.slaac \in SUBSET Suffixes
      BY <1>2, NaRecords
    <2> QED BY <2>1, <1>2, <1>3, NaMade
  <1>5. OwnersKnown(u)
    <2> SUFFICES ASSUME NEW s \in Suffixes
                 PROVE  u.owners[s] = Nobody \/ \E m \in ClientMacs : u.owners[s] = StaticMac(m)
      BY DEF OwnersKnown
    <2> QED BY <1>3
  <1>6. \A d \in Duids : ~DynamicLease(u, d) /\ ~StaticLease(u, d)
    BY <1>2, NaRecords DEF DynamicLease, StaticLease, Leased
  <1>7. \A s \in Suffixes, d \in Duids : u.owners[s] # DynamicDuid(d)
    BY <1>3, NaOwnersApart
  <1>8. OwnerBound(u, NoMac6)
    <2> SUFFICES ASSUME NEW s \in Suffixes, NEW m \in ClientMacs, u.owners[s] = StaticMac(m)
                 PROVE  m # NoMac6 /\ u.statics[m] = s
      BY DEF OwnerBound
    <2>1. PICK n \in ClientMacs : f[n] = s
      BY <1>3, NaOwnersApart
    <2>2. n = m
      BY <2>1, <1>3, NaOwnersApart
    <2> QED BY <2>1, <2>2, <1>2, NaRecords
  <1>9. BindingOwns(u, NoMac6)
    BY <1>2, <1>3 DEF BindingOwns
  <1>10. AgreeBut(u, NoDuid, NoMac6)
    BY <1>6, <1>7, <1>8, <1>9 DEF AgreeBut, DynamicOwns, StaticBound, OwnerLeases, OneStatic
  <1> QED BY <1>1, <1>2, <1>4, <1>5, <1>10 DEF NaFits, NaFitsBut

(***************************************************************************)
(* LanIpv6Leases: bindings of devices.                                     *)
(***************************************************************************)
\* remove_mac_binding, first half: apart from the static lease of the MAC, if it has one, all is
\* in order.
LEMMA UnboundFits ==
  ASSUME NEW t, NaFits(t), NEW m \in ClientMacs, NEW h, 
         \A d \in Duids : StaticLease(t, d) /\ t.leases[d].mac = m => d = h,
         h \in Duids => StaticLease(t, h)
  PROVE  NaFitsBut(Unbound(t, m), h, NoMac6)
  <1>t. /\ t \in NaTables /\ OwnersKnown(t) /\ AgreeBut(t, NoDuid, NoMac6)
    BY DEF NaFits, NaFitsBut
  <1>f. /\ t.leases \in [Duids -> NaLeases] /\ t.owners \in [Suffixes -> NaOwners]
        /\ t.statics \in [ClientMacs -> Suffixes \cup {0}] /\ t.slaac \in SUBSET Suffixes
    BY <1>t, NaFields
  <1>1. PICK u : u = Unbound(t, m)
    OBVIOUS
  <1>2. /\ u.leases = t.leases /\ u.slaac = t.slaac /\ u.statics = [t.statics EXCEPT ![m] = 0]
        /\ u.owners = [x \in Suffixes |-> IF x = t.statics[m] /\ t.owners[x] = StaticMac(m) THEN Nobody ELSE t.owners[x]]
        /\ u = [leases |-> u.leases, owners |-> u.owners, statics |-> u.statics, slaac |-> u.slaac]
    BY <1>1 DEF Unbound
  <1>3. /\ u.statics \in [ClientMacs -> Suffixes \cup {0}] /\ u.statics[m] = 0
        /\ \A n \in ClientMacs : n # m => u.statics[n] = t.statics[n]
    BY <1>2, <1>f
  <1>4. /\ u.owners \in [Suffixes -> NaOwners]
        /\ \A x \in Suffixes : u.owners[x] = IF t.owners[x] = StaticMac(m) THEN Nobody ELSE t.owners[x]
    <2>1. \A x \in Suffixes : t.owners[x] = StaticMac(m) => x = t.statics[m]
      BY <1>t DEF AgreeBut, OwnerBound
    <2> QED BY <2>1, <1>2, <1>f, NaOwnersApart
  <1>5. u \in NaTables
    <2>1. u.leases \in [Duids -> NaLeases] /\ u.slaac \in SUBSET Suffixes
      BY <1>2, <1>f
    <2> QED BY <2>1, <1>2, <1>3, <1>4, NaMade
  <1>6. OwnersKnown(u)
    BY <1>t, <1>4 DEF OwnersKnown
  <1>7. \A e \in Duids : (DynamicLease(u, e) <=> DynamicLease(t, e)) /\ (StaticLease(u, e) <=> StaticLease(t, e))
    BY <1>2 DEF DynamicLease, StaticLease, Leased
  <1>8. AgreeBut(u, h, NoMac6)
    <2> USE <1>t, <1>3, <1>4, <1>7, NaOwnersApart, NaRecords DEF AgreeBut
    <2>0. /\ \A e \in Duids : DynamicLease(t, e) => t.leases[e].suffix \in Suffixes
          /\ u.leases = t.leases
          /\ \A e \in Duids : ~(DynamicLease(t, e) /\ StaticLease(t, e))
      BY <1>2, NaFields DEF DynamicLease, StaticLease, Leased
    <2>1. DynamicOwns(u, h)
      BY <2>0 DEF DynamicOwns
    <2>2. StaticBound(u, h, NoMac6)
      BY <2>0 DEF StaticBound
    <2>3. BindingOwns(u, NoMac6)
      BY <1>f DEF BindingOwns
    <2>4. OwnerLeases(u, h)
      BY <2>0 DEF OwnerLeases
    <2>5. OwnerBound(u, NoMac6)
      BY DEF OwnerBound
    <2>6. OneStatic(u, h)
      BY <2>0 DEF OneStatic
    <2> QED BY <2>1, <2>2, <2>3, <2>4, <2>5, <2>6
  <1> QED BY <1>1, <1>5, <1>6, <1>8 DEF NaFitsBut

\* A DUID whose lease is out of order loses it.
LEMMA DroppedFits ==
  ASSUME NEW t, NEW h \in Duids, NaFitsBut(t, h, NoMac6)
  PROVE  NaFits(Dropped(t, h)) /\ ~Leased(Dropped(t, h), h)
  <1>t. /\ t \in NaTables /\ OwnersKnown(t) /\ AgreeBut(t, h, NoMac6)
    BY DEF NaFitsBut
  <1>f. /\ t.leases \in [Duids -> NaLeases] /\ t.owners \in [Suffixes -> NaOwners]
        /\ t.statics \in [ClientMacs -> Suffixes \cup {0}] /\ t.slaac \in SUBSET Suffixes
    BY <1>t, NaFields
  <1>1. PICK u : u = Dropped(t, h)
    OBVIOUS
  <1>2. /\ u.leases = [t.leases EXCEPT ![h] = NoNaLease] /\ u.owners = t.owners
        /\ u.statics = t.statics /\ u.slaac = t.slaac
        /\ u = [leases |-> u.leases, owners |-> u.owners, statics |-> u.statics, slaac |-> u.slaac]
    BY <1>1 DEF Dropped
  <1>3. /\ u.leases \in [Duids -> NaLeases] /\ u.leases[h] = NoNaLease
        /\ \A e \in Duids : e # h => u.leases[e] = t.leases[e]
    BY <1>2, <1>f, NaRecords
  <1>4. u \in NaTables
    <2>1. /\ u.owners \in [Suffixes -> NaOwners] /\ u.statics \in [ClientMacs -> Suffixes \cup {0}]
          /\ u.slaac \in SUBSET Suffixes
      BY <1>2, <1>f
    <2> QED BY <2>1, <1>2, <1>3, NaMade
  <1>5. OwnersKnown(u)
    BY <1>t, <1>2 DEF OwnersKnown
  <1>6. \A e \in Duids : (DynamicLease(u, e) <=> e # h /\ DynamicLease(t, e)) /\ (StaticLease(u, e) <=> e # h /\ StaticLease(t, e))
    BY <1>3, NaRecords DEF DynamicLease, StaticLease, Leased
  <1>7. AgreeBut(u, NoDuid, NoMac6)
    <2> USE <1>t, <1>2, <1>3, <1>6, NaRecords DEF AgreeBut
    <2>1. DynamicOwns(u, NoDuid)
      BY DEF DynamicOwns
    <2>2. StaticBound(u, NoDuid, NoMac6)
      BY DEF StaticBound
    <2>3. BindingOwns(u, NoMac6)
      BY DEF BindingOwns
    <2>4. OwnerLeases(u, NoDuid)
      BY DEF OwnerLeases
    <2>5. OwnerBound(u, NoMac6)
      BY DEF OwnerBound
    <2>6. OneStatic(u, NoDuid)
      BY DEF OneStatic
    <2> QED BY <2>1, <2>2, <2>3, <2>4, <2>5, <2>6
  <1>8. ~Leased(u, h)
    BY <1>3, NaRecords DEF Leased
  <1> QED BY <1>1, <1>4, <1>5, <1>7, <1>8 DEF NaFits, NaFitsBut

\* remove_mac_binding: the binding is gone, the others are what they were.
LEMMA RemoveBindingFits ==
  ASSUME NEW t, NaFits(t), NEW m \in ClientMacs, NEW E \in SUBSET Duids, NEW u \in remove_mac_binding(t, m, E)
  PROVE  NaFits(u) /\ u.statics = [t.statics EXCEPT ![m] = 0]
  <1>t. t \in NaTables /\ AgreeBut(t, NoDuid, NoMac6)
    BY DEF NaFits, NaFitsBut
  <1>f. /\ t.leases \in [Duids -> NaLeases] /\ t.statics \in [ClientMacs -> Suffixes \cup {0}]
        /\ \A d \in Duids : t.leases[d].mac \in ClientMacs \cup {NoMac6}
    BY <1>t, NaFields
  <1>1. CASE t.statics[m] = 0
    <2>1. u = t
      BY <1>1 DEF remove_mac_binding
    <2>2. t.statics = [t.statics EXCEPT ![m] = 0]
      BY <1>1, <1>f
    <2> QED BY <2>1, <2>2
  <1>2. CASE t.statics[m] # 0
    <2>b. PICK b : b = Unbound(t, m)
      OBVIOUS
    <2>s. b.statics = [t.statics EXCEPT ![m] = 0] /\ b.leases = t.leases
      BY <2>b DEF Unbound
    <2>1. CASE StaticDuids(t, m) = {}
      <3>1. u = b
        BY <1>2, <2>1, <2>b DEF remove_mac_binding
      <3>2. \A d \in Duids : StaticLease(t, d) /\ t.leases[d].mac = m => d = NoDuid
        BY <2>1 DEF StaticDuids, StaticLease
      <3>3. NaFitsBut(b, NoDuid, NoMac6)
        BY <2>b, <3>2, NaRecords, UnboundFits
      <3> QED BY <3>1, <3>3, <2>s DEF NaFits
    <2>2. CASE StaticDuids(t, m) # {}
      <3>1. PICK d \in StaticDuids(t, m) :
              u \in LET mac == t.leases[d].mac IN
                    IF t.statics[m] \in Pool6 /\ b.owners[t.statics[m]] = Nobody
                    THEN {[ leases  |-> [b.leases EXCEPT ![d] = [suffix |-> t.statics[m], mac |-> mac, static |-> FALSE]],
                            owners  |-> [b.owners EXCEPT ![t.statics[m]] = DynamicDuid(d)],
                            statics |-> b.statics, slaac |-> b.slaac ]}
                    ELSE Allocate(Dropped(b, d), d, mac, 0, E)
        BY <1>2, <2>2, <2>b DEF remove_mac_binding
      <3>2. d \in Duids /\ StaticLease(t, d) /\ t.leases[d].mac = m /\ d # NoDuid
        BY NaRecords DEF StaticDuids, StaticLease
      <3>3. \A e \in Duids : StaticLease(t, e) /\ t.leases[e].mac = m => e = d
        BY <1>t, <3>2, NaRecords DEF AgreeBut, OneStatic
      <3>4. NaFitsBut(b, d, NoMac6)
        BY <2>b, <3>2, <3>3, UnboundFits
      <3>5. PICK c : c = Dropped(b, d)
        OBVIOUS
      <3>6. NaFitsBut(c, NoDuid, NoMac6) /\ ~Leased(c, d)
        BY <3>2, <3>4, <3>5, DroppedFits DEF NaFits
      <3>7. /\ c.leases = [b.leases EXCEPT ![d] = NoNaLease] /\ c.owners = b.owners
            /\ c.statics = b.statics /\ c.slaac = b.slaac
        BY <3>5 DEF Dropped
      <3>8. m \in ClientMacs \cup {NoMac6}
        OBVIOUS
      <3>9. CASE t.statics[m] \in Pool6 /\ b.owners[t.statics[m]] = Nobody
        <4>1. PICK s \in Suffixes : s = t.statics[m]
          BY <3>9, NaRecords
        <4>2. u = [ leases  |-> [b.leases EXCEPT ![d] = [suffix |-> s, mac |-> m, static |-> FALSE]],
                    owners  |-> [b.owners EXCEPT ![s] = DynamicDuid(d)],
                    statics |-> b.statics, slaac |-> b.slaac ]
          BY <3>1, <3>2, <3>9, <4>1
        <4>3. [c.leases EXCEPT ![d] = [suffix |-> s, mac |-> m, static |-> FALSE]]
                 = [b.leases EXCEPT ![d] = [suffix |-> s, mac |-> m, static |-> FALSE]]
          BY <3>2, <3>7, <2>s, <1>f
        <4>4. b.slaac \in SUBSET Suffixes
          BY <3>4, NaFields DEF NaFitsBut
        <4>5. PutsDynamic(c, u, d, m, s)
          BY <3>7, <4>2, <4>3, <4>4 DEF PutsDynamic
        <4>6. c.owners[s] = Nobody
          BY <3>7, <3>9, <4>1
        <4>7. NaFitsBut(u, NoDuid, NoMac6) /\ u.statics = c.statics
          BY <3>2, <3>6, <3>8, <4>5, <4>6, InsertFits
        <4> QED BY <4>7, <3>7, <2>s DEF NaFits
      <3>10. CASE ~(t.statics[m] \in Pool6 /\ b.owners[t.statics[m]] = Nobody)
        <4>1. u \in Allocate(c, d, m, 0, E)
          BY <3>1, <3>2, <3>5, <3>10
        <4>2. NaFitsBut(u, NoDuid, NoMac6) /\ Allocated6(c, u, d, 0)
          BY <4>1, <3>2, <3>6, <3>8, AllocateFits
        <4> QED BY <4>2, <3>7, <2>s DEF NaFits, Allocated6
      <3> QED BY <3>9, <3>10
    <2> QED BY <2>1, <2>2
  <1> QED BY <1>1, <1>2

\* The MAC's static lease, if there is one, is that of DUID d.
OwnDuid(t, m, d) == \A e \in Duids : StaticLease(t, e) /\ t.leases[e].mac = m => e = d

\* What a suffix may be bound over: nobody has it, or a dynamic lease.
Bindable(t, m, s) == ~AlreadyBound(t, m, s) /\ ~StaticConflict(t, m, s)

\* What is bindable is free or a DUID's, and not yet the MAC's.
LEMMA BindableFree ==
  ASSUME NEW t, NaFits(t), NEW m \in ClientMacs, NEW s \in Suffixes, Bindable(t, m, s)
  PROVE  /\ t.statics[m] # s
         /\ t.owners[s] = Nobody \/ \E e \in Duids : t.owners[s] = DynamicDuid(e)
         /\ \A n : t.owners[s] # StaticMac(n)
  <1>t. t \in NaTables /\ OwnersKnown(t) /\ AgreeBut(t, NoDuid, NoMac6)
    BY DEF NaFits, NaFitsBut
  <1>1. t.statics[m] # s
    <2>1. t.statics[m] = s => t.owners[s] = StaticMac(m)
      BY <1>t, NaRecords DEF AgreeBut, BindingOwns
    <2> QED BY <2>1 DEF Bindable, AlreadyBound
  <1>2. \A n \in ClientMacs : t.owners[s] # StaticMac(n)
    <2> SUFFICES ASSUME NEW n \in ClientMacs, t.owners[s] = StaticMac(n) PROVE FALSE
      OBVIOUS
    <2>1. t.statics[n] = s
      BY <1>t DEF AgreeBut, OwnerBound
    <2>2. n # m
      BY <2>1, <1>1
    <2> QED BY <2>2, NaOwnersApart DEF Bindable, StaticConflict
  <1>3. t.owners[s] = Nobody \/ \E e \in Duids : t.owners[s] = DynamicDuid(e)
    BY <1>t, <1>2 DEF OwnersKnown
  <1> QED BY <1>1, <1>3, NaOwnersApart

\* The DUID that is turned out is the one that owns the suffix, if that is not the MAC's own.
LEMMA VictimIs ==
  ASSUME NEW t, NaFits(t), NEW m \in ClientMacs, NEW s \in Suffixes, Bindable(t, m, s), NEW d, NEW v, v = Victim(t, s, d)
  PROVE  /\ v \in Duids \cup {NoDuid}
         /\ v \in Duids => v # d /\ t.owners[s] = DynamicDuid(v)
         /\ \A e \in Duids : t.owners[s] = DynamicDuid(e) /\ e # d => v = e
  BY BindableFree, NaOwnersApart, NaRecords DEF Victim

\* First part of bind_mac_suffix: nothing speaks of the MAC and of its DUID, and the suffix is free.
LEMMA BoundFits ==
  ASSUME NEW t, NaFits(t), NEW m \in ClientMacs, NEW s \in Suffixes, Bindable(t, m, s),
         NEW d \in Duids \cup {NoDuid}, OwnDuid(t, m, d), NEW v, v = Victim(t, s, d)
  PROVE  /\ NaFitsBut(Bound(t, m, s, d, v), d, m)
         /\ Bound(t, m, s, d, v).statics = [t.statics EXCEPT ![m] = s]
         /\ Bound(t, m, s, d, v).owners[s] = Nobody
         /\ v \in Duids => ~Leased(Bound(t, m, s, d, v), v)
  <1>t. /\ t \in NaTables /\ OwnersKnown(t) /\ AgreeBut(t, NoDuid, NoMac6)
    BY DEF NaFits, NaFitsBut
  <1>f. /\ t.leases \in [Duids -> NaLeases] /\ t.owners \in [Suffixes -> NaOwners]
        /\ t.statics \in [ClientMacs -> Suffixes \cup {0}] /\ t.slaac \in SUBSET Suffixes
    BY <1>t, NaFields
  <1>v. /\ v \in Duids \cup {NoDuid}
        /\ v \in Duids => v # d /\ t.owners[s] = DynamicDuid(v)
        /\ \A e \in Duids : t.owners[s] = DynamicDuid(e) /\ e # d => v = e
    BY VictimIs
  <1>s. t.statics[m] # s /\ \A n : t.owners[s] # StaticMac(n)
    BY BindableFree
  <1>1. PICK u : u = Bound(t, m, s, d, v)
    OBVIOUS
  <1>2. PICK o : o = [x \in Suffixes |-> IF x = t.statics[m] /\ t.statics[m] # s /\ t.owners[x] = StaticMac(m)
                                         THEN Nobody ELSE t.owners[x]]
    OBVIOUS
  <1>3. PICK p : p = IF d = NoDuid THEN o ELSE WithoutOwner(o, t.leases[d].suffix, d)
    OBVIOUS
  <1>4. /\ u.leases = [x \in Duids |-> IF x = v THEN NoNaLease ELSE t.leases[x]]
        /\ u.owners = [p EXCEPT ![s] = Nobody]
        /\ u.statics = [t.statics EXCEPT ![m] = s] /\ u.slaac = t.slaac
        /\ u = [leases |-> u.leases, owners |-> u.owners, statics |-> u.statics, slaac |-> u.slaac]
    BY <1>1, <1>2, <1>3 DEF Bound
  <1>5. /\ o \in [Suffixes -> NaOwners]
        /\ \A x \in Suffixes : o[x] = IF t.owners[x] = StaticMac(m) THEN Nobody ELSE t.owners[x]
    <2>1. \A x \in Suffixes : t.owners[x] = StaticMac(m) => x = t.statics[m]
      BY <1>t DEF AgreeBut, OwnerBound
    <2> QED BY <2>1, <1>2, <1>s, <1>f, NaOwnersApart
  <1>6. /\ p \in [Suffixes -> NaOwners]
        /\ \A x \in Suffixes : p[x] = IF t.owners[x] = StaticMac(m) \/ (d \in Duids /\ t.owners[x] = DynamicDuid(d))
                                      THEN Nobody ELSE t.owners[x]
    <2>1. CASE d = NoDuid
      BY <2>1, <1>3, <1>5, NaRecords
    <2>2. CASE d \in Duids
      <3>1. \A x \in Suffixes : t.owners[x] = DynamicDuid(d) => x = t.leases[d].suffix
        BY <1>t, <2>2 DEF AgreeBut, OwnerLeases
      <3>2. p = WithoutOwner(o, t.leases[d].suffix, d)
        BY <1>3, <2>2, NaRecords
      <3> QED BY <2>2, <3>1, <3>2, <1>5, NaOwnersApart DEF WithoutOwner
    <2> QED BY <2>1, <2>2
  <1>7. /\ u.owners \in [Suffixes -> NaOwners] /\ u.owners[s] = Nobody
        /\ \A x \in Suffixes : x # s =>
              u.owners[x] = IF t.owners[x] = StaticMac(m) \/ (d \in Duids /\ t.owners[x] = DynamicDuid(d))
                            THEN Nobody ELSE t.owners[x]
    BY <1>4, <1>6, NaOwnersApart
  <1>8. /\ u.leases \in [Duids -> NaLeases]
        /\ \A e \in Duids : u.leases[e] = IF e = v THEN NoNaLease ELSE t.leases[e]
    BY <1>4, <1>f, NaRecords
  <1>9. /\ u.statics \in [ClientMacs -> Suffixes \cup {0}] /\ u.statics[m] = s
        /\ \A n \in ClientMacs : n # m => u.statics[n] = t.statics[n]
    BY <1>4, <1>f
  <1>10. u \in NaTables
    <2>1. u.slaac \in SUBSET Suffixes
      BY <1>4, <1>f
    <2> QED BY <2>1, <1>4, <1>7, <1>8, <1>9, NaMade
  <1>11. OwnersKnown(u)
    BY <1>t, <1>7 DEF OwnersKnown
  <1>12. \A e \in Duids : (DynamicLease(u, e) <=> e # v /\ DynamicLease(t, e)) /\ (StaticLease(u, e) <=> e # v /\ StaticLease(t, e))
    BY <1>8, NaRecords DEF DynamicLease, StaticLease, Leased
  <1>13. AgreeBut(u, d, m)
    <2> USE <1>t, <1>v, <1>12, NaOwnersApart, NaRecords DEF AgreeBut
    <2>0. \A e \in Duids : DynamicLease(t, e) => t.leases[e].suffix \in Suffixes
      BY NaFields DEF DynamicLease, Leased
    <2>1. DynamicOwns(u, d)
      BY <2>0, <1>7, <1>8 DEF DynamicOwns
    <2>2. StaticBound(u, d, m)
      BY <1>8, <1>9 DEF StaticBound, OwnDuid
    <2>3. BindingOwns(u, m)
      <3> SUFFICES ASSUME NEW n \in ClientMacs, n # m, u.statics[n] # 0 PROVE u.owners[u.statics[n]] = StaticMac(n)
        BY DEF BindingOwns
      <3>1. u.statics[n] = t.statics[n] /\ t.statics[n] \in Suffixes /\ t.owners[t.statics[n]] = StaticMac(n)
        BY <1>9, <1>f DEF BindingOwns
      <3> QED BY <3>1, <1>s, <1>7
    <2>4. OwnerLeases(u, d)
      <3> SUFFICES ASSUME NEW x \in Suffixes, NEW e \in Duids, u.owners[x] = DynamicDuid(e)
                   PROVE  e # d /\ DynamicLease(u, e) /\ u.leases[e].suffix = x
        BY DEF OwnerLeases
      <3>1. x # s /\ t.owners[x] = DynamicDuid(e) /\ e # d
        BY <1>7
      <3>2. DynamicLease(t, e) /\ t.leases[e].suffix = x
        BY <3>1 DEF OwnerLeases
      <3>3. e # v
        BY <3>1, <3>2 DEF OwnerLeases
      <3> QED BY <3>1, <3>2, <3>3, <1>8
    <2>5. OwnerBound(u, m)
      BY <1>7, <1>9 DEF OwnerBound
    <2>6. OneStatic(u, d)
      BY <1>8 DEF OneStatic
    <2> QED BY <2>1, <2>2, <2>3, <2>4, <2>5, <2>6
  <1>14. v \in Duids => ~Leased(u, v)
    BY <1>8, NaRecords DEF Leased
  <1> QED BY <1>1, <1>4, <1>7, <1>10, <1>11, <1>13, <1>14 DEF NaFitsBut

\* The turned out client gets another suffix, not the one being bound.
LEMMA RehousedFits ==
  ASSUME NEW t, t \in NaTables, NEW b, NEW m \in ClientMacs, NEW s \in Suffixes, NEW d \in Duids \cup {NoDuid},
         NaFitsBut(b, d, m), b.owners[s] = Nobody, NEW v \in Duids \cup {NoDuid}, v \in Duids => v # d /\ ~Leased(b, v),
         NEW E \in SUBSET Duids, NEW r \in Rehoused(b, t, m, s, v, E)
  PROVE  /\ NaFitsBut(r, d, m) /\ r.statics = b.statics /\ r.owners[s] = Nobody
  <1>1. CASE v = NoDuid
    BY <1>1 DEF Rehoused
  <1>2. CASE v # NoDuid
    <2>1. v \in Duids /\ v # d /\ ~Leased(b, v)
      BY <1>2
    <2>2. PICK n \in ClientMacs \cup {NoMac6} : n = t.leases[v].mac
      BY <2>1, NaFields
    <2>3. CASE t.statics[m] = 0
      <3>1. r \in Allocate(b, v, n, s, E)
        BY <1>2, <2>2, <2>3 DEF Rehoused
      <3>2. NaFitsBut(r, d, m) /\ Allocated6(b, r, v, s)
        BY <2>1, <3>1, AllocateFits
      <3> QED BY <3>2 DEF Allocated6
    <2>4. CASE t.statics[m] # 0 /\ t.statics[m] # s /\ t.statics[m] \in Pool6 /\ b.owners[t.statics[m]] = Nobody
      <3>1. PICK x \in Suffixes : x = t.statics[m]
        BY <2>4, NaRecords
      <3>2. r = [ leases  |-> [b.leases EXCEPT ![v] = [suffix |-> x, mac |-> n, static |-> FALSE]],
                  owners  |-> [b.owners EXCEPT ![x] = DynamicDuid(v)],
                  statics |-> b.statics, slaac |-> b.slaac ]
        BY <1>2, <2>2, <2>4, <3>1 DEF Rehoused
      <3>3. b.slaac \in SUBSET Suffixes
        BY NaFields DEF NaFitsBut
      <3>4. PutsDynamic(b, r, v, n, x)
        BY <3>2, <3>3 DEF PutsDynamic
      <3>5. b.owners[x] = Nobody /\ x # s
        BY <2>4, <3>1
      <3>6. /\ NaFitsBut(r, d, m) /\ r.statics = b.statics
            /\ \A z \in Suffixes : z # x => r.owners[z] = b.owners[z]
        <4>1. NaFitsBut(b, d, m) /\ ~Leased(b, v) /\ v # d /\ v \in Duids
          BY <2>1
        <4>2. n \in ClientMacs \cup {NoMac6} /\ x \in Suffixes
          OBVIOUS
        <4>3. NaFitsBut(r, d, m)
          BY ONLY <4>1, <4>2, <3>4, <3>5, InsertFits
        <4>4. b.owners \in [Suffixes -> NaOwners]
          BY <4>1, NaFields DEF NaFitsBut
        <4>5. \A z \in Suffixes : z # x => r.owners[z] = b.owners[z]
          BY <4>4, <3>4 DEF PutsDynamic
        <4> QED BY <4>3, <4>5, <3>4 DEF PutsDynamic
      <3> QED BY <3>5, <3>6
    <2>5. CASE ~(t.statics[m] = 0) /\ ~(t.statics[m] # s /\ t.statics[m] \in Pool6 /\ b.owners[t.statics[m]] = Nobody)
      <3>1. r = b
        BY <1>2, <2>5 DEF Rehoused
      <3> QED BY <3>1
    <2> QED BY <2>3, <2>4, <2>5
  <1> QED BY <1>1, <1>2

\* The binding takes its suffix, and the MAC's own lease moves there.
LEMMA SettledFits ==
  ASSUME NEW r, NEW m \in ClientMacs, NEW s \in Suffixes, NEW d \in Duids \cup {NoDuid},
         NaFitsBut(r, d, m), r.statics[m] = s, r.owners[s] = Nobody
  PROVE  NaFits(Settled(r, m, s, d)) /\ Settled(r, m, s, d).statics = r.statics
  <1>t. /\ r \in NaTables /\ OwnersKnown(r) /\ AgreeBut(r, d, m)
    BY DEF NaFitsBut
  <1>f. /\ r.leases \in [Duids -> NaLeases] /\ r.owners \in [Suffixes -> NaOwners]
        /\ r.statics \in [ClientMacs -> Suffixes \cup {0}] /\ r.slaac \in SUBSET Suffixes
    BY <1>t, NaFields
  <1>1. PICK u : u = Settled(r, m, s, d)
    OBVIOUS
  <1>l. PICK l : l = [suffix |-> s, mac |-> m, static |-> TRUE]
    OBVIOUS
  <1>m. l \in NaLeases /\ l.suffix = s /\ l.mac = m /\ l.static = TRUE
    BY <1>l, NaRecords
  <1>2. /\ u.leases = IF d # NoDuid /\ r.leases[d].suffix # 0 THEN [r.leases EXCEPT ![d] = l] ELSE r.leases
        /\ u.owners = [r.owners EXCEPT ![s] = StaticMac(m)]
        /\ u.statics = r.statics /\ u.slaac = r.slaac
        /\ u = [leases |-> u.leases, owners |-> u.owners, statics |-> u.statics, slaac |-> u.slaac]
    BY <1>1, <1>l DEF Settled
  <1>3. /\ u.leases \in [Duids -> NaLeases]
        /\ \A e \in Duids : e # d => u.leases[e] = r.leases[e]
        /\ d \in Duids => u.leases[d] = l \/ u.leases[d].suffix = 0
    <2>1. CASE d # NoDuid /\ r.leases[d].suffix # 0
      BY <2>1, <1>2, <1>m, <1>f
    <2>2. CASE ~(d # NoDuid /\ r.leases[d].suffix # 0)
      BY <2>2, <1>2, <1>f, NaRecords
    <2> QED BY <2>1, <2>2
  <1>4. /\ u.owners \in [Suffixes -> NaOwners] /\ u.owners[s] = StaticMac(m)
        /\ \A x \in Suffixes : x # s => u.owners[x] = r.owners[x]
    BY <1>2, <1>f, NaOwnersApart
  <1>5. u \in NaTables
    <2>1. u.statics \in [ClientMacs -> Suffixes \cup {0}] /\ u.slaac \in SUBSET Suffixes
      BY <1>2, <1>f
    <2> QED BY <2>1, <1>2, <1>3, <1>4, NaMade
  <1>6. OwnersKnown(u)
    BY <1>t, <1>4 DEF OwnersKnown
  <1>7. /\ \A e \in Duids : e # d => (DynamicLease(u, e) <=> DynamicLease(r, e)) /\ (StaticLease(u, e) <=> StaticLease(r, e))
        /\ d \in Duids => ~DynamicLease(u, d) /\ (StaticLease(u, d) => u.leases[d] = l)
    BY <1>3, <1>m, NaRecords DEF DynamicLease, StaticLease, Leased
  <1>8. AgreeBut(u, NoDuid, NoMac6)
    <2> USE <1>t, <1>3, <1>4, <1>7, NaOwnersApart, NaRecords DEF AgreeBut
    <2>0. /\ \A e \in Duids : DynamicLease(r, e) => r.leases[e].suffix \in Suffixes
          /\ u.statics = r.statics
      BY <1>2, NaFields DEF DynamicLease, Leased
    <2>1. DynamicOwns(u, NoDuid)
      BY <2>0 DEF DynamicOwns
    <2>2. StaticBound(u, NoDuid, NoMac6)
      BY <2>0, <1>m DEF StaticBound
    <2>3. BindingOwns(u, NoMac6)
      BY <2>0, <1>f DEF BindingOwns
    <2>4. OwnerLeases(u, NoDuid)
      BY DEF OwnerLeases
    <2>5. OwnerBound(u, NoMac6)
      BY <2>0 DEF OwnerBound
    <2>6. OneStatic(u, NoDuid)
      BY <1>m DEF OneStatic, StaticBound
    <2> QED BY <2>1, <2>2, <2>3, <2>4, <2>5, <2>6
  <1> QED BY <1>1, <1>2, <1>5, <1>6, <1>8 DEF NaFits, NaFitsBut

\* bind_mac_suffix binds, or leaves the tables alone because the suffix is the MAC's already or
\* another MAC's; the violation it checks for does not occur.
LEMMA BindFits ==
  ASSUME NEW t, NaFits(t), NEW m \in ClientMacs, NEW s \in Suffixes, NEW E \in SUBSET Duids,
         NEW u \in bind_mac_suffix(t, m, s, E)
  PROVE  /\ NaFits(u) /\ ~InvariantViolation(t, m, s)
         /\ \/ u.statics = [t.statics EXCEPT ![m] = s]
            \/ u = t /\ \E n \in ClientMacs : n # m /\ t.statics[n] = s
  <1>t. t \in NaTables /\ OwnersKnown(t) /\ AgreeBut(t, NoDuid, NoMac6)
    BY DEF NaFits, NaFitsBut
  <1>f. t.statics \in [ClientMacs -> Suffixes \cup {0}]
    BY <1>t, NaFields
  <1>1. ~InvariantViolation(t, m, s)
    BY <1>t, NaRecords DEF InvariantViolation, AgreeBut, BindingOwns
  <1>2. CASE AlreadyBound(t, m, s)
    <2>1. u = t /\ t.statics = [t.statics EXCEPT ![m] = s]
      BY <1>2, <1>f DEF bind_mac_suffix, AlreadyBound
    <2> QED BY <2>1, <1>1
  <1>3. CASE StaticConflict(t, m, s)
    <2>1. u = t
      BY <1>3 DEF bind_mac_suffix
    <2>2. PICK n \in ClientMacs : t.owners[s] = StaticMac(n)
      BY <1>3, <1>t, NaOwnersApart DEF StaticConflict, OwnersKnown
    <2>3. n # m /\ t.statics[n] = s
      BY <1>3, <1>t, <2>2 DEF StaticConflict, AgreeBut, OwnerBound
    <2> QED BY <1>1, <2>1, <2>3
  <1>4. CASE Bindable(t, m, s)
    <2>1. PICK d \in IF MacDuids(t, m) = {} THEN {NoDuid} ELSE MacDuids(t, m) :
             \E r \in Rehoused(Bound(t, m, s, d, Victim(t, s, d)), t, m, s, Victim(t, s, d), E) : u = Settled(r, m, s, d)
      BY <1>1, <1>4 DEF bind_mac_suffix, Bindable
    <2>2. d \in Duids \cup {NoDuid} /\ OwnDuid(t, m, d)
      <3>1. CASE StaticDuids(t, m) # {}
        <4>1. d \in StaticDuids(t, m)
          BY <3>1, <2>1 DEF MacDuids
        <4>2. d \in Duids /\ StaticLease(t, d) /\ t.leases[d].mac = m
          BY <4>1 DEF StaticDuids, StaticLease
        <4>3. OwnDuid(t, m, d)
          BY <4>2, <1>t, NaRecords DEF OwnDuid, AgreeBut, OneStatic
        <4> QED BY <4>2, <4>3
      <3>2. CASE StaticDuids(t, m) = {}
        <4>1. d \in Duids \cup {NoDuid}
          BY <2>1, <3>2 DEF MacDuids
        <4>2. OwnDuid(t, m, d)
          BY <3>2 DEF OwnDuid, StaticDuids, StaticLease
        <4> QED BY <4>1, <4>2
      <3> QED BY <3>1, <3>2
    <2>3. PICK v : v = Victim(t, s, d)
      OBVIOUS
    <2>4. v \in Duids \cup {NoDuid} /\ (v \in Duids => v # d)
      BY <1>4, <2>3, VictimIs
    <2>5. PICK b : b = Bound(t, m, s, d, v)
      OBVIOUS
    <2>6. /\ NaFitsBut(b, d, m) /\ b.statics = [t.statics EXCEPT ![m] = s] /\ b.owners[s] = Nobody
          /\ v \in Duids => ~Leased(b, v)
      BY <1>4, <2>2, <2>3, <2>5, BoundFits
    <2>7. PICK r \in Rehoused(b, t, m, s, v, E) : u = Settled(r, m, s, d)
      BY <2>1, <2>3, <2>5
    <2>8. NaFitsBut(r, d, m) /\ r.statics = b.statics /\ r.owners[s] = Nobody
      BY <1>t, <2>2, <2>4, <2>6, RehousedFits
    <2>9. r.statics[m] = s
      BY <2>6, <2>8, <1>f
    <2>10. NaFits(u) /\ u.statics = r.statics
      BY <2>2, <2>7, <2>8, <2>9, SettledFits
    <2> QED BY <1>1, <2>6, <2>8, <2>10
  <1> QED BY <1>2, <1>3, <1>4 DEF Bindable

\* What one device event does to the bindings: the old MAC's goes, then the new MAC's comes, unless
\* another MAC has the suffix.
DeviceEvents == [old : ClientMacs \cup {NoMac6}, new : ClientMacs \cup {NoMac6}, suffix : Suffixes \cup {0}]
Cleared(S, m) == [n \in ClientMacs |-> IF n = m THEN 0 ELSE S[n]]
Rebound(S, e) == [n \in ClientMacs |-> IF n = e.new THEN e.suffix ELSE Cleared(S, e.old)[n]]

\* The tables still agree, and the bindings are as described.
LEMMA AppliedFits ==
  ASSUME NEW t, NaFits(t), NEW e \in DeviceEvents, NEW E \in SUBSET Duids, NEW u \in Applied(t, e, E)
  PROVE  /\ NaFits(u)
         /\ \/ e.new = NoMac6 /\ u.statics = Cleared(t.statics, e.old)
            \/ e.new # NoMac6 /\ u.statics = Rebound(t.statics, e)
            \/ /\ e.new # NoMac6 /\ u.statics = Cleared(t.statics, e.old)
               /\ \E n \in ClientMacs : n # e.new /\ n # e.old /\ t.statics[n] = e.suffix
  <1>e. /\ e.old \in ClientMacs \cup {NoMac6} /\ e.new \in ClientMacs \cup {NoMac6}
        /\ e.suffix \in Suffixes \cup {0}
    BY DEF DeviceEvents
  <1>1. PICK F : F = IF e.old = NoMac6 THEN {t} ELSE update_device_binding(t, e.old, 0, E)
    OBVIOUS
  <1>f. t.statics \in [ClientMacs -> Suffixes \cup {0}]
    BY NaFields DEF NaFits, NaFitsBut
  <1>2. ASSUME NEW r \in F PROVE NaFits(r) /\ r.statics = Cleared(t.statics, e.old)
    <2>1. CASE e.old = NoMac6
      <3>1. r = t
        BY <1>1, <2>1
      <3>2. t.statics = Cleared(t.statics, e.old)
        BY <2>1, <1>f, NaRecords DEF Cleared
      <3> QED BY <3>1, <3>2
    <2>2. CASE e.old # NoMac6
      <3>1. r \in remove_mac_binding(t, e.old, E)
        BY <1>1, <2>2 DEF update_device_binding
      <3>2. e.old \in ClientMacs
        BY <1>e, <2>2
      <3>3. NaFits(r) /\ r.statics = [t.statics EXCEPT ![e.old] = 0]
        BY <3>1, <3>2, RemoveBindingFits
      <3>4. [t.statics EXCEPT ![e.old] = 0] = Cleared(t.statics, e.old)
        BY <1>f DEF Cleared
      <3> QED BY <3>3, <3>4
    <2> QED BY <2>1, <2>2
  <1>3. CASE e.new = NoMac6
    <2>1. u \in F
      BY <1>1, <1>3 DEF Applied
    <2> QED BY <1>2, <1>3, <2>1
  <1>4. CASE e.new # NoMac6
    <2>1. PICK r \in F : u \in update_device_binding(r, e.new, e.suffix, E)
      BY <1>1, <1>4 DEF Applied
    <2>2. NaFits(r) /\ r.statics = Cleared(t.statics, e.old)
      BY <1>2
    <2>3. PICK m \in ClientMacs : m = e.new
      BY <1>4, <1>e
    <2>4. CASE e.suffix = 0
      <3>1. u \in remove_mac_binding(r, m, E)
        BY <2>1, <2>3, <2>4 DEF update_device_binding
      <3>2. NaFits(u) /\ u.statics = [r.statics EXCEPT ![m] = 0]
        BY <2>2, <3>1, RemoveBindingFits
      <3>3. [Cleared(t.statics, e.old) EXCEPT ![m] = 0] = Rebound(t.statics, e)
        BY <2>3, <2>4 DEF Rebound, Cleared
      <3> QED BY <1>4, <2>2, <3>2, <3>3
    <2>5. CASE e.suffix # 0
      <3>1. PICK s \in Suffixes : s = e.suffix
        BY <2>5, <1>e
      <3>2. u \in bind_mac_suffix(r, m, s, E)
        BY <2>1, <2>3, <2>5, <3>1 DEF update_device_binding
      <3>3. /\ NaFits(u)
            /\ \/ u.statics = [r.statics EXCEPT ![m] = s]
               \/ u = r /\ \E n \in ClientMacs : n # m /\ r.statics[n] = s
        BY <2>2, <3>2, BindFits
      <3>4. [Cleared(t.statics, e.old) EXCEPT ![m] = s] = Rebound(t.statics, e)
        BY <2>3, <3>1 DEF Rebound, Cleared
      <3>5. \A n \in ClientMacs : r.statics[n] = s => n # e.old /\ t.statics[n] = s
        BY <2>2, NaRecords DEF Cleared
      <3> QED BY <1>4, <2>2, <2>3, <3>1, <3>3, <3>4, <3>5
    <2> QED BY <2>4, <2>5
  <1> QED BY <1>3, <1>4

(***************************************************************************)
(* LanIpv6Leases: delegated prefixes.                                      *)
(***************************************************************************)
\* The records of the delegated prefixes and their tables.
PdRecords == [slot : PdSlots \cup {0}, route : Parents \cup {0}]
PdTables == [leases : [Duids -> PdRecords], owners : [PdSlots -> Duids \cup {NoDuid}]]

\* Leases and slots name each other.
PdFits(p) ==
  /\ p \in PdTables
  /\ \A d \in Duids : p.leases[d].slot # 0 => p.owners[p.leases[d].slot] = d
  /\ \A k \in PdSlots : p.owners[k] # NoDuid => p.leases[p.owners[k]].slot = k

\* The routes the leases record.
RouteSet(p) == {<< p.leases[d].route, p.leases[d].slot >> : d \in {x \in Duids : p.leases[x].route # 0}}

\* They belong to slots that are leased, and go to parent a.
RoutesOn(p, a) == \A d \in Duids : p.leases[d].route # 0 => p.leases[d].slot # 0 /\ p.leases[d].route = a

\* Slots and parents are not 0, the mark of none.
LEMMA PdSets ==
  /\ 0 \notin PdSlots /\ 0 \notin Parents /\ NoDuid \notin Duids /\ PdSlots \subseteq Nat
  /\ NoPdLease \in PdRecords /\ NoPdLease.slot = 0 /\ NoPdLease.route = 0
  /\ \A k \in PdSlots, a \in Parents \cup {0} : [slot |-> k, route |-> a] \in PdRecords
  BY LeaseConstants DEF NoPdLease, PdRecords

\* The parts of the prefix tables.
LEMMA PdFields ==
  ASSUME NEW p \in PdTables
  PROVE  /\ p.leases \in [Duids -> PdRecords] /\ p.owners \in [PdSlots -> Duids \cup {NoDuid}]
         /\ \A d \in Duids : p.leases[d].slot \in PdSlots \cup {0} /\ p.leases[d].route \in Parents \cup {0}
  BY DEF PdTables, PdRecords

\* The prefix tables are made of their two parts.
LEMMA PdMade ==
  ASSUME NEW L \in [Duids -> PdRecords], NEW O \in [PdSlots -> Duids \cup {NoDuid}]
  PROVE  [leases |-> L, owners |-> O] \in PdTables
  BY DEF PdTables

\* A set of slots that is not empty has a first one.
LEMMA FirstSlot ==
  ASSUME NEW F \in SUBSET PdSlots, F # {}
  PROVE  (CHOOSE j \in F : \A i \in F : j <= i) \in F
  <1>1. F \subseteq Nat
    BY PdSets
  <1>2. \E j \in F : \A i \in F : ~ (<< i, j >> \in OpToRel(<, Nat))
    BY <1>1, NatLessThanWellFounded, WFMin
  <1>3. \E j \in F : \A i \in F : j <= i
    <2>1. PICK j \in F : \A i \in F : ~ (<< i, j >> \in OpToRel(<, Nat))
      BY <1>2
    <2>2. ASSUME NEW i \in F PROVE j <= i
      <3>1. i \in Nat /\ j \in Nat
        BY <1>1
      <3>2. i < j => << i, j >> \in OpToRel(<, Nat)
        BY <3>1 DEF OpToRel
      <3>3. ~ (<< i, j >> \in OpToRel(<, Nat))
        BY <2>1
      <3>4. ~ (i < j)
        BY <3>2, <3>3, Zenon
      <3> QED BY ONLY <3>1, <3>4
    <2> QED BY <2>2
  <1> QED BY <1>3

\* offer_pd: the tables agree, other DUIDs keep what they have, and a lease that is given up or made
\* has no route.
LEMMA PdOffersFits ==
  ASSUME PdFits(pd), parent \in Parents \cup {0}, RoutesOn(pd, parent), NEW d \in Duids
  PROVE  /\ PdFits(PdOffers(d))
         /\ \A e \in Duids : e # d => PdOffers(d).leases[e] = pd.leases[e]
         /\ \/ PdOffers(d).leases[d] = pd.leases[d]
            \/ pd.leases[d].route = 0 /\ PdOffers(d).leases[d].route = 0
         /\ pd.leases[d].slot # 0 /\ parent # 0 => PdOffers(d) = pd
  <1>f. /\ pd.leases \in [Duids -> PdRecords] /\ pd.owners \in [PdSlots -> Duids \cup {NoDuid}]
        /\ pd.leases[d].slot \in PdSlots \cup {0} /\ pd.leases[d].route \in Parents \cup {0}
    BY PdFields DEF PdFits
  <1>1. PICK k \in PdSlots \cup {0} : k = pd.leases[d].slot
    BY <1>f
  <1>2. PICK o : o = IF k = 0 THEN pd.owners ELSE [pd.owners EXCEPT ![k] = NoDuid]
    OBVIOUS
  <1>3. /\ o \in [PdSlots -> Duids \cup {NoDuid}]
        /\ \A j \in PdSlots : o[j] = IF pd.owners[j] = d THEN NoDuid ELSE pd.owners[j]
    <2>1. \A j \in PdSlots : pd.owners[j] = d => j = k
      BY <1>1, PdSets DEF PdFits
    <2>2. k # 0 => pd.owners[k] = d
      BY <1>1 DEF PdFits
    <2> QED BY <1>2, <1>f, <2>1, <2>2, PdSets
  <1>4. PICK F : F = IF parent = 0 THEN {} ELSE {j \in PdSlots : o[j] = NoDuid}
    OBVIOUS
  <1>5. PICK f : f = CHOOSE j \in F : \A i \in F : j <= i
    OBVIOUS
  <1>6. PdOffers(d) = IF k # 0 /\ pd.owners[k] = d /\ Prefix(k) # 0 THEN pd
                      ELSE IF F = {} THEN [leases |-> [pd.leases EXCEPT ![d] = NoPdLease], owners |-> o]
                      ELSE [leases |-> [pd.leases EXCEPT ![d] = [slot |-> f, route |-> 0]], owners |-> [o EXCEPT ![f] = d]]
    BY <1>1, <1>2, <1>4, <1>5 DEF PdOffers
  <1>7. CASE k # 0 /\ pd.owners[k] = d /\ Prefix(k) # 0
    BY <1>6, <1>7
  <1>8. CASE ~(k # 0 /\ pd.owners[k] = d /\ Prefix(k) # 0)
    <2>1. pd.leases[d].route = 0 /\ ~(k # 0 /\ parent # 0)
      BY <1>1, <1>8 DEF PdFits, RoutesOn, Prefix
    <2>2. CASE F = {}
      <3>1. PICK p : p = PdOffers(d)
        OBVIOUS
      <3>2. p = [leases |-> [pd.leases EXCEPT ![d] = NoPdLease], owners |-> o]
        BY <1>6, <1>8, <2>2, <3>1
      <3>3. /\ p.leases \in [Duids -> PdRecords] /\ p.leases[d] = NoPdLease /\ p.owners = o
            /\ \A e \in Duids : e # d => p.leases[e] = pd.leases[e]
        BY <3>2, <1>f, PdSets
      <3>4. p \in PdTables
        BY <3>2, <3>3, <1>3, PdMade
      <3>5. PdFits(p)
        <4>1. ASSUME NEW e \in Duids, p.leases[e].slot # 0 PROVE p.owners[p.leases[e].slot] = e
          <5>1. e # d
            BY <4>1, <3>3, PdSets
          <5>2. PICK j \in PdSlots : j = p.leases[e].slot
            BY <4>1, <3>4, PdFields
          <5>3. pd.leases[e].slot = j /\ pd.owners[j] = e
            BY <5>1, <5>2, <4>1, <3>3 DEF PdFits
          <5>4. o[j] = e
            BY <5>1, <5>3, <1>3
          <5> QED BY <5>2, <5>4, <3>3
        <4>2. \A j \in PdSlots : p.owners[j] # NoDuid => p.leases[p.owners[j]].slot = j
          BY <3>3, <1>3, <1>f DEF PdFits
        <4> QED BY <3>4, <4>1, <4>2 DEF PdFits
      <3> QED BY <3>1, <3>3, <3>5, <2>1, <1>1, PdSets
    <2>3. CASE F # {}
      <3>0. f \in PdSlots /\ o[f] = NoDuid
        <4>1. F \in SUBSET PdSlots
          BY <1>4
        <4>2. f \in F
          BY <1>5, <2>3, <4>1, FirstSlot
        <4> QED BY <1>4, <2>3, <4>2
      <3>l. PICK l : l = [slot |-> f, route |-> 0]
        OBVIOUS
      <3>m. l \in PdRecords /\ l.slot = f /\ l.route = 0
        BY <3>0, <3>l, PdSets
      <3>1. PICK p : p = PdOffers(d)
        OBVIOUS
      <3>2. p = [leases |-> [pd.leases EXCEPT ![d] = l], owners |-> [o EXCEPT ![f] = d]]
        BY <1>6, <1>8, <2>3, <3>1, <3>l
      <3>3. /\ p.leases \in [Duids -> PdRecords] /\ p.leases[d] = l
            /\ \A e \in Duids : e # d => p.leases[e] = pd.leases[e]
            /\ p.owners \in [PdSlots -> Duids \cup {NoDuid}] /\ p.owners[f] = d
            /\ \A j \in PdSlots : j # f => p.owners[j] = o[j]
        BY <3>2, <3>m, <3>0, <1>f, <1>3
      <3>4. p \in PdTables
        <4>1. p = [leases |-> p.leases, owners |-> p.owners]
          BY <3>2
        <4> QED BY <3>3, <4>1, PdMade
      <3>5. PdFits(p)
        <4>1. ASSUME NEW e \in Duids, p.leases[e].slot # 0 PROVE p.owners[p.leases[e].slot] = e
          <5>1. CASE e = d
            BY <5>1, <3>3, <3>m
          <5>2. CASE e # d
            <6>1. PICK j \in PdSlots : j = p.leases[e].slot
              BY <4>1, <3>4, PdFields
            <6>2. pd.leases[e].slot = j /\ pd.owners[j] = e
              BY <5>2, <6>1, <4>1, <3>3 DEF PdFits
            <6>3. o[j] = e /\ j # f
              BY <5>2, <6>2, <1>3, <3>0, PdSets
            <6> QED BY <6>1, <6>3, <3>3
          <5> QED BY <5>1, <5>2
        <4>2. ASSUME NEW j \in PdSlots, p.owners[j] # NoDuid PROVE p.leases[p.owners[j]].slot = j
          <5>1. CASE j = f
            BY <5>1, <3>3, <3>m
          <5>2. CASE j # f
            <6>1. p.owners[j] = pd.owners[j] /\ pd.owners[j] # d /\ pd.owners[j] \in Duids
              BY <5>2, <4>2, <3>3, <1>3, <1>f
            <6>2. pd.leases[pd.owners[j]].slot = j
              BY <6>1, <4>2 DEF PdFits
            <6> QED BY <6>1, <6>2, <3>3
          <5> QED BY <5>1, <5>2
        <4> QED BY <3>4, <4>1, <4>2 DEF PdFits
      <3> QED BY <3>1, <3>3, <3>5, <3>m, <2>1, <1>1
    <2> QED BY <2>2, <2>3
  <1> QED BY <1>7, <1>8

\* release_pd for a set of DUIDs
LEMMA PdReleasesFits ==
  ASSUME NEW p, PdFits(p), NEW D \in SUBSET Duids
  PROVE  /\ PdFits(PdReleases(p, D))
         /\ \A d \in Duids : PdReleases(p, D).leases[d] = IF d \in D THEN NoPdLease ELSE p.leases[d]
  <1>f. /\ p.leases \in [Duids -> PdRecords] /\ p.owners \in [PdSlots -> Duids \cup {NoDuid}]
        /\ \A d \in Duids : p.leases[d].slot \in PdSlots \cup {0}
    BY PdFields DEF PdFits
  <1>1. PICK q : q = PdReleases(p, D)
    OBVIOUS
  <1>2. q = [ leases |-> [d \in Duids |-> IF d \in D THEN NoPdLease ELSE p.leases[d]],
              owners |-> [k \in PdSlots |-> IF p.owners[k] \in D THEN NoDuid ELSE p.owners[k]] ]
    BY <1>1 DEF PdReleases
  <1>3. /\ q.leases \in [Duids -> PdRecords]
        /\ \A d \in Duids : q.leases[d] = IF d \in D THEN NoPdLease ELSE p.leases[d]
        /\ q.owners \in [PdSlots -> Duids \cup {NoDuid}]
        /\ \A k \in PdSlots : q.owners[k] = IF p.owners[k] \in D THEN NoDuid ELSE p.owners[k]
    BY <1>2, <1>f, PdSets
  <1>4. q \in PdTables
    <2>1. q = [leases |-> q.leases, owners |-> q.owners]
      BY <1>2
    <2> QED BY <1>3, <2>1, PdMade
  <1>5. ASSUME NEW d \in Duids, q.leases[d].slot # 0 PROVE q.owners[q.leases[d].slot] = d
    <2>1. d \notin D /\ q.leases[d] = p.leases[d]
      BY <1>3, <1>5, PdSets
    <2>2. PICK j \in PdSlots : j = p.leases[d].slot
      BY <1>5, <2>1, <1>f
    <2>3. p.owners[j] = d
      BY <1>5, <2>1, <2>2 DEF PdFits
    <2> QED BY <1>3, <2>1, <2>2, <2>3
  <1>6. \A k \in PdSlots : q.owners[k] # NoDuid => q.leases[q.owners[k]].slot = k
    BY <1>3, <1>f, PdSets DEF PdFits
  <1> QED BY <1>1, <1>3, <1>4, <1>5, <1>6 DEF PdFits

\* What release_pd reports covers every route of the DUIDs, and no other.
LEMMA ReleasedRoutesAre ==
  ASSUME PdFits(pd), parent \in Parents \cup {0}, RoutesOn(pd, parent), pdRoutes = RouteSet(pd), NEW D \in SUBSET Duids
  PROVE  /\ pdRoutes \ ReleasedRoutes(D) = RouteSet(PdReleases(pd, D))
         /\ RoutesOn(PdReleases(pd, D), parent)
  <1>1. PICK q : q = PdReleases(pd, D)
    OBVIOUS
  <1>2. \A d \in Duids : q.leases[d] = IF d \in D THEN NoPdLease ELSE pd.leases[d]
    BY <1>1, PdReleasesFits
  <1>3. RoutesOn(q, parent)
    BY <1>2, PdSets DEF RoutesOn
  <1>4. ReleasedRoutes(D) = {<< pd.leases[d].route, pd.leases[d].slot >> : d \in {x \in D : pd.leases[x].route # 0}}
    <2>1. \A d \in D : pd.leases[d].route # 0 => pd.leases[d].slot # 0 /\ Prefix(pd.leases[d].slot) # 0
      BY DEF RoutesOn, Prefix
    <2> QED BY <2>1 DEF ReleasedRoutes
  <1>5. ASSUME NEW d \in Duids, NEW e \in Duids, pd.leases[d].route # 0, pd.leases[e].route # 0,
               pd.leases[d].slot = pd.leases[e].slot
        PROVE  d = e
    BY <1>5 DEF PdFits, RoutesOn
  <1>6. \A d \in Duids : q.leases[d].route # 0 <=> d \notin D /\ pd.leases[d].route # 0
    BY <1>2, PdSets
  <1>7. \A r : r \in pdRoutes \ ReleasedRoutes(D) <=> r \in RouteSet(q)
    <2>1. ASSUME NEW r, r \in pdRoutes \ ReleasedRoutes(D) PROVE r \in RouteSet(q)
      <3>1. PICK d \in Duids : pd.leases[d].route # 0 /\ r = << pd.leases[d].route, pd.leases[d].slot >>
        BY <2>1 DEF RouteSet
      <3>2. d \notin D
        BY <2>1, <3>1, <1>4
      <3>3. q.leases[d] = pd.leases[d]
        BY <3>2, <1>2
      <3> QED BY <3>1, <3>3 DEF RouteSet
    <2>2. ASSUME NEW r, r \in RouteSet(q) PROVE r \in pdRoutes \ ReleasedRoutes(D)
      <3>1. PICK d \in Duids : q.leases[d].route # 0 /\ r = << q.leases[d].route, q.leases[d].slot >>
        BY <2>2 DEF RouteSet
      <3>2. d \notin D /\ pd.leases[d].route # 0 /\ r = << pd.leases[d].route, pd.leases[d].slot >>
        BY <3>1, <1>2, <1>6
      <3>3. r \in pdRoutes
        BY <3>2 DEF RouteSet
      <3>4. ASSUME r \in ReleasedRoutes(D) PROVE FALSE
        <4>1. PICK e \in D : pd.leases[e].route # 0 /\ r = << pd.leases[e].route, pd.leases[e].slot >>
          BY <3>4, <1>4
        <4>2. pd.leases[e].slot = pd.leases[d].slot
          BY <3>2, <4>1
        <4> QED BY <3>2, <4>1, <4>2, <1>5
      <3> QED BY <3>3, <3>4
    <2> QED BY <2>1, <2>2
  <1> QED BY <1>1, <1>3, <1>7

(***************************************************************************)
(* LanIpv6Leases: the invariant.                                           *)
(***************************************************************************)
\* Prefixes: slots and owners name each other, the routes are those of the leases, on the present
\* parent, and there are none before the server runs.
PdInv ==
  /\ PdFits(pd) /\ parent \in Parents \cup {0}
  /\ pdRoutes = RouteSet(pd) /\ RoutesOn(pd, parent)
  /\ serving # "running" => pdRoutes = {}

\* The device store holds every suffix once, and its events name what they changed.
StoreInv ==
  /\ enrolled \in [ClientMacs -> Suffixes \cup {0}] /\ DistinctSuffixes(enrolled)
  /\ devQueue \in Seq(DeviceEvents) /\ Len(devQueue) <= DeviceQueue
  /\ serving \in {"off", "starting", "running"} /\ missedMacs \subseteq ClientMacs

\* The inductive invariant.
LeaseIInv == NaFits(na) /\ PdInv /\ StoreInv

\* It says what LeaseInv does.
LEMMA LeaseEnds == LeaseIInv => LeaseInv
  <1> SUFFICES ASSUME LeaseIInv PROVE LeaseInv
    OBVIOUS
  <1>t. na \in NaTables /\ OwnersKnown(na) /\ AgreeBut(na, NoDuid, NoMac6)
    BY DEF LeaseIInv, NaFits, NaFitsBut
  <1>p. PdFits(pd) /\ pdRoutes = RouteSet(pd) /\ RoutesOn(pd, parent) /\ parent \in Parents \cup {0}
    BY DEF LeaseIInv, PdInv
  <1>f. \A d \in Duids : pd.leases[d].slot \in PdSlots \cup {0} /\ pd.leases[d].route \in Parents \cup {0}
    BY <1>p, PdFields DEF PdFits
  <1>1. LeaseTypeOK
    <2>1. pdRoutes \subseteq Parents \X PdSlots
      BY <1>p, <1>f DEF RouteSet, RoutesOn
    <2>2. pd \in [leases : [Duids -> [slot : PdSlots \cup {0}, route : Parents \cup {0}]], owners : [PdSlots -> Duids \cup {NoDuid}]]
      BY <1>p DEF PdFits, PdTables, PdRecords
    <2> QED BY <1>t, <1>p, <2>1, <2>2 DEF LeaseTypeOK, LeaseIInv, StoreInv
  <1>2. NaAgree
    <2>1. \A d \in Duids : DynamicLease(na, d) => na.owners[na.leases[d].suffix] = DynamicDuid(d)
      BY <1>t, NaRecords DEF AgreeBut, DynamicOwns
    <2>2. \A d \in Duids : (Leased(na, d) /\ na.leases[d].static) => na.statics[na.leases[d].mac] = na.leases[d].suffix
      BY <1>t, NaRecords DEF AgreeBut, StaticBound, StaticLease
    <2>3. \A m \in ClientMacs : na.statics[m] # 0 => na.owners[na.statics[m]] = StaticMac(m)
      BY <1>t, NaRecords DEF AgreeBut, BindingOwns
    <2>4. ASSUME NEW s \in Suffixes, na.owners[s].by = "duid"
          PROVE  DynamicLease(na, na.owners[s].duid) /\ na.leases[na.owners[s].duid].suffix = s
      <3>1. PICK d \in Duids : na.owners[s] = DynamicDuid(d)
        BY <2>4, <1>t, NaOwnersApart DEF OwnersKnown
      <3> QED BY <3>1, <1>t, NaOwnersApart DEF AgreeBut, OwnerLeases
    <2>5. ASSUME NEW s \in Suffixes, na.owners[s].by = "mac" PROVE na.statics[na.owners[s].mac] = s
      <3>1. PICK m \in ClientMacs : na.owners[s] = StaticMac(m)
        BY <2>5, <1>t, NaOwnersApart DEF OwnersKnown
      <3> QED BY <3>1, <1>t, NaOwnersApart DEF AgreeBut, OwnerBound
    <2> QED BY <2>1, <2>2, <2>3, <2>4, <2>5 DEF NaAgree
  <1>3. NoSharedSuffix
    <2> SUFFICES ASSUME NEW d \in Duids, NEW e \in Duids, Leased(na, d), Leased(na, e),
                        na.leases[d].suffix = na.leases[e].suffix
                 PROVE  d = e
      BY DEF NoSharedSuffix
    <2>1. PICK s \in Suffixes : s = na.leases[d].suffix /\ s = na.leases[e].suffix
      BY <1>t, NaFields DEF Leased
    <2>2. ASSUME NEW x \in Duids, Leased(na, x), na.leases[x].suffix = s
          PROVE  \/ DynamicLease(na, x) /\ na.owners[s] = DynamicDuid(x)
                 \/ StaticLease(na, x) /\ na.owners[s] = StaticMac(na.leases[x].mac)
      <3>1. CASE DynamicLease(na, x)
        BY <3>1, <2>2, <1>t, NaRecords DEF AgreeBut, DynamicOwns
      <3>2. CASE StaticLease(na, x)
        <4>1. na.leases[x].mac \in ClientMacs /\ na.statics[na.leases[x].mac] = s
          BY <3>2, <2>2, <1>t, NaRecords DEF AgreeBut, StaticBound
        <4> QED BY <3>2, <4>1, <1>t, NaRecords DEF AgreeBut, BindingOwns
      <3> QED BY <2>2, <3>1, <3>2 DEF DynamicLease, StaticLease
    <2>3. CASE na.owners[s] = DynamicDuid(d)
      BY <2>1, <2>2, <2>3, NaOwnersApart
    <2>4. CASE StaticLease(na, d) /\ na.owners[s] = StaticMac(na.leases[d].mac)
      <3>1. StaticLease(na, e) /\ na.leases[e].mac = na.leases[d].mac
        BY <2>1, <2>2, <2>4, NaOwnersApart
      <3> QED BY <2>4, <3>1, <1>t, NaRecords DEF AgreeBut, OneStatic
    <2> QED BY <2>1, <2>2, <2>3, <2>4
  <1>4. PdRoutesTracked
    BY <1>p DEF PdRoutesTracked, RouteSet, RoutesOn
  <1>5. PdSlotsAgree
    BY <1>p DEF PdSlotsAgree, PdFits
  <1> QED BY <1>1, <1>2, <1>3, <1>4, <1>5 DEF LeaseInv

\* A status without delegated prefixes has no routes.
LEMMA NoPdFits == PdFits(NoPd) /\ RouteSet(NoPd) = {} /\ \A a : RoutesOn(NoPd, a)
  <1>1. /\ NoPd.leases = [d \in Duids |-> NoPdLease] /\ NoPd.owners = [k \in PdSlots |-> NoDuid]
        /\ NoPd = [leases |-> NoPd.leases, owners |-> NoPd.owners]
    BY DEF NoPd
  <1>2. NoPd \in PdTables
    <2>1. NoPd.leases \in [Duids -> PdRecords] /\ NoPd.owners \in [PdSlots -> Duids \cup {NoDuid}]
      BY <1>1, PdSets
    <2> QED BY <1>1, <2>1, PdMade
  <1> QED BY <1>1, <1>2, PdSets DEF PdFits, RouteSet, RoutesOn

\* An empty store holds no suffix twice.
LEMMA NoDevices ==
  /\ [m \in ClientMacs |-> 0] \in [ClientMacs -> Suffixes \cup {0}]
  /\ DistinctSuffixes([m \in ClientMacs |-> 0])
  BY DEF DistinctSuffixes

\* Every initial state satisfies it.
LEMMA LeaseStarts == LeaseInit => LeaseIInv
  <1> SUFFICES ASSUME LeaseInit PROVE LeaseIInv
    OBVIOUS
  <1>1. NaFits(na)
    BY NoDevices, NewStatusFits DEF LeaseInit
  <1>2. PdInv
    BY NoPdFits DEF LeaseInit, PdInv
  <1>3. StoreInv
    BY NoDevices, LeaseConstants DEF LeaseInit, StoreInv
  <1> QED BY <1>1, <1>2, <1>3 DEF LeaseIInv

\* Messages leave the device store and the server's state alone.
LEMMA StoreKept == StoreInv /\ UNCHANGED << enrolled, devQueue, serving, missedMacs >> => StoreInv'
  BY DEF StoreInv, DistinctSuffixes

\* The address part of Solicit, Request and Renew.
LEMMA OfferNaStep ==
  ASSUME NaFits(na), NEW d \in Duids, NEW m \in ClientMacs, NEW w \in BOOLEAN,
         IF w THEN \E E \in MayExpire(na) : na' \in offer_na(na, d, m, E) ELSE UNCHANGED na
  PROVE  NaFits(na') /\ na'.statics = na.statics
  <1>1. CASE w
    <2>1. PICK E \in MayExpire(na) : na' \in offer_na(na, d, m, E)
      BY <1>1
    <2>2. E \in SUBSET Duids
      BY DEF MayExpire
    <2>3. PICK t : t = na
      OBVIOUS
    <2>4. PICK u : u = na'
      OBVIOUS
    <2>5. NaFits(t) /\ u \in offer_na(t, d, m, E)
      BY <2>1, <2>3, <2>4
    <2>6. NaFits(u) /\ u.statics = t.statics
      BY <2>2, <2>5, OfferNaFits
    <2> QED BY <2>3, <2>4, <2>6
  <1>2. CASE ~w
    BY <1>2
  <1> QED BY <1>1, <1>2

\* handle_solicit: an offered prefix has no route yet, so that the routes stay.
LEMMA SolicitStep ==
  ASSUME LeaseIInv, NEW d \in Duids, NEW m \in ClientMacs, NEW w \in BOOLEAN, NEW z \in BOOLEAN,
         handle_solicit(d, m, w, z)
  PROVE  LeaseIInv' /\ na'.statics = na.statics
  <1>1. NaFits(na') /\ na'.statics = na.statics
    BY OfferNaStep DEF handle_solicit, LeaseIInv
  <1>2. StoreInv'
    BY StoreKept DEF handle_solicit, LeaseIInv, unrelated
  <1>3. PdInv'
    <2>1. CASE ~z
      BY <2>1 DEF handle_solicit, LeaseIInv, PdInv, unrelated
    <2>2. CASE z
      <3>1. pd' = PdOffers(d) /\ UNCHANGED << parent, pdRoutes, serving >>
        BY <2>2 DEF handle_solicit, unrelated
      <3>2. PICK p : p = pd
        OBVIOUS
      <3>3. PICK q : q = pd'
        OBVIOUS
      <3>4. /\ PdFits(q) /\ \A e \in Duids : e # d => q.leases[e] = p.leases[e]
            /\ q.leases[d] = p.leases[d] \/ (p.leases[d].route = 0 /\ q.leases[d].route = 0)
        BY <3>1, <3>2, <3>3, PdOffersFits DEF LeaseIInv, PdInv
      <3>5. RouteSet(q) = RouteSet(p)
        BY <3>4 DEF RouteSet
      <3>6. RoutesOn(q, parent)
        BY <3>2, <3>4 DEF RoutesOn, LeaseIInv, PdInv
      <3> QED BY <3>1, <3>2, <3>3, <3>4, <3>5, <3>6 DEF LeaseIInv, PdInv
    <2> QED BY <2>1, <2>2
  <1> QED BY <1>1, <1>2, <1>3 DEF LeaseIInv

\* handle_request_or_renew: the route of the offered prefix is installed; none is replaced.
LEMMA RequestLeaseStep ==
  ASSUME LeaseIInv, NEW d \in Duids, NEW m \in ClientMacs, NEW w \in BOOLEAN, NEW z \in BOOLEAN,
         handle_request_or_renew(d, m, w, z)
  PROVE  LeaseIInv' /\ na'.statics = na.statics
  <1>1. NaFits(na') /\ na'.statics = na.statics
    BY OfferNaStep DEF handle_request_or_renew, LeaseIInv
  <1>2. StoreInv'
    BY StoreKept DEF handle_request_or_renew, LeaseIInv, unrelated
  <1>u. UNCHANGED << parent, serving >> /\ serving = "running"
    BY DEF handle_request_or_renew, unrelated, Running
  <1>i. PdFits(pd) /\ parent \in Parents \cup {0} /\ pdRoutes = RouteSet(pd) /\ RoutesOn(pd, parent)
    BY DEF LeaseIInv, PdInv
  <1>p. PICK p : p = pd
    OBVIOUS
  <1>q. PICK q : q = PdOffers(d)
    OBVIOUS
  <1>r. /\ PdFits(q) /\ \A e \in Duids : e # d => q.leases[e] = p.leases[e]
        /\ q.leases[d] = p.leases[d] \/ (p.leases[d].route = 0 /\ q.leases[d].route = 0)
        /\ p.leases[d].slot # 0 /\ parent # 0 => q = p
    BY <1>p, <1>q, <1>i, PdOffersFits
  <1>s. RouteSet(q) = RouteSet(p) /\ RoutesOn(q, parent)
    BY <1>i, <1>p, <1>r DEF RouteSet, RoutesOn
  <1>f. q \in PdTables /\ q.leases \in [Duids -> PdRecords] /\ q.owners \in [PdSlots -> Duids \cup {NoDuid}]
    BY <1>r, PdFields DEF PdFits
  <1>3. PdInv'
    <2>1. CASE ~(z /\ Prefix(q.leases[d].slot) # 0)
      <3>1. pdRoutes' = pdRoutes /\ pd' = IF z THEN q ELSE pd
        BY <2>1, <1>q DEF handle_request_or_renew
      <3> QED BY <3>1, <1>u, <1>i, <1>p, <1>r, <1>s DEF PdInv
    <2>2. CASE z /\ Prefix(q.leases[d].slot) # 0
      <3>1. PICK k \in PdSlots : k = q.leases[d].slot
        BY <2>2, <1>f, PdFields DEF Prefix
      <3>2. PICK a \in Parents : a = parent
        BY <2>2, <1>i DEF Prefix
      <3>3. PICK b : b = << Prefix(p.leases[d].slot), p.leases[d].slot >>
        OBVIOUS
      <3>4. /\ pd' = [leases |-> [q.leases EXCEPT ![d] = [slot |-> k, route |-> a]], owners |-> q.owners]
            /\ pdRoutes' = (pdRoutes \ (IF b[1] = 0 \/ b = << a, k >> THEN {} ELSE {b})) \cup {<< a, k >>}
        BY <2>2, <3>1, <3>2, <3>3, <1>p, <1>q DEF handle_request_or_renew
      <3>5. b[1] = 0 \/ b = << a, k >>
        <4>1. CASE p.leases[d].slot = 0
          BY <4>1, <3>3 DEF Prefix
        <4>2. CASE p.leases[d].slot # 0
          <5>1. q = p
            BY <4>2, <3>2, <1>r, PdSets
          <5> QED BY <4>2, <5>1, <3>1, <3>2, <3>3 DEF Prefix
        <4> QED BY <4>1, <4>2
      <3>6. pdRoutes' = RouteSet(q) \cup {<< a, k >>}
        BY <3>4, <3>5, <1>i, <1>p, <1>s
      <3>7. PICK l : l = [slot |-> k, route |-> a]
        OBVIOUS
      <3>8. l \in PdRecords /\ l.slot = k /\ l.route = a
        BY <3>7, PdSets
      <3>9. PICK v : v = pd'
        OBVIOUS
      <3>10. /\ v.leases \in [Duids -> PdRecords] /\ v.leases[d] = l /\ v.owners = q.owners
             /\ \A e \in Duids : e # d => v.leases[e] = q.leases[e]
             /\ v = [leases |-> v.leases, owners |-> v.owners]
        BY <3>4, <3>7, <3>8, <3>9, <1>f
      <3>11. PdFits(v)
        <4>1. v \in PdTables
          BY <3>10, <1>f, PdMade
        <4>2. \A e \in Duids : v.leases[e].slot = q.leases[e].slot
          BY <3>1, <3>8, <3>10
        <4> QED BY <4>1, <4>2, <3>10, <1>r, <1>f DEF PdFits
      <3>12. RoutesOn(v, a)
        BY <3>2, <3>8, <3>10, <1>s, PdSets DEF RoutesOn
      <3>13. RouteSet(v) = RouteSet(q) \cup {<< a, k >>}
        <4>1. a # 0 /\ k # 0
          BY PdSets
        <4>2. q.leases[d].route # 0 => << q.leases[d].route, q.leases[d].slot >> = << a, k >>
          BY <1>s, <3>1, <3>2 DEF RoutesOn
        <4>3. \A r : r \in RouteSet(v) => r \in RouteSet(q) \cup {<< a, k >>}
          BY <3>8, <3>10 DEF RouteSet
        <4>4. << a, k >> \in RouteSet(v)
          BY <3>8, <3>10, <4>1 DEF RouteSet
        <4>5. \A r : r \in RouteSet(q) => r \in RouteSet(v)
          BY <3>10, <4>2, <4>4 DEF RouteSet
        <4> QED BY <4>3, <4>4, <4>5
      <3> QED BY <3>2, <3>6, <3>9, <3>11, <3>12, <3>13, <1>u, <1>i DEF PdInv
    <2> QED BY <2>1, <2>2
  <1> QED BY <1>1, <1>2, <1>3 DEF LeaseIInv

\* Nothing that must agree is said of the SLAAC addresses.
LEMMA SlaacFits ==
  ASSUME NEW t, NaFits(t), NEW A \in SUBSET Suffixes, NEW u,
         u = [leases |-> t.leases, owners |-> t.owners, statics |-> t.statics, slaac |-> A]
  PROVE  NaFits(u) /\ u.statics = t.statics
  <1>t. t \in NaTables /\ OwnersKnown(t) /\ AgreeBut(t, NoDuid, NoMac6)
    BY DEF NaFits, NaFitsBut
  <1>1. u.leases = t.leases /\ u.owners = t.owners /\ u.statics = t.statics
    OBVIOUS
  <1>2. u \in NaTables
    BY <1>t, NaFields, NaMade
  <1>3. \A d \in Duids : (DynamicLease(u, d) <=> DynamicLease(t, d)) /\ (StaticLease(u, d) <=> StaticLease(t, d))
    BY <1>1 DEF DynamicLease, StaticLease, Leased
  <1>4. OwnersKnown(u)
    BY <1>t, <1>1 DEF OwnersKnown
  <1>5. AgreeBut(u, NoDuid, NoMac6)
    <2> USE <1>t, <1>1, <1>3 DEF AgreeBut
    <2>1. DynamicOwns(u, NoDuid)
      BY DEF DynamicOwns
    <2>2. StaticBound(u, NoDuid, NoMac6)
      BY DEF StaticBound
    <2>3. BindingOwns(u, NoMac6)
      BY DEF BindingOwns
    <2>4. OwnerLeases(u, NoDuid)
      BY DEF OwnerLeases
    <2>5. OwnerBound(u, NoMac6)
      BY DEF OwnerBound
    <2>6. OneStatic(u, NoDuid)
      BY DEF OneStatic
    <2> QED BY <2>1, <2>2, <2>3, <2>4, <2>5, <2>6
  <1> QED BY <1>1, <1>2, <1>4, <1>5 DEF NaFits, NaFitsBut

\* Releasing the prefixes of D, as a Release message and the timer do.
LEMMA PdReleaseStep ==
  ASSUME PdInv, NEW D \in SUBSET Duids, serving = "running",
         pd' = PdReleases(pd, D), pdRoutes' = pdRoutes \ ReleasedRoutes(D), UNCHANGED << parent, serving >>
  PROVE  PdInv'
  <1>1. PdFits(pd) /\ parent \in Parents \cup {0} /\ RoutesOn(pd, parent) /\ pdRoutes = RouteSet(pd)
    BY DEF PdInv
  <1>2. PICK q : q = pd'
    OBVIOUS
  <1>3. q = PdReleases(pd, D)
    BY <1>2
  <1>4. PdFits(q)
    BY <1>1, <1>3, PdReleasesFits
  <1>5. pdRoutes' = RouteSet(q) /\ RoutesOn(q, parent)
    BY <1>1, <1>3, ReleasedRoutesAre
  <1> QED BY <1>1, <1>2, <1>4, <1>5 DEF PdInv

\* handle_release
LEMMA ReleaseLeaseStep ==
  ASSUME LeaseIInv, NEW d \in Duids, handle_release(d)
  PROVE  LeaseIInv' /\ na'.statics = na.statics
  <1>1. NaFits(na') /\ na'.statics = na.statics
    <2>1. NaFits(remove_na_lease(na, d)) /\ remove_na_lease(na, d).statics = na.statics
      BY RemoveFits DEF LeaseIInv, remove_na_lease
    <2> QED BY <2>1 DEF handle_release
  <1>2. StoreInv'
    BY StoreKept DEF handle_release, LeaseIInv, unrelated
  <1>3. PdInv'
    BY PdReleaseStep DEF handle_release, LeaseIInv, unrelated, Running
  <1> QED BY <1>1, <1>2, <1>3 DEF LeaseIInv

\* handle_decline
LEMMA DeclineLeaseStep ==
  ASSUME LeaseIInv, NEW d \in Duids, handle_decline(d)
  PROVE  LeaseIInv' /\ na'.statics = na.statics
  <1>1. NaFits(na') /\ na'.statics = na.statics
    <2>1. NaFits(remove_na_lease(na, d)) /\ remove_na_lease(na, d).statics = na.statics
      BY RemoveFits DEF LeaseIInv, remove_na_lease
    <2> QED BY <2>1 DEF handle_decline
  <1>2. StoreInv'
    BY StoreKept DEF handle_decline, LeaseIInv, unrelated
  <1>3. PdInv'
    BY DEF handle_decline, LeaseIInv, unrelated, PdInv
  <1> QED BY <1>1, <1>2, <1>3 DEF LeaseIInv

\* record_slaac_addr
LEMMA SlaacStep ==
  ASSUME LeaseIInv, NEW s \in Suffixes, record_slaac_addr(s)
  PROVE  LeaseIInv' /\ na'.statics = na.statics
  <1>1. NaFits(na') /\ na'.statics = na.statics
    <2>1. PICK t : t = na
      OBVIOUS
    <2>2. PICK u : u = na'
      OBVIOUS
    <2>3. u = [leases |-> t.leases, owners |-> t.owners, statics |-> t.statics, slaac |-> t.slaac \cup {s}]
      BY <2>1, <2>2 DEF record_slaac_addr
    <2>4. NaFits(t) /\ t.slaac \cup {s} \in SUBSET Suffixes
      BY <2>1, NaFields DEF LeaseIInv, NaFits, NaFitsBut
    <2>5. NaFits(u) /\ u.statics = t.statics
      BY <2>3, <2>4, SlaacFits
    <2> QED BY <2>1, <2>2, <2>5
  <1>2. StoreInv'
    BY StoreKept DEF record_slaac_addr, LeaseIInv, unrelated
  <1>3. PdInv'
    BY DEF record_slaac_addr, LeaseIInv, unrelated, PdInv
  <1> QED BY <1>1, <1>2, <1>3 DEF LeaseIInv

\* handle_expire_tick
LEMMA ExpireStep ==
  ASSUME LeaseIInv, handle_expire_tick
  PROVE  LeaseIInv' /\ na'.statics = na.statics
  <1>0. PICK E \in MayExpire(na), P \in SUBSET {d \in Duids : pd.leases[d].slot # 0}, A \in SUBSET na.slaac :
          /\ na' = [leases |-> clean_expired_na(na, E).leases, owners |-> clean_expired_na(na, E).owners,
                    statics |-> clean_expired_na(na, E).statics, slaac |-> clean_expired_na(na, E).slaac \ A]
          /\ pd' = PdReleases(pd, P) /\ pdRoutes' = pdRoutes \ ReleasedRoutes(P)
    BY DEF handle_expire_tick
  <1>1. NaFits(na') /\ na'.statics = na.statics
    <2>1. PICK t : t = na
      OBVIOUS
    <2>2. PICK u : u = na'
      OBVIOUS
    <2>3. PICK c : c = clean_expired_na(t, E)
      OBVIOUS
    <2>4. E \in SUBSET Duids /\ NaFitsBut(t, NoDuid, NoMac6)
      BY <2>1 DEF MayExpire, LeaseIInv, NaFits
    <2>5. NaFits(c) /\ c.statics = t.statics
      BY <2>3, <2>4, CleanFits DEF NaFits
    <2>6. c.slaac \ A \in SUBSET Suffixes
      BY <2>5, NaFields DEF NaFits, NaFitsBut
    <2>7. u = [leases |-> c.leases, owners |-> c.owners, statics |-> c.statics, slaac |-> c.slaac \ A]
      BY <1>0, <2>1, <2>2, <2>3
    <2>8. NaFits(u) /\ u.statics = c.statics
      BY <2>5, <2>6, <2>7, SlaacFits
    <2> QED BY <2>1, <2>2, <2>5, <2>8
  <1>2. StoreInv'
    BY StoreKept DEF handle_expire_tick, LeaseIInv, unrelated
  <1>3. PdInv'
    <2>1. UNCHANGED << parent, serving >> /\ serving = "running" /\ PdInv
      BY DEF handle_expire_tick, LeaseIInv, unrelated, Running
    <2> QED BY <1>0, <2>1, PdReleaseStep
  <1> QED BY <1>1, <1>2, <1>3 DEF LeaseIInv

\* Every route is of the parent that is left, so that none stays.
LEMMA PrefixStep ==
  ASSUME LeaseIInv, PrefixChanges
  PROVE  LeaseIInv' /\ na' = na
  <1>0. PICK a \in (Parents \cup {0}) \ {parent} :
          /\ parent' = a
          /\ pd' = [leases |-> [d \in Duids |-> IF Stale(d, a) THEN [slot |-> pd.leases[d].slot, route |-> 0] ELSE pd.leases[d]],
                    owners |-> pd.owners]
          /\ pdRoutes' = pdRoutes \ {<< pd.leases[d].route, pd.leases[d].slot >> : d \in {x \in Duids : Stale(x, a)}}
    BY DEF PrefixChanges
  <1>u. serving = "running" /\ serving' = serving /\ na' = na
    BY DEF PrefixChanges, unrelated, Running
  <1>i. PdFits(pd) /\ parent \in Parents \cup {0} /\ pdRoutes = RouteSet(pd) /\ RoutesOn(pd, parent)
    BY DEF LeaseIInv, PdInv
  <1>1. StoreInv'
    BY StoreKept DEF PrefixChanges, LeaseIInv, unrelated
  <1>2. PdInv'
    <2>1. PICK p : p = pd
      OBVIOUS
    <2>2. PICK q : q = pd'
      OBVIOUS
    <2>f. /\ p.leases \in [Duids -> PdRecords] /\ p.owners \in [PdSlots -> Duids \cup {NoDuid}]
          /\ \A d \in Duids : p.leases[d].slot \in PdSlots \cup {0} /\ p.leases[d].route \in Parents \cup {0}
      BY <1>i, <2>1, PdFields DEF PdFits
    <2>3. \A d \in Duids : Stale(d, a) <=> p.leases[d].route # 0
      BY <1>i, <2>1 DEF Stale, RoutesOn
    <2>4. /\ q = [leases |-> [d \in Duids |-> IF p.leases[d].route # 0 THEN [slot |-> p.leases[d].slot, route |-> 0] ELSE p.leases[d]],
                  owners |-> p.owners]
      BY <1>0, <2>1, <2>2, <2>3
    <2>5. ASSUME NEW d \in Duids
          PROVE  q.leases[d] \in PdRecords /\ q.leases[d].slot = p.leases[d].slot /\ q.leases[d].route = 0
      BY <2>4, <2>f DEF PdRecords
    <2>6. /\ q.leases \in [Duids -> PdRecords] /\ q.owners = p.owners
          /\ q = [leases |-> q.leases, owners |-> q.owners]
      BY <2>4, <2>5
    <2>7. PdFits(q)
      <3>1. q \in PdTables
        BY <2>6, <2>f, PdMade
      <3> QED BY <3>1, <2>5, <2>6, <2>f, <1>i, <2>1 DEF PdFits
    <2>8. RouteSet(q) = {} /\ RoutesOn(q, a)
      BY <2>5 DEF RouteSet, RoutesOn
    <2>9. pdRoutes' = {}
      BY <1>0, <1>i, <2>1, <2>3 DEF RouteSet
    <2> QED BY <1>0, <1>u, <2>2, <2>7, <2>8, <2>9 DEF PdInv
  <1> QED BY <1>1, <1>2, <1>u DEF LeaseIInv

\* A server that starts has no leases, and the bindings of the store.
LEMMA StartLeasesStep ==
  ASSUME LeaseIInv, ServerStarts
  PROVE  LeaseIInv' /\ na'.statics = enrolled
  <1>1. NaFits(na') /\ na'.statics = enrolled
    <2>1. NaFits(NewStatus(enrolled)) /\ NewStatus(enrolled).statics = enrolled
      BY NewStatusFits DEF LeaseIInv, StoreInv
    <2> QED BY <2>1 DEF ServerStarts
  <1>2. StoreInv'
    BY DEF ServerStarts, LeaseIInv, StoreInv, DistinctSuffixes
  <1>3. PdInv'
    <2>1. pd' = NoPd /\ pdRoutes' = {} /\ parent' = parent /\ serving' = "starting" /\ parent \in Parents \cup {0}
      BY DEF ServerStarts, LeaseIInv, PdInv
    <2> QED BY <2>1, NoPdFits DEF PdInv
  <1> QED BY <1>1, <1>2, <1>3 DEF LeaseIInv

\* Publication changes no table.
LEMMA PublishStep ==
  ASSUME LeaseIInv, ServerPublished
  PROVE  LeaseIInv' /\ na' = na
  <1>1. StoreInv'
    BY DEF ServerPublished, LeaseIInv, StoreInv, DistinctSuffixes
  <1>2. PdInv'
    BY DEF ServerPublished, LeaseIInv, PdInv
  <1> QED BY <1>1, <1>2 DEF ServerPublished, LeaseIInv

\* drain_all_pd_routes reports every route there is.
LEMMA StopLeasesStep ==
  ASSUME LeaseIInv, ServerStops
  PROVE  LeaseIInv'
  <1>1. NaFits(na')
    BY NoDevices, NewStatusFits DEF ServerStops
  <1>2. StoreInv'
    BY DEF ServerStops, LeaseIInv, StoreInv, DistinctSuffixes
  <1>3. PdInv'
    <2>1. PdFits(pd) /\ parent \in Parents \cup {0} /\ RoutesOn(pd, parent) /\ pdRoutes = RouteSet(pd)
      BY DEF LeaseIInv, PdInv
    <2>2. pdRoutes \ ReleasedRoutes(Duids) = RouteSet(PdReleases(pd, Duids))
      BY <2>1, ReleasedRoutesAre
    <2>3. RouteSet(PdReleases(pd, Duids)) = {}
      <3>1. \A d \in Duids : PdReleases(pd, Duids).leases[d] = NoPdLease
        BY <2>1, PdReleasesFits
      <3> QED BY <3>1, PdSets DEF RouteSet
    <2>4. pd' = NoPd /\ pdRoutes' = {} /\ parent' = parent /\ serving' = "off"
      BY <2>2, <2>3 DEF ServerStops
    <2> QED BY <2>1, <2>4, NoPdFits DEF PdInv
  <1> QED BY <1>1, <1>2, <1>3 DEF LeaseIInv

\* One edit of the store and the event that tells of it.
StoreEdit(f, g, e) ==
  \E old \in ClientMacs \cup {NoMac6}, new \in ClientMacs \cup {NoMac6}, s \in Suffixes :
    /\ old # NoMac6 \/ new # NoMac6
    /\ old # NoMac6 => f[old] # 0
    /\ new # NoMac6 => (new = old \/ f[new] = 0) /\ \A m \in ClientMacs \ {old} : f[m] # s
    /\ g = [m \in ClientMacs |-> IF m = new THEN s ELSE IF m = old THEN 0 ELSE f[m]]
    /\ e = [old |-> old, new |-> new, suffix |-> IF new = NoMac6 THEN 0 ELSE s]

\* An edit leaves every suffix to one device.
LEMMA StoreEditFits ==
  ASSUME NEW f \in [ClientMacs -> Suffixes \cup {0}], DistinctSuffixes(f), NEW g, NEW e, StoreEdit(f, g, e)
  PROVE  g \in [ClientMacs -> Suffixes \cup {0}] /\ DistinctSuffixes(g) /\ e \in DeviceEvents
  <1>1. PICK old \in ClientMacs \cup {NoMac6}, new \in ClientMacs \cup {NoMac6}, s \in Suffixes :
          /\ old # NoMac6 \/ new # NoMac6
          /\ old # NoMac6 => f[old] # 0
          /\ new # NoMac6 => (new = old \/ f[new] = 0) /\ \A m \in ClientMacs \ {old} : f[m] # s
          /\ g = [m \in ClientMacs |-> IF m = new THEN s ELSE IF m = old THEN 0 ELSE f[m]]
          /\ e = [old |-> old, new |-> new, suffix |-> IF new = NoMac6 THEN 0 ELSE s]
    BY DEF StoreEdit
  <1>2. g \in [ClientMacs -> Suffixes \cup {0}]
    BY <1>1
  <1>3. DistinctSuffixes(g)
    BY <1>1, NaRecords DEF DistinctSuffixes
  <1>4. e \in DeviceEvents
    BY <1>1 DEF DeviceEvents
  <1> QED BY <1>2, <1>3, <1>4

\* An edit reaches the store and the queue.
LEMMA EditStep ==
  ASSUME LeaseIInv, DeviceEdited
  PROVE  LeaseIInv' /\ na' = na
  <1>1. PICK e : StoreEdit(enrolled, enrolled', e) /\ devQueue' = Append(devQueue, e)
    BY DEF DeviceEdited, StoreEdit
  <1>2. PICK g : g = enrolled'
    OBVIOUS
  <1>3. g \in [ClientMacs -> Suffixes \cup {0}] /\ DistinctSuffixes(g) /\ e \in DeviceEvents
    BY <1>1, <1>2, StoreEditFits DEF LeaseIInv, StoreInv
  <1>4. devQueue' \in Seq(DeviceEvents) /\ Len(devQueue') <= DeviceQueue
    BY <1>1, <1>3, LeaseConstants DEF DeviceEdited, LeaseIInv, StoreInv
  <1>5. StoreInv'
    BY <1>2, <1>3, <1>4 DEF DeviceEdited, LeaseIInv, StoreInv
  <1>6. PdInv'
    BY DEF DeviceEdited, LeaseIInv, PdInv
  <1> QED BY <1>5, <1>6 DEF DeviceEdited, LeaseIInv

\* The observer's step.
LEMMA ObserveStep ==
  ASSUME LeaseIInv, ObserverApplies
  PROVE  LeaseIInv'
  <1>0. devQueue # << >> /\ devQueue' = Tail(devQueue) /\ devQueue \in Seq(DeviceEvents) /\ Len(devQueue) <= DeviceQueue
    BY DEF ObserverApplies, LeaseIInv, StoreInv
  <1>1. Head(devQueue) \in DeviceEvents /\ devQueue' \in Seq(DeviceEvents) /\ Len(devQueue') <= DeviceQueue
    BY <1>0, LeaseConstants
  <1>2. PICK e \in DeviceEvents : e = Head(devQueue)
    BY <1>1
  <1>3. NaFits(na')
    <2>1. CASE ~Running
      BY <2>1 DEF ObserverApplies, LeaseIInv
    <2>2. CASE Running
      <3>1. PICK E \in MayExpire(na) : na' \in Applied(na, e, E)
        BY <2>2, <1>2 DEF ObserverApplies
      <3>2. E \in SUBSET Duids
        BY DEF MayExpire
      <3>3. PICK t : t = na
        OBVIOUS
      <3>4. PICK u : u = na'
        OBVIOUS
      <3>5. NaFits(t) /\ u \in Applied(t, e, E)
        BY <3>1, <3>3, <3>4 DEF LeaseIInv
      <3>6. NaFits(u)
        BY <3>2, <3>5, AppliedFits
      <3> QED BY <3>4, <3>6
    <2> QED BY <2>1, <2>2
  <1>4. missedMacs' \subseteq ClientMacs
    <2>1. missedMacs' \subseteq missedMacs \cup ({e.old, e.new} \ {NoMac6})
      BY <1>2 DEF ObserverApplies, RefusedForMissed
    <2> QED BY <2>1 DEF LeaseIInv, StoreInv, DeviceEvents
  <1>5. StoreInv'
    BY <1>1, <1>4 DEF ObserverApplies, LeaseIInv, StoreInv, DistinctSuffixes
  <1>6. PdInv'
    BY DEF ObserverApplies, LeaseIInv, PdInv
  <1> QED BY <1>3, <1>5, <1>6 DEF LeaseIInv

\* Every step preserves the invariant.
LEMMA LeaseInductive == LeaseIInv /\ [LeaseNext]_leaseVars => LeaseIInv'
  <1> SUFFICES ASSUME LeaseIInv, [LeaseNext]_leaseVars PROVE LeaseIInv'
    OBVIOUS
  <1>1. CASE Messages
    <2>1. ASSUME NEW d \in Duids, NEW m \in ClientMacs, NEW w \in BOOLEAN, NEW z \in BOOLEAN,
                 handle_solicit(d, m, w, z) \/ handle_request_or_renew(d, m, w, z)
          PROVE  LeaseIInv'
      BY <2>1, SolicitStep, RequestLeaseStep
    <2>2. ASSUME NEW d \in Duids, handle_release(d) \/ handle_decline(d) PROVE LeaseIInv'
      BY <2>2, ReleaseLeaseStep, DeclineLeaseStep
    <2>3. ASSUME NEW s \in Suffixes, record_slaac_addr(s) PROVE LeaseIInv'
      BY <2>3, SlaacStep
    <2> QED BY <1>1, <2>1, <2>2, <2>3 DEF Messages
  <1>2. CASE handle_expire_tick
    BY <1>2, ExpireStep
  <1>3. CASE PrefixChanges
    BY <1>3, PrefixStep
  <1>4. CASE ServerStarts
    BY <1>4, StartLeasesStep
  <1>5. CASE ServerPublished
    BY <1>5, PublishStep
  <1>6. CASE ServerStops
    BY <1>6, StopLeasesStep
  <1>7. CASE DeviceEdited
    BY <1>7, EditStep
  <1>8. CASE ObserverApplies
    BY <1>8, ObserveStep
  <1>9. CASE UNCHANGED leaseVars
    BY <1>9 DEF leaseVars, LeaseIInv, PdInv, StoreInv, DistinctSuffixes
  <1> QED BY <1>1, <1>2, <1>3, <1>4, <1>5, <1>6, <1>7, <1>8, <1>9 DEF LeaseNext

\* DHCPv6 server: for any clients, devices, pool, slots and bounds, the lease tables, the owner
\* tables and the installed routes agree in every state, and no address is leased twice.
THEOREM LeasesSound == LeaseSpec => []LeaseInv
  <1>1. LeaseSpec => []LeaseIInv
    BY LeaseStarts, LeaseInductive, PTL DEF LeaseSpec
  <1> QED BY <1>1, LeaseEnds, PTL

(***************************************************************************)
(* LanIpv6Leases: the bindings follow the device store.  While events wait *)
(* the bindings may be those of different versions of the store, so that   *)
(* the invariant speaks of all versions since the first waiting event.     *)
(***************************************************************************)
\* The event is about m.
Touches(e, m) == m = e.old \/ m = e.new

\* V[i] is the store before the i-th of the waiting events; the last one is the present store.
Versions(V, q, f) ==
  /\ V \in [0 .. Len(q) -> [ClientMacs -> Suffixes \cup {0}]]
  /\ V[Len(q)] = f
  /\ \A i \in 0 .. Len(q) : DistinctSuffixes(V[i])
  /\ \A i \in 1 .. Len(q) : StoreEdit(V[i - 1], V[i], q[i])
  /\ \A i, j \in 0 .. Len(q), m \in ClientMacs :
       i <= j /\ V[i][m] # V[j][m] => \E k \in (i + 1) .. j : Touches(q[k], m)

\* The binding of m is that of some version, or it was taken away and a waiting event is about m.
LooksBack(S, V, q, m) ==
  \/ S[m] = 0 /\ \E k \in 1 .. Len(q) : Touches(q[k], m)
  \/ \E i \in 0 .. Len(q) : S[m] = V[i][m]

\* With this the bindings follow: no MAC is behind that the server has not missed.
FollowIInv ==
  \E V : /\ Versions(V, devQueue, enrolled)
         /\ serving # "off" => \A m \in ClientMacs \ missedMacs : LooksBack(na.statics, V, devQueue, m)

\* The first event leaves the queue.
Shifted(V, q) == [i \in 0 .. (Len(q) - 1) |-> V[i + 1]]

\* The versions of the rest are those from the second on.
LEMMA VersionsShift ==
  ASSUME NEW q \in Seq(DeviceEvents), q # << >>, NEW f, NEW V, Versions(V, q, f)
  PROVE  Versions(Shifted(V, q), Tail(q), f)
  <1>1. PICK n \in Nat : n = Len(q) /\ n >= 1
    OBVIOUS
  <1>2. Len(Tail(q)) = n - 1 /\ \A i \in 1 .. (n - 1) : Tail(q)[i] = q[i + 1]
    BY <1>1
  <1>3. PICK W : W = Shifted(V, q)
    OBVIOUS
  <1>4. \A i \in 0 .. (n - 1) : W[i] = V[i + 1] /\ i + 1 \in 0 .. n
    BY <1>1, <1>3 DEF Shifted
  <1>5. W \in [0 .. (n - 1) -> [ClientMacs -> Suffixes \cup {0}]]
    BY <1>1, <1>3, <1>4 DEF Shifted, Versions
  <1>6. W[n - 1] = f
    BY <1>1, <1>4 DEF Versions
  <1>7. \A i \in 0 .. (n - 1) : DistinctSuffixes(W[i])
    BY <1>1, <1>4 DEF Versions
  <1>8. ASSUME NEW i \in 1 .. (n - 1) PROVE StoreEdit(W[i - 1], W[i], Tail(q)[i])
    <2>1. i + 1 \in 1 .. n /\ (i + 1) - 1 = i /\ i - 1 \in 0 .. (n - 1) /\ (i - 1) + 1 = i
      BY <1>1
    <2>2. StoreEdit(V[i], V[i + 1], q[i + 1])
      BY <2>1, <1>1 DEF Versions
    <2>3. W[i - 1] = V[i] /\ W[i] = V[i + 1]
      BY <2>1, <1>4
    <2> QED BY <2>2, <2>3, <1>2
  <1>9. ASSUME NEW i \in 0 .. (n - 1), NEW j \in 0 .. (n - 1), NEW m \in ClientMacs, i <= j, W[i][m] # W[j][m]
        PROVE  \E k \in (i + 1) .. j : Touches(Tail(q)[k], m)
    <2>1. V[i + 1][m] # V[j + 1][m] /\ i + 1 \in 0 .. n /\ j + 1 \in 0 .. n /\ i + 1 <= j + 1
      BY <1>4, <1>9
    <2>2. PICK k \in ((i + 1) + 1) .. (j + 1) : Touches(q[k], m)
      BY <2>1, <1>1 DEF Versions
    <2>3. k - 1 \in (i + 1) .. j /\ k - 1 \in 1 .. (n - 1) /\ (k - 1) + 1 = k
      BY <1>1
    <2>4. Tail(q)[k - 1] = q[k]
      BY <2>3, <1>2
    <2> QED BY <2>2, <2>3, <2>4
  <1> QED BY <1>2, <1>3, <1>5, <1>6, <1>7, <1>8, <1>9 DEF Versions

\* An event joins the queue.
Extended(V, q, g) == [i \in 0 .. (Len(q) + 1) |-> IF i <= Len(q) THEN V[i] ELSE g]

\* The new store is a further version.
LEMMA VersionsExtend ==
  ASSUME NEW q \in Seq(DeviceEvents), NEW f, NEW V, Versions(V, q, f), DistinctSuffixes(f),
         NEW g \in [ClientMacs -> Suffixes \cup {0}], NEW e \in DeviceEvents, StoreEdit(f, g, e), DistinctSuffixes(g)
  PROVE  Versions(Extended(V, q, g), Append(q, e), g)
  <1>1. PICK n \in Nat : n = Len(q)
    OBVIOUS
  <1>2. Len(Append(q, e)) = n + 1 /\ Append(q, e)[n + 1] = e /\ \A i \in 1 .. n : Append(q, e)[i] = q[i]
    BY <1>1
  <1>3. PICK W : W = Extended(V, q, g)
    OBVIOUS
  <1>4. (\A i \in 0 .. n : W[i] = V[i]) /\ W[n + 1] = g
    BY <1>1, <1>3 DEF Extended
  <1>5. W \in [0 .. (n + 1) -> [ClientMacs -> Suffixes \cup {0}]]
    BY <1>1, <1>3 DEF Extended, Versions
  <1>6. \A i \in 0 .. (n + 1) : DistinctSuffixes(W[i])
    BY <1>1, <1>4 DEF Versions
  <1>7. ASSUME NEW i \in 1 .. (n + 1) PROVE StoreEdit(W[i - 1], W[i], Append(q, e)[i])
    <2>1. CASE i = n + 1
      <3>1. W[i - 1] = f /\ W[i] = g
        BY <2>1, <1>1, <1>4 DEF Versions
      <3> QED BY <3>1, <2>1, <1>2
    <2>2. CASE i # n + 1
      <3>1. i \in 1 .. n /\ i \in 0 .. n /\ i - 1 \in 0 .. n
        BY <2>2
      <3>2. StoreEdit(V[i - 1], V[i], q[i])
        BY <3>1, <1>1 DEF Versions
      <3> QED BY <3>1, <3>2, <1>2, <1>4
    <2> QED BY <2>1, <2>2
  <1>8. \A m \in ClientMacs : f[m] # g[m] => Touches(e, m)
    BY DEF StoreEdit, Touches
  <1>9. ASSUME NEW i \in 0 .. (n + 1), NEW j \in 0 .. (n + 1), NEW m \in ClientMacs, i <= j, W[i][m] # W[j][m]
        PROVE  \E k \in (i + 1) .. j : Touches(Append(q, e)[k], m)
    <2>1. CASE j <= n
      <3>1. V[i][m] # V[j][m] /\ i \in 0 .. n /\ j \in 0 .. n
        BY <2>1, <1>4, <1>9
      <3>2. PICK k \in (i + 1) .. j : Touches(q[k], m)
        BY <3>1, <1>1, <1>9 DEF Versions
      <3>3. k \in 1 .. n
        BY <3>1
      <3> QED BY <3>2, <3>3, <1>2
    <2>2. CASE j = n + 1 /\ Touches(e, m)
      <3>1. i <= n
        BY <2>2, <1>9
      <3>2. n + 1 \in (i + 1) .. j
        BY <2>2, <3>1
      <3> QED BY <2>2, <3>2, <1>2
    <2>3. CASE j = n + 1 /\ ~Touches(e, m)
      <3>1. f[m] = g[m] /\ V[n] = f /\ W[j] = g
        BY <2>3, <1>8, <1>1, <1>4 DEF Versions
      <3>2. i \in 0 .. n
        BY <1>9, <2>3
      <3>3. V[i][m] # V[n][m] /\ i <= n
        BY <3>1, <3>2, <1>4, <1>9
      <3>4. PICK k \in (i + 1) .. n : Touches(q[k], m)
        <4>1. \A x, y \in 0 .. n, w \in ClientMacs :
                x <= y /\ V[x][w] # V[y][w] => \E k \in (x + 1) .. y : Touches(q[k], w)
          BY <1>1 DEF Versions
        <4>2. n \in 0 .. n
          BY <1>1
        <4> QED BY ONLY <3>2, <3>3, <4>1, <4>2, m \in ClientMacs
      <3>5. k \in 1 .. n /\ k \in (i + 1) .. j
        BY <3>2, <2>3
      <3> QED BY <3>4, <3>5, <1>2
    <2>4. j <= n \/ j = n + 1
      BY SMT
    <2> QED BY <2>1, <2>2, <2>3, <2>4, Zenon
  <1> QED BY <1>2, <1>3, <1>4, <1>5, <1>6, <1>7, <1>9 DEF Versions

\* What looked back still does.
LEMMA LooksBackExtend ==
  ASSUME NEW q \in Seq(DeviceEvents), NEW V, NEW g, NEW e, NEW S, NEW m \in ClientMacs, LooksBack(S, V, q, m)
  PROVE  LooksBack(S, Extended(V, q, g), Append(q, e), m)
  <1>1. PICK n \in Nat : n = Len(q)
    OBVIOUS
  <1>2. Len(Append(q, e)) = n + 1 /\ \A i \in 1 .. n : Append(q, e)[i] = q[i] /\ i \in 1 .. (n + 1)
    BY <1>1
  <1>3. \A i \in 0 .. n : Extended(V, q, g)[i] = V[i] /\ i \in 0 .. (n + 1)
    BY <1>1 DEF Extended
  <1> QED BY <1>1, <1>2, <1>3 DEF LooksBack

\* A MAC the first event is not about looks back on the rest of the queue as it did.
LEMMA LooksBackShift ==
  ASSUME NEW q \in Seq(DeviceEvents), q # << >>, NEW f, NEW V, Versions(V, q, f), NEW S, NEW T,
         NEW m \in ClientMacs, ~Touches(q[1], m), T[m] = S[m], LooksBack(S, V, q, m)
  PROVE  LooksBack(T, Shifted(V, q), Tail(q), m)
  <1>1. PICK n \in Nat : n = Len(q) /\ n >= 1
    OBVIOUS
  <1>2. Len(Tail(q)) = n - 1 /\ \A i \in 1 .. (n - 1) : Tail(q)[i] = q[i + 1]
    BY <1>1
  <1>3. \A i \in 0 .. (n - 1) : Shifted(V, q)[i] = V[i + 1]
    BY <1>1 DEF Shifted
  <1>4. CASE S[m] = 0 /\ \E k \in 1 .. Len(q) : Touches(q[k], m)
    <2>1. PICK k \in 1 .. n : Touches(q[k], m)
      BY <1>4, <1>1
    <2>2. k # 1
      BY <2>1
    <2>3. k - 1 \in 1 .. (n - 1) /\ (k - 1) + 1 = k
      BY <2>2
    <2>4. Touches(Tail(q)[k - 1], m)
      BY <2>1, <2>3, <1>2
    <2> QED BY <1>4, <2>3, <2>4, <1>2 DEF LooksBack
  <1>5. CASE \E i \in 0 .. Len(q) : S[m] = V[i][m]
    <2>1. PICK i \in 0 .. n : S[m] = V[i][m]
      BY <1>5, <1>1
    <2>2. V[0][m] = V[1][m]
      <3>1. 0 \in 0 .. n /\ 1 \in 0 .. n
        BY <1>1
      <3>2. V[0][m] # V[1][m] => \E k \in (0 + 1) .. 1 : Touches(q[k], m)
        BY <3>1, <1>1 DEF Versions
      <3>3. \A k \in (0 + 1) .. 1 : k = 1
        OBVIOUS
      <3> QED BY <3>2, <3>3
    <2>3. PICK j \in 0 .. (n - 1) : S[m] = V[j + 1][m]
      <3>1. CASE i = 0
        <4>1. 0 \in 0 .. (n - 1) /\ 0 + 1 = 1
          BY <1>1
        <4> QED BY <4>1, <3>1, <2>1, <2>2
      <3>2. CASE i # 0
        <4>1. i - 1 \in 0 .. (n - 1) /\ (i - 1) + 1 = i
          BY <3>2
        <4> QED BY <4>1, <2>1
      <3> QED BY <3>1, <3>2
    <2> QED BY <2>3, <1>2, <1>3 DEF LooksBack
  <1> QED BY <1>4, <1>5 DEF LooksBack

\* What the first event left of a MAC it is about, and what it did not get to.
LEMMA FirstEvent ==
  ASSUME NEW q \in Seq(DeviceEvents), q # << >>, NEW f, NEW V, Versions(V, q, f), NEW e, e = q[1]
  PROVE  /\ e.old # NoMac6 /\ e.old # e.new => e.old \in ClientMacs /\ V[1][e.old] = 0
         /\ e.new # NoMac6 => /\ e.new \in ClientMacs /\ V[1][e.new] = e.suffix /\ e.suffix \in Suffixes
                              /\ e.new # e.old => V[0][e.new] = 0
                              /\ \A x \in ClientMacs : x # e.old => V[0][x] # e.suffix
  <1>1. 1 \in 1 .. Len(q) /\ 1 - 1 = 0
    OBVIOUS
  <1>2. StoreEdit(V[0], V[1], e)
    BY <1>1 DEF Versions
  <1> QED BY <1>2, NaRecords DEF StoreEdit

\* Another MAC that is not behind has the suffix: it got it from a later version, in which the new
\* MAC has it no more, so that a waiting event is about the new MAC.
LEMMA RefusedIsLate ==
  ASSUME NEW q \in Seq(DeviceEvents), q # << >>, NEW f, NEW V, Versions(V, q, f), NEW e, e = q[1],
         NEW m \in ClientMacs, m = e.new, NEW S, NEW x \in ClientMacs, x # e.old, x # m, S[x] = e.suffix,
         LooksBack(S, V, q, x)
  PROVE  \E k \in 1 .. Len(Tail(q)) : Touches(Tail(q)[k], m)
  <1>1. PICK n \in Nat : n = Len(q) /\ n >= 1
    OBVIOUS
  <1>2. Len(Tail(q)) = n - 1 /\ \A i \in 1 .. (n - 1) : Tail(q)[i] = q[i + 1]
    BY <1>1
  <1>3. V[1][m] = e.suffix /\ e.suffix \in Suffixes /\ e.suffix # 0 /\ V[0][x] # e.suffix
    BY FirstEvent, NaRecords
  <1>4. PICK i \in 0 .. n : V[i][x] = e.suffix
    BY <1>1, <1>3 DEF LooksBack
  <1>5. i # 0
    BY <1>3, <1>4
  <1>6. V[i][m] # e.suffix
    <2>1. DistinctSuffixes(V[i])
      BY <1>1 DEF Versions
    <2> QED BY <2>1, <1>3, <1>4 DEF DistinctSuffixes
  <1>7. PICK k \in (1 + 1) .. i : Touches(q[k], m)
    <2>1. 1 \in 0 .. n /\ 1 <= i /\ V[1][m] # V[i][m]
      BY <1>1, <1>3, <1>5, <1>6
    <2> QED BY <2>1, <1>1 DEF Versions
  <1>8. k - 1 \in 1 .. (n - 1) /\ (k - 1) + 1 = k
    OBVIOUS
  <1>9. Touches(Tail(q)[k - 1], m)
    BY <1>2, <1>7, <1>8
  <1> QED BY <1>2, <1>8, <1>9

\* The observer applies the first event to a running server.
AppliedTo(S, T, e) ==
  \/ e.new = NoMac6 /\ T = Cleared(S, e.old)
  \/ e.new # NoMac6 /\ T = Rebound(S, e)
  \/ /\ e.new # NoMac6 /\ T = Cleared(S, e.old)
     /\ \E x \in ClientMacs : x # e.new /\ x # e.old /\ S[x] = e.suffix

\* Every MAC that is not missed looks back on the rest of the queue.
LEMMA AppliedFollows ==
  ASSUME NEW q \in Seq(DeviceEvents), q # << >>, NEW f, NEW V, Versions(V, q, f), NEW e, e = q[1],
         NEW S, NEW T, AppliedTo(S, T, e), NEW M, NEW N, M \subseteq N,
         e.new # NoMac6 /\ (\E x \in M \ {e.old, e.new} : S[x] = e.suffix) => e.new \in N,
         \A m \in ClientMacs \ M : LooksBack(S, V, q, m)
  PROVE  \A m \in ClientMacs \ N : LooksBack(T, Shifted(V, q), Tail(q), m)
  <1> SUFFICES ASSUME NEW m \in ClientMacs, m \notin N PROVE LooksBack(T, Shifted(V, q), Tail(q), m)
    OBVIOUS
  <1>1. PICK n \in Nat : n = Len(q) /\ n >= 1
    OBVIOUS
  <1>2. Len(Tail(q)) = n - 1 /\ 0 \in 0 .. (n - 1)
    BY <1>1
  <1>3. \A i \in 0 .. (n - 1) : Shifted(V, q)[i] = V[i + 1]
    BY <1>1 DEF Shifted
  <1>4. Shifted(V, q)[0] = V[1]
    <2>1. 0 + 1 = 1
      OBVIOUS
    <2> QED BY <1>2, <1>3, <2>1
  <1>5. LooksBack(S, V, q, m)
    OBVIOUS
  <1>6. CASE ~Touches(q[1], m)
    <2>1. T[m] = S[m]
      BY <1>6 DEF Touches, AppliedTo, Cleared, Rebound
    <2> QED BY <1>5, <1>6, <2>1, LooksBackShift
  <1>7. CASE m = e.old /\ m # e.new
    <2>1. T[m] = 0
      BY <1>7 DEF AppliedTo, Cleared, Rebound
    <2>2. V[1][m] = 0
      BY <1>7, FirstEvent, NaRecords
    <2> QED BY <2>1, <2>2, <1>2, <1>4 DEF LooksBack
  <1>8. CASE m = e.new
    <2>0. e.new # NoMac6
      BY <1>8, NaRecords
    <2>1. CASE T = Rebound(S, e)
      <3>1. T[m] = V[1][m]
        BY <1>8, <2>0, <2>1, FirstEvent DEF Rebound
      <3> QED BY <3>1, <1>2, <1>4 DEF LooksBack
    <2>2. CASE T = Cleared(S, e.old) /\ \E x \in ClientMacs : x # e.new /\ x # e.old /\ S[x] = e.suffix
      <3>1. PICK x \in ClientMacs : x # e.new /\ x # e.old /\ S[x] = e.suffix
        BY <2>2
      <3>2. x \notin M
        BY <3>1, <1>8, <2>0
      <3>3. LooksBack(S, V, q, x)
        BY <3>2
      <3>4. \E k \in 1 .. Len(Tail(q)) : Touches(Tail(q)[k], m)
        BY <3>1, <3>3, <1>8, RefusedIsLate
      <3>5. CASE T[m] = 0
        BY <3>4, <3>5 DEF LooksBack
      <3>6. CASE T[m] # 0
        <4>1. m # e.old /\ T[m] = S[m]
          BY <2>2, <3>6 DEF Cleared
        <4>2. PICK i \in 0 .. n : S[m] = V[i][m]
          BY <1>5, <3>6, <4>1, <1>1 DEF LooksBack
        <4>3. V[0][m] = 0
          BY <1>8, <2>0, <4>1, FirstEvent
        <4>4. i # 0
          BY <3>6, <4>1, <4>2, <4>3
        <4>5. i - 1 \in 0 .. (n - 1) /\ (i - 1) + 1 = i
          BY <4>4
        <4>6. T[m] = Shifted(V, q)[i - 1][m]
          BY <4>1, <4>2, <4>5, <1>3
        <4> QED BY <4>5, <4>6, <1>2 DEF LooksBack
      <3> QED BY <3>5, <3>6
    <2> QED BY <2>0, <2>1, <2>2 DEF AppliedTo
  <1> QED BY <1>6, <1>7, <1>8 DEF Touches

\* The observer's step, with the server off, starting or running.
LEMMA ObserveFollows ==
  ASSUME LeaseIInv, FollowIInv, ObserverApplies
  PROVE  FollowIInv'
  <1>0. PICK V : /\ Versions(V, devQueue, enrolled)
                 /\ serving # "off" => \A m \in ClientMacs \ missedMacs : LooksBack(na.statics, V, devQueue, m)
    BY DEF FollowIInv
  <1>1. PICK q \in Seq(DeviceEvents) : q = devQueue /\ q # << >>
    BY DEF ObserverApplies, LeaseIInv, StoreInv
  <1>2. PICK f : f = enrolled
    OBVIOUS
  <1>3. PICK e \in DeviceEvents : e = q[1] /\ e = Head(devQueue)
    BY <1>1
  <1>4. devQueue' = Tail(q) /\ enrolled' = f /\ serving' = serving
    BY <1>1, <1>2 DEF ObserverApplies
  <1>5. Versions(V, q, f)
    BY <1>0, <1>1, <1>2
  <1>6. PICK W : W = Shifted(V, q)
    OBVIOUS
  <1>7. Versions(W, Tail(q), f)
    BY <1>1, <1>5, <1>6, VersionsShift
  <1>8. PICK S : S = na.statics
    OBVIOUS
  <1>9. PICK T : T = na'.statics
    OBVIOUS
  <1>10. PICK M, N : M = missedMacs /\ N = missedMacs'
    OBVIOUS
  <1>11. serving # "off" => \A m \in ClientMacs \ M : LooksBack(S, V, q, m)
    BY <1>0, <1>1, <1>8, <1>10
  <1>12. serving # "off" => \A m \in ClientMacs \ N : LooksBack(T, W, Tail(q), m)
    <2>1. CASE serving = "starting"
      <3>1. N = M \cup ({e.old, e.new} \ {NoMac6}) /\ T = S
        BY <2>1, <1>3, <1>8, <1>9, <1>10 DEF ObserverApplies, Running
      <3>2. ASSUME NEW m \in ClientMacs, m \notin N PROVE LooksBack(T, W, Tail(q), m)
        <4>1. ~Touches(q[1], m) /\ m \notin M
          BY <3>1, <3>2, <1>3, NaRecords DEF Touches
        <4>2. LooksBack(S, V, q, m)
          BY <4>1, <1>11, <2>1
        <4> QED BY <4>1, <4>2, <3>1, <1>1, <1>5, <1>6, LooksBackShift
      <3> QED BY <3>2
    <2>2. CASE serving = "running"
      <3>1. PICK E \in MayExpire(na) : na' \in Applied(na, e, E)
        BY <2>2, <1>3 DEF ObserverApplies, Running
      <3>2. E \in SUBSET Duids
        BY DEF MayExpire
      <3>3. PICK t : t = na
        OBVIOUS
      <3>4. PICK u : u = na'
        OBVIOUS
      <3>5. NaFits(t) /\ u \in Applied(t, e, E)
        BY <3>1, <3>3, <3>4 DEF LeaseIInv
      <3>6. AppliedTo(S, T, e)
        BY <3>2, <3>3, <3>4, <3>5, <1>8, <1>9, AppliedFits DEF AppliedTo
      <3>7. N = M \cup IF e.new # NoMac6 /\ \E x \in M \ {e.old, e.new} : S[x] = e.suffix THEN {e.new} ELSE {}
        BY <2>2, <1>3, <1>8, <1>10 DEF ObserverApplies, Running, RefusedForMissed
      <3>8. M \subseteq N /\ (e.new # NoMac6 /\ (\E x \in M \ {e.old, e.new} : S[x] = e.suffix) => e.new \in N)
        BY <3>7
      <3>9. \A m \in ClientMacs \ M : LooksBack(S, V, q, m)
        BY <2>2, <1>11
      <3>10. \A m \in ClientMacs \ N : LooksBack(T, Shifted(V, q), Tail(q), m)
        BY <3>6, <3>8, <3>9, <1>1, <1>3, <1>5, AppliedFollows
      <3> QED BY <3>10, <1>6
    <2> QED BY <2>1, <2>2 DEF LeaseIInv, StoreInv
  <1> QED BY <1>4, <1>7, <1>9, <1>10, <1>12 DEF FollowIInv

\* An edit adds a version.
LEMMA EditFollows ==
  ASSUME LeaseIInv, FollowIInv, DeviceEdited
  PROVE  FollowIInv'
  <1>0. PICK V : /\ Versions(V, devQueue, enrolled)
                 /\ serving # "off" => \A m \in ClientMacs \ missedMacs : LooksBack(na.statics, V, devQueue, m)
    BY DEF FollowIInv
  <1>1. PICK e : StoreEdit(enrolled, enrolled', e) /\ devQueue' = Append(devQueue, e)
    BY DEF DeviceEdited, StoreEdit
  <1>2. PICK q \in Seq(DeviceEvents) : q = devQueue
    BY DEF LeaseIInv, StoreInv
  <1>3. PICK f \in [ClientMacs -> Suffixes \cup {0}] : f = enrolled /\ DistinctSuffixes(f)
    BY DEF LeaseIInv, StoreInv
  <1>4. PICK g : g = enrolled'
    OBVIOUS
  <1>5. StoreEdit(f, g, e)
    BY <1>1, <1>3, <1>4
  <1>6. g \in [ClientMacs -> Suffixes \cup {0}] /\ DistinctSuffixes(g) /\ e \in DeviceEvents
    BY <1>3, <1>5, StoreEditFits
  <1>7. PICK W : W = Extended(V, q, g)
    OBVIOUS
  <1>8. Versions(W, Append(q, e), g)
    BY <1>0, <1>2, <1>3, <1>5, <1>6, <1>7, VersionsExtend
  <1>9. PICK S : S = na.statics
    OBVIOUS
  <1>10. serving # "off" => \A m \in ClientMacs \ missedMacs : LooksBack(S, W, Append(q, e), m)
    <2>1. \A m \in ClientMacs : LooksBack(S, V, q, m) => LooksBack(S, W, Append(q, e), m)
      BY <1>7, LooksBackExtend
    <2>2. serving # "off" => \A m \in ClientMacs \ missedMacs : LooksBack(S, V, q, m)
      BY <1>0, <1>2, <1>9
    <2> QED BY <2>1, <2>2
  <1>11. devQueue' = Append(q, e) /\ na'.statics = S /\ serving' = serving /\ missedMacs' = missedMacs
    BY <1>1, <1>2, <1>9 DEF DeviceEdited
  <1> QED BY <1>4, <1>8, <1>10, <1>11 DEF FollowIInv

\* A server that starts reads the present store.
LEMMA StartFollows ==
  ASSUME LeaseIInv, FollowIInv, ServerStarts
  PROVE  FollowIInv'
  <1>0. PICK V : Versions(V, devQueue, enrolled)
    BY DEF FollowIInv
  <1>1. na'.statics = enrolled
    BY StartLeasesStep
  <1>2. PICK q \in Seq(DeviceEvents) : q = devQueue
    BY DEF LeaseIInv, StoreInv
  <1>3. PICK f : f = enrolled
    OBVIOUS
  <1>4. V[Len(q)] = f /\ Len(q) \in 0 .. Len(q)
    BY <1>0, <1>2, <1>3 DEF Versions
  <1>5. \A m \in ClientMacs : LooksBack(f, V, q, m)
    BY <1>4 DEF LooksBack
  <1>6. devQueue' = q /\ enrolled' = f /\ na'.statics = f
    BY <1>1, <1>2, <1>3 DEF ServerStarts
  <1>7. Versions(V, q, f)
    BY <1>0, <1>2, <1>3
  <1> QED BY <1>5, <1>6, <1>7 DEF FollowIInv

\* Every other step leaves the bindings, the store and its events alone, or ends the server.
LEMMA FollowKept ==
  ASSUME FollowIInv, UNCHANGED << enrolled, devQueue, missedMacs >>, na'.statics = na.statics,
         serving # "off" \/ serving' = "off"
  PROVE  FollowIInv'
  BY DEF FollowIInv

\* A server that is off has nothing to follow.
LEMMA StopFollows ==
  ASSUME FollowIInv, ServerStops
  PROVE  FollowIInv'
  BY DEF FollowIInv, ServerStops

\* Every step preserves it, given the tables agree.
LEMMA FollowInductive == LeaseIInv /\ FollowIInv /\ [LeaseNext]_leaseVars => FollowIInv'
  <1> SUFFICES ASSUME LeaseIInv, FollowIInv, [LeaseNext]_leaseVars PROVE FollowIInv'
    OBVIOUS
  <1>1. CASE Messages
    <2>1. UNCHANGED << enrolled, devQueue, serving, missedMacs >> /\ serving = "running"
      BY <1>1 DEF Messages, handle_solicit, handle_request_or_renew, handle_release, handle_decline, record_slaac_addr,
                  unrelated, Running
    <2>2. na'.statics = na.statics
      <3>1. ASSUME NEW d \in Duids, NEW m \in ClientMacs, NEW w \in BOOLEAN, NEW z \in BOOLEAN,
                   handle_solicit(d, m, w, z) \/ handle_request_or_renew(d, m, w, z)
            PROVE  na'.statics = na.statics
        BY <3>1, SolicitStep, RequestLeaseStep
      <3>2. ASSUME NEW d \in Duids, handle_release(d) \/ handle_decline(d) PROVE na'.statics = na.statics
        BY <3>2, ReleaseLeaseStep, DeclineLeaseStep
      <3>3. ASSUME NEW s \in Suffixes, record_slaac_addr(s) PROVE na'.statics = na.statics
        BY <3>3, SlaacStep
      <3> QED BY <1>1, <3>1, <3>2, <3>3 DEF Messages
    <2> QED BY <2>1, <2>2, FollowKept
  <1>2. CASE handle_expire_tick
    <2>1. UNCHANGED << enrolled, devQueue, serving, missedMacs >> /\ serving = "running"
      BY <1>2 DEF handle_expire_tick, unrelated, Running
    <2> QED BY <1>2, <2>1, ExpireStep, FollowKept
  <1>3. CASE PrefixChanges
    <2>1. UNCHANGED << na, enrolled, devQueue, serving, missedMacs >> /\ serving = "running"
      BY <1>3 DEF PrefixChanges, unrelated, Running
    <2> QED BY <2>1, FollowKept
  <1>4. CASE ServerStarts
    BY <1>4, StartFollows
  <1>5. CASE ServerPublished
    <2>1. UNCHANGED << na, enrolled, devQueue, missedMacs >> /\ serving = "starting"
      BY <1>5 DEF ServerPublished
    <2> QED BY <2>1, FollowKept
  <1>6. CASE ServerStops
    BY <1>6, StopFollows
  <1>7. CASE DeviceEdited
    BY <1>7, EditFollows
  <1>8. CASE ObserverApplies
    BY <1>8, ObserveFollows
  <1>9. CASE UNCHANGED leaseVars
    BY <1>9 DEF leaseVars, FollowIInv
  <1> QED BY <1>1, <1>2, <1>3, <1>4, <1>5, <1>6, <1>7, <1>8, <1>9 DEF LeaseNext

\* Every initial state satisfies it.
LEMMA FollowStarts == LeaseInit => FollowIInv
  <1> SUFFICES ASSUME LeaseInit PROVE FollowIInv
    OBVIOUS
  <1>1. PICK f : f = [m \in ClientMacs |-> 0]
    OBVIOUS
  <1>2. f \in [ClientMacs -> Suffixes \cup {0}] /\ DistinctSuffixes(f)
    BY <1>1, NoDevices
  <1>3. PICK V : V = [i \in 0 .. 0 |-> f]
    OBVIOUS
  <1>4. \A i \in 0 .. 0 : i = 0 /\ V[i] = f
    BY <1>3
  <1>5. Versions(V, << >>, f)
    <2>1. Len(<< >>) = 0 /\ (1 .. 0) = {} /\ 0 \in 0 .. 0
      OBVIOUS
    <2>2. V \in [0 .. 0 -> [ClientMacs -> Suffixes \cup {0}]]
      BY <1>2, <1>3
    <2> QED BY <2>1, <2>2, <1>2, <1>4 DEF Versions
  <1> QED BY <1>1, <1>5 DEF LeaseInit, FollowIInv

\* With an empty queue there is one version, the present store.
LEMMA FollowEnds == FollowIInv => StaticsFollow
  <1> SUFFICES ASSUME FollowIInv, Running, devQueue = << >>, NEW m \in ClientMacs, m \notin missedMacs
               PROVE  na.statics[m] = enrolled[m]
    BY DEF StaticsFollow
  <1>1. PICK V : Versions(V, devQueue, enrolled) /\ LooksBack(na.statics, V, devQueue, m)
    BY DEF FollowIInv, Running
  <1>2. Len(devQueue) = 0 /\ \A i \in 0 .. 0 : i = 0
    OBVIOUS
  <1> QED BY <1>1, <1>2 DEF Versions, LooksBack

\* DHCPv6 server: whatever order edits of the devices, starts and stops of the server and the
\* observer's steps come in, a server that has seen every event has the bindings of the store, apart
\* from the MACs whose event it missed and those that were refused a suffix because of one.
THEOREM BindingsFollowStore == LeaseSpec => []StaticsFollow
  <1>1. LeaseSpec => [](LeaseIInv /\ FollowIInv)
    BY LeaseStarts, LeaseInductive, FollowStarts, FollowInductive, PTL DEF LeaseSpec
  <1> QED BY <1>1, FollowEnds, PTL

(***************************************************************************)
(* DhcpV4Pool: the bindings follow the devices of the database.            *)
(***************************************************************************)
\* Messages, expiry and the timer leave static_bindings alone.
LEMMA WithOfferBind ==
  ASSUME NEW p \in Pools, NEW m, NEW o, NEW a, NEW s, NEW q, q = WithOffer(p, m, o, a, s)
  PROVE  q.bind = p.bind
  BY DEF WithOffer, Pools

\* clean_expire_ip
LEMMA CleanBind ==
  ASSUME NEW p \in Pools, NEW q, q = clean_expire_ip(p)
  PROVE  q \in Pools /\ q.bind = p.bind
  BY CleanMade

\* A free address of the range is assigned.
LEMMA AssignBind ==
  ASSUME NEW p \in Pools, NEW m \in Macs, NEW q \in Assign(p, m)
  PROVE  q.bind = p.bind
  <1>1. PICK a \in FreeInRange(p) : q = WithOffer(p, m, Offer(a, FALSE), a, Dynamic)
    BY DEF Assign
  <1> QED BY <1>1 DEF WithOffer, Pools

\* The search for a free address.
LEMMA SearchBind ==
  ASSUME NEW p \in Pools, Tables(p), NEW m \in Macs, NEW q \in Search(p, m)
  PROVE  q.bind = p.bind
  <1>1. PICK c : c = clean_expire_ip(p)
    OBVIOUS
  <1>2. c \in Pools /\ c.bind = p.bind
    BY <1>1, CleanBind
  <1>3. q = c \/ q \in Assign(c, m) \/ q \in Assign(p, m) \/ q = [p EXCEPT !.hung = TRUE]
    BY <1>1, SearchCases
  <1>4. CASE q = [p EXCEPT !.hung = TRUE]
    BY <1>4 DEF Pools
  <1> QED BY <1>2, <1>3, <1>4, AssignBind

\* offer_ip
LEMMA OfferIpBind ==
  ASSUME NEW p \in Pools, Tables(p), NEW m \in Macs, NEW q \in offer_ip(p, m)
  PROVE  q.bind = p.bind
  <1>1. CASE p.bind[m] # NoIp
    <2>1. q = StaticOffer(p, m)
      BY <1>1 DEF offer_ip
    <2> QED BY <2>1 DEF StaticOffer, WithOffer, Pools
  <1>2. CASE p.bind[m] = NoIp /\ p.offer[m].ip # NoIp
    BY <1>2 DEF offer_ip
  <1>3. CASE p.bind[m] = NoIp /\ p.offer[m].ip = NoIp
    <2>1. q \in Search(p, m)
      BY <1>3 DEF offer_ip
    <2> QED BY <2>1, SearchBind
  <1> QED BY <1>1, <1>2, <1>3

\* All of the steps that serve clients.
LEMMA ServesBind ==
  ASSUME PoolIInv,
         \/ \E m \in Macs : Discover(m) \/ Elapse(m)
         \/ \E m \in Macs, a \in Addrs : Request(m, a) \/ Decline(m, a) \/ Release(m, a)
         \/ ExpireTimer
  PROVE  pool'.bind = pool.bind /\ UNCHANGED admin
  <1>1. PICK p \in Pools : p = pool /\ Tables(p)
    BY DEF PoolIInv, PoolTypeOK
  <1>2. PICK q : q = pool'
    OBVIOUS
  <1>3. ASSUME NEW m \in Macs, Discover(m) PROVE q.bind = p.bind
    BY <1>1, <1>2, <1>3, OfferIpBind DEF Discover
  <1>4. ASSUME NEW m \in Macs, Elapse(m) PROVE q.bind = p.bind
    <2>1. q = [p EXCEPT !.offer = Put(p.offer, m, [p.offer[m] EXCEPT !.expired = TRUE])]
      BY <1>1, <1>2, <1>4 DEF Elapse
    <2> QED BY <2>1 DEF Pools
  <1>5. ASSUME NEW m \in Macs, NEW a \in Addrs, Request(m, a) PROVE q.bind = p.bind
    <2>1. q = ack_request(p, m, a)
      BY <1>1, <1>2, <1>5 DEF Request
    <2>2. CASE q = p
      BY <2>2
    <2>3. CASE q = [p EXCEPT !.offer = Put(p.offer, m, Offer(a, p.offer[m].static))]
      BY <2>3 DEF Pools
    <2>4. CASE q = WithOffer(p, m, Offer(a, FALSE), a, Dynamic)
      BY <2>4 DEF WithOffer, Pools
    <2> QED BY <2>1, <2>2, <2>3, <2>4 DEF ack_request
  <1>6. ASSUME NEW m \in Macs, NEW a \in Addrs, Decline(m, a) PROVE q.bind = p.bind
    <2>1. q = add_decline_ip(p, a)
      BY <1>1, <1>2, <1>6 DEF Decline
    <2> QED BY <2>1 DEF add_decline_ip, Pools
  <1>7. ASSUME NEW m \in Macs, NEW a \in Addrs, Release(m, a) PROVE q.bind = p.bind
    <2>1. q = release_ip(p, m, a)
      BY <1>1, <1>2, <1>7 DEF Release
    <2> QED BY <2>1, WithOfferBind DEF release_ip
  <1>8. ASSUME ExpireTimer PROVE q.bind = p.bind
    BY <1>1, <1>2, <1>8, CleanBind DEF ExpireTimer
  <1>9. UNCHANGED admin
    BY DEF Discover, Elapse, Request, Decline, Release, ExpireTimer
  <1> QED BY <1>1, <1>2, <1>3, <1>4, <1>5, <1>6, <1>7, <1>8, <1>9

\* What one device event does to static_bindings: the old device's binding goes, then the new device
\* takes the address, from whoever has it.
Unassigned(B, m) == [n \in Macs |-> IF n = m THEN NoIp ELSE B[n]]
Reassigned(B, e) ==
  [n \in Macs |-> IF n = e.add THEN e.ip ELSE IF Unassigned(B, e.del)[n] = e.ip THEN NoIp ELSE Unassigned(B, e.del)[n]]

\* DropBinding and remove_binding take one binding.
LEMMA DropBind ==
  ASSUME NEW p \in Pools, NEW m \in Macs, NEW q, q = DropBinding(p, m) \/ q = remove_binding(p, m)
  PROVE  q.bind = Unassigned(p.bind, m)
  <1>0. p.bind \in [Macs -> Addrs \cup {NoIp}]
    BY PoolFields
  <1>1. CASE p.bind[m] = NoIp
    <2>1. q = p
      BY <1>1 DEF DropBinding, remove_binding
    <2> QED BY <2>1, <1>0, <1>1 DEF Unassigned
  <1>2. CASE p.bind[m] # NoIp
    <2>1. Put(p.bind, m, NoIp) = Unassigned(p.bind, m)
      BY <1>0 DEF Put, Unassigned
    <2>2. q = DropBinding(p, m) => q.bind = Put(p.bind, m, NoIp)
      BY <1>2 DEF DropBinding, Pools
    <2>3. q = remove_binding(p, m) => q.bind = Put(p.bind, m, NoIp)
      <3>1. PICK a, b, w, o : /\ a = p.bind[m] /\ b = Put(p.bind, m, NoIp) /\ w = Put(p.owner, a, NoMac)
                              /\ o = Put(p.offer, m, NoOffer)
        OBVIOUS
      <3>2. PICK g : g = [p EXCEPT !.bind = b, !.owner = w, !.offer = o]
        OBVIOUS
      <3>3. g.bind = b
        BY <3>2 DEF Pools
      <3>4. PICK h : h = [g EXCEPT !.alloc = Put(g.alloc, a, Free)]
        OBVIOUS
      <3>5. h.bind = b
        BY <3>2, <3>4 DEF Pools
      <3>6. q = remove_binding(p, m) => q = g \/ q = h
        BY <1>2, <3>1, <3>2, <3>4 DEF remove_binding
      <3> QED BY <3>1, <3>3, <3>5, <3>6
    <2> QED BY <2>1, <2>2, <2>3
  <1> QED BY <1>1, <1>2

\* The address leaves whoever has it.
LEMMA TakeOverBind ==
  ASSUME NEW p \in Pools, Tables(p), NEW m \in Macs, NEW a \in Addrs, p.bind[m] = NoIp,
         NEW q, q = TakeOver(p, m, a)
  PROVE  q.bind = [n \in Macs |-> IF n = m THEN a ELSE IF p.bind[n] = a THEN NoIp ELSE p.bind[n]]
  <1>0. PICK b0 \in [Macs -> Addrs \cup {NoIp}] : b0 = p.bind
    BY PoolFields
  <1>1. PICK prev \in Macs \cup {NoMac} : prev = p.owner[a]
    BY PoolFields
  <1>2. \A n \in Macs : n = prev <=> b0[n] = a
    BY <1>0, <1>1 DEF Tables
  <1>3. PICK b1 : b1 = IF prev \in Macs /\ prev # m THEN Put(b0, prev, NoIp) ELSE b0
    OBVIOUS
  <1>4. b1 = [n \in Macs |-> IF b0[n] = a /\ n # m THEN NoIp ELSE b0[n]]
    BY <1>2, <1>3 DEF Put
  <1>5. q.bind = Put(b1, m, a)
    BY <1>0, <1>1, <1>3 DEF TakeOver, Pools
  <1> QED BY <1>0, <1>4, <1>5 DEF Put

\* add_or_update_binding
LEMMA AddBind ==
  ASSUME NEW p \in Pools, Tables(p), NEW m \in Macs, NEW a \in Addrs, NEW q \in add_or_update_binding(p, m, a)
  PROVE  q.bind = [n \in Macs |-> IF n = m THEN a ELSE IF p.bind[n] = a THEN NoIp ELSE p.bind[n]]
  <1>1. ASSUME NEW g \in Pools, Tables(g), g.bind = p.bind, NEW h, h = TakeOver(DropBinding(g, m), m, a)
        PROVE  /\ h \in Pools /\ Tables(h)
               /\ h.bind = [n \in Macs |-> IF n = m THEN a ELSE IF p.bind[n] = a THEN NoIp ELSE p.bind[n]]
    <2>1. PICK d : d = DropBinding(g, m)
      OBVIOUS
    <2>2. d \in Pools /\ Tables(d) /\ d.bind[m] = NoIp
      BY <1>1, <2>1, DropHolds
    <2>3. d.bind = Unassigned(p.bind, m)
      BY <1>1, <2>1, DropBind
    <2>4. h.bind = [n \in Macs |-> IF n = m THEN a ELSE IF d.bind[n] = a THEN NoIp ELSE d.bind[n]]
      BY <1>1, <2>1, <2>2, TakeOverBind
    <2>5. h \in Pools /\ Tables(h)
      BY <1>1, RebindHolds
    <2> QED BY <2>3, <2>4, <2>5 DEF Unassigned
  <1>2. CASE p.alloc[a] # Dynamic \/ DynamicOwners(p, a) = {}
    <2>1. q = TakeOver(DropBinding(p, m), m, a)
      BY <1>2 DEF add_or_update_binding
    <2> QED BY <2>1, <1>1
  <1>3. CASE ~(p.alloc[a] # Dynamic \/ DynamicOwners(p, a) = {})
    <2>1. PICK z \in DynamicOwners(p, a) :
            q \in offer_ip(TakeOver(DropBinding([p EXCEPT !.offer = Put(p.offer, z, NoOffer)], m), m, a), z)
      BY <1>3 DEF add_or_update_binding
    <2>2. z \in Macs
      BY <2>1 DEF DynamicOwners
    <2>3. PICK g : g = [p EXCEPT !.offer = Put(p.offer, z, NoOffer)]
      OBVIOUS
    <2>4. g \in Pools /\ Tables(g) /\ g.bind = p.bind
      <3>1. g \in Pools /\ Tables(g)
        BY ONLY p \in Pools, Tables(p), <2>2, <2>3, ClearOfferHolds
      <3> QED BY <3>1, <2>3 DEF Pools
    <2>5. PICK h : h = TakeOver(DropBinding(g, m), m, a)
      OBVIOUS
    <2>6. /\ h \in Pools /\ Tables(h)
          /\ h.bind = [n \in Macs |-> IF n = m THEN a ELSE IF p.bind[n] = a THEN NoIp ELSE p.bind[n]]
      BY <2>4, <2>5, <1>1
    <2>7. q \in offer_ip(h, z)
      BY <2>1, <2>3, <2>5
    <2> QED BY <2>2, <2>6, <2>7, OfferIpBind
  <1> QED BY <1>2, <1>3

\* The whole event.
LEMMA EventBind ==
  ASSUME NEW p \in Pools, Tables(p), NEW e \in Events, e.add # NoMac => e.ip # NoIp, NEW g, g = remove_binding(p, e.del),
         NEW q, q \in IF e.add = NoMac THEN {g} ELSE add_or_update_binding(g, e.add, e.ip)
  PROVE  q.bind = IF e.add = NoMac THEN Unassigned(p.bind, e.del) ELSE Reassigned(p.bind, e)
  <1>0. e.del \in Macs /\ e.add \in Macs \cup {NoMac} /\ e.ip \in Addrs \cup {NoIp}
    BY DEF Events
  <1>1. g \in Pools /\ Tables(g) /\ g.bind = Unassigned(p.bind, e.del)
    BY <1>0, DropHolds, DropBind
  <1>2. CASE e.add = NoMac
    BY <1>1, <1>2
  <1>3. CASE e.add # NoMac
    <2>1. PICK m \in Macs, a \in Addrs : m = e.add /\ a = e.ip
      BY <1>0, <1>3
    <2>2. q \in add_or_update_binding(g, m, a)
      BY <1>3, <2>1
    <2>3. q.bind = [n \in Macs |-> IF n = m THEN a ELSE IF g.bind[n] = a THEN NoIp ELSE g.bind[n]]
      BY <1>1, <2>2, AddBind
    <2> QED BY <1>1, <1>3, <2>1, <2>3 DEF Reassigned
  <1> QED BY <1>2, <1>3

\* One edit of the database and the event that tells of it, where all addresses are of this subnet.
DeviceEdit(f, g, e) ==
  \E o, m \in Macs, a \in Addrs \cup {NoIp} :
    /\ m = o \/ f[m] = NoIp
    /\ a # NoIp => \A n \in Macs \ {o} : f[n] # a
    /\ g = [n \in Macs |-> IF n = m THEN a ELSE IF n = o THEN NoIp ELSE f[n]]
    /\ e = [del |-> o, add |-> IF a = NoIp THEN NoMac ELSE m, ip |-> a]

\* The event is about m.
Concerns(e, m) == m = e.del \/ m = e.add

\* V[i] is the database before the i-th of the waiting events; the last one is the present database.
Versions4(V, q, f) ==
  /\ V \in [0 .. Len(q) -> [Macs -> Addrs \cup {NoIp}]]
  /\ V[Len(q)] = f
  /\ \A i \in 0 .. Len(q) : Distinct(V[i])
  /\ \A i \in 1 .. Len(q) : DeviceEdit(V[i - 1], V[i], q[i])
  /\ \A i, j \in 0 .. Len(q), m \in Macs :
       i <= j /\ V[i][m] # V[j][m] => \E k \in (i + 1) .. j : Concerns(q[k], m)

\* The binding of m is that of some version, or it was taken away and a waiting event is about m.
LooksBack4(B, V, q, m) ==
  \/ B[m] = NoIp /\ \E k \in 1 .. Len(q) : Concerns(q[k], m)
  \/ \E i \in 0 .. Len(q) : B[m] = V[i][m]

\* While the service starts and no event went to the old status, what it has read is a version.
CurrentIInv ==
  ~lagged /\ ~missed =>
    \E V : /\ Versions4(V, events, device)
           /\ \A m \in Macs : LooksBack4(pool.bind, V, events, m)
           /\ starting => \E i \in 0 .. Len(events) : loaded = V[i]

\* An edit changes only devices its event is about.
LEMMA EditTouches ==
  ASSUME NEW f, NEW g, NEW e, DeviceEdit(f, g, e), NEW m \in Macs, f[m] # g[m]
  PROVE  Concerns(e, m)
  BY DEF DeviceEdit, Concerns

\* The first event leaves the queue.
LEMMA Versions4Shift ==
  ASSUME NEW q \in Seq(Events), q # << >>, NEW f, NEW V, Versions4(V, q, f)
  PROVE  Versions4(Shifted(V, q), Tail(q), f)
  <1>1. PICK n \in Nat : n = Len(q) /\ n >= 1
    OBVIOUS
  <1>2. Len(Tail(q)) = n - 1 /\ \A i \in 1 .. (n - 1) : Tail(q)[i] = q[i + 1]
    BY <1>1
  <1>3. PICK W : W = Shifted(V, q)
    OBVIOUS
  <1>4. \A i \in 0 .. (n - 1) : W[i] = V[i + 1] /\ i + 1 \in 0 .. n
    BY <1>1, <1>3 DEF Shifted
  <1>5. W \in [0 .. (n - 1) -> [Macs -> Addrs \cup {NoIp}]]
    BY <1>1, <1>3, <1>4 DEF Shifted, Versions4
  <1>6. W[n - 1] = f
    BY <1>1, <1>4 DEF Versions4
  <1>7. \A i \in 0 .. (n - 1) : Distinct(W[i])
    BY <1>1, <1>4 DEF Versions4
  <1>8. ASSUME NEW i \in 1 .. (n - 1) PROVE DeviceEdit(W[i - 1], W[i], Tail(q)[i])
    <2>1. i + 1 \in 1 .. n /\ (i + 1) - 1 = i /\ i - 1 \in 0 .. (n - 1) /\ (i - 1) + 1 = i
      BY <1>1
    <2>2. DeviceEdit(V[i], V[i + 1], q[i + 1])
      BY <2>1, <1>1 DEF Versions4
    <2>3. W[i - 1] = V[i] /\ W[i] = V[i + 1]
      BY <2>1, <1>4
    <2> QED BY <2>2, <2>3, <1>2
  <1>9. ASSUME NEW i \in 0 .. (n - 1), NEW j \in 0 .. (n - 1), NEW m \in Macs, i <= j, W[i][m] # W[j][m]
        PROVE  \E k \in (i + 1) .. j : Concerns(Tail(q)[k], m)
    <2>1. V[i + 1][m] # V[j + 1][m] /\ i + 1 \in 0 .. n /\ j + 1 \in 0 .. n /\ i + 1 <= j + 1
      BY <1>4, <1>9
    <2>2. PICK k \in ((i + 1) + 1) .. (j + 1) : Concerns(q[k], m)
      BY <2>1, <1>1 DEF Versions4
    <2>3. k - 1 \in (i + 1) .. j /\ k - 1 \in 1 .. (n - 1) /\ (k - 1) + 1 = k
      BY <1>1
    <2>4. Tail(q)[k - 1] = q[k]
      BY <2>3, <1>2
    <2> QED BY <2>2, <2>3, <2>4
  <1> QED BY <1>2, <1>3, <1>5, <1>6, <1>7, <1>8, <1>9 DEF Versions4

\* An event joins the queue.
LEMMA Versions4Extend ==
  ASSUME NEW q \in Seq(Events), NEW f, NEW V, Versions4(V, q, f),
         NEW g \in [Macs -> Addrs \cup {NoIp}], NEW e \in Events, DeviceEdit(f, g, e), Distinct(g)
  PROVE  Versions4(Extended(V, q, g), Append(q, e), g)
  <1>1. PICK n \in Nat : n = Len(q)
    OBVIOUS
  <1>2. Len(Append(q, e)) = n + 1 /\ Append(q, e)[n + 1] = e /\ \A i \in 1 .. n : Append(q, e)[i] = q[i]
    BY <1>1
  <1>3. PICK W : W = Extended(V, q, g)
    OBVIOUS
  <1>4. (\A i \in 0 .. n : W[i] = V[i]) /\ W[n + 1] = g
    BY <1>1, <1>3 DEF Extended
  <1>5. W \in [0 .. (n + 1) -> [Macs -> Addrs \cup {NoIp}]]
    BY <1>1, <1>3 DEF Extended, Versions4
  <1>6. ASSUME NEW i \in 0 .. (n + 1) PROVE Distinct(W[i])
    <2>1. CASE i = n + 1
      BY <2>1, <1>4
    <2>2. CASE i # n + 1
      <3>1. i \in 0 .. n
        BY <2>2
      <3>2. Distinct(V[i])
        BY <3>1, <1>1 DEF Versions4
      <3> QED BY <3>1, <3>2, <1>4
    <2> QED BY <2>1, <2>2
  <1>7. ASSUME NEW i \in 1 .. (n + 1) PROVE DeviceEdit(W[i - 1], W[i], Append(q, e)[i])
    <2>1. CASE i = n + 1
      <3>1. W[i - 1] = f /\ W[i] = g
        BY <2>1, <1>1, <1>4 DEF Versions4
      <3> QED BY <3>1, <2>1, <1>2
    <2>2. CASE i # n + 1
      <3>1. i \in 1 .. n /\ i \in 0 .. n /\ i - 1 \in 0 .. n
        BY <2>2
      <3>2. DeviceEdit(V[i - 1], V[i], q[i])
        BY <3>1, <1>1 DEF Versions4
      <3> QED BY <3>1, <3>2, <1>2, <1>4
    <2> QED BY <2>1, <2>2
  <1>8. \A m \in Macs : f[m] # g[m] => Concerns(e, m)
    BY EditTouches
  <1>9. ASSUME NEW i \in 0 .. (n + 1), NEW j \in 0 .. (n + 1), NEW m \in Macs, i <= j, W[i][m] # W[j][m]
        PROVE  \E k \in (i + 1) .. j : Concerns(Append(q, e)[k], m)
    <2>1. CASE j <= n
      <3>1. V[i][m] # V[j][m] /\ i \in 0 .. n /\ j \in 0 .. n
        BY <2>1, <1>4, <1>9
      <3>2. PICK k \in (i + 1) .. j : Concerns(q[k], m)
        BY <3>1, <1>1, <1>9 DEF Versions4
      <3>3. k \in 1 .. n
        BY <3>1
      <3> QED BY <3>2, <3>3, <1>2
    <2>2. CASE j = n + 1 /\ Concerns(e, m)
      <3>1. i <= n
        BY <2>2, <1>9
      <3>2. n + 1 \in (i + 1) .. j
        BY <2>2, <3>1
      <3> QED BY <2>2, <3>2, <1>2
    <2>3. CASE j = n + 1 /\ ~Concerns(e, m)
      <3>1. f[m] = g[m] /\ V[n] = f /\ W[j] = g
        BY <2>3, <1>8, <1>1, <1>4 DEF Versions4
      <3>2. i \in 0 .. n
        BY <1>9, <2>3
      <3>3. V[i][m] # V[n][m] /\ i <= n
        BY <3>1, <3>2, <1>4, <1>9
      <3>4. PICK k \in (i + 1) .. n : Concerns(q[k], m)
        <4>1. n \in 0 .. n
          OBVIOUS
        <4> QED BY <4>1, <3>2, <3>3, <1>1 DEF Versions4
      <3>5. k \in 1 .. n /\ k \in (i + 1) .. j
        BY <3>2, <2>3
      <3> QED BY <3>4, <3>5, <1>2
    <2>4. j <= n \/ j = n + 1
      BY SMT
    <2> QED BY <2>1, <2>2, <2>3, <2>4, Zenon
  <1> QED BY <1>2, <1>3, <1>4, <1>5, <1>6, <1>7, <1>9 DEF Versions4

\* What looked back still does.
LEMMA LooksBack4Extend ==
  ASSUME NEW q \in Seq(Events), NEW V, NEW g, NEW e, NEW B, NEW m \in Macs, LooksBack4(B, V, q, m)
  PROVE  LooksBack4(B, Extended(V, q, g), Append(q, e), m)
  <1>1. PICK n \in Nat : n = Len(q)
    OBVIOUS
  <1>2. Len(Append(q, e)) = n + 1 /\ \A i \in 1 .. n : Append(q, e)[i] = q[i] /\ i \in 1 .. (n + 1)
    BY <1>1
  <1>3. \A i \in 0 .. n : Extended(V, q, g)[i] = V[i] /\ i \in 0 .. (n + 1)
    BY <1>1 DEF Extended
  <1> QED BY <1>1, <1>2, <1>3 DEF LooksBack4

\* A MAC the first event is not about looks back on the rest of the queue as it did.
LEMMA LooksBack4Shift ==
  ASSUME NEW q \in Seq(Events), q # << >>, NEW f, NEW V, Versions4(V, q, f), NEW B, NEW C,
         NEW m \in Macs, ~Concerns(q[1], m), C[m] = B[m], LooksBack4(B, V, q, m)
  PROVE  LooksBack4(C, Shifted(V, q), Tail(q), m)
  <1>1. PICK n \in Nat : n = Len(q) /\ n >= 1
    OBVIOUS
  <1>2. Len(Tail(q)) = n - 1 /\ \A i \in 1 .. (n - 1) : Tail(q)[i] = q[i + 1]
    BY <1>1
  <1>3. \A i \in 0 .. (n - 1) : Shifted(V, q)[i] = V[i + 1]
    BY <1>1 DEF Shifted
  <1>4. CASE B[m] = NoIp /\ \E k \in 1 .. Len(q) : Concerns(q[k], m)
    <2>1. PICK k \in 1 .. n : Concerns(q[k], m)
      BY <1>4, <1>1
    <2>2. k # 1
      BY <2>1
    <2>3. k - 1 \in 1 .. (n - 1) /\ (k - 1) + 1 = k
      BY <2>2
    <2>4. Concerns(Tail(q)[k - 1], m)
      BY <2>1, <2>3, <1>2
    <2> QED BY <1>4, <2>3, <2>4, <1>2 DEF LooksBack4
  <1>5. CASE \E i \in 0 .. Len(q) : B[m] = V[i][m]
    <2>1. PICK i \in 0 .. n : B[m] = V[i][m]
      BY <1>5, <1>1
    <2>2. V[0][m] = V[1][m]
      <3>1. 0 \in 0 .. n /\ 1 \in 0 .. n
        BY <1>1
      <3>2. V[0][m] # V[1][m] => \E k \in (0 + 1) .. 1 : Concerns(q[k], m)
        BY <3>1, <1>1 DEF Versions4
      <3>3. \A k \in (0 + 1) .. 1 : k = 1
        OBVIOUS
      <3> QED BY <3>2, <3>3
    <2>3. PICK j \in 0 .. (n - 1) : B[m] = V[j + 1][m]
      <3>1. CASE i = 0
        <4>1. 0 \in 0 .. (n - 1) /\ 0 + 1 = 1
          BY <1>1
        <4> QED BY <4>1, <3>1, <2>1, <2>2
      <3>2. CASE i # 0
        <4>1. i - 1 \in 0 .. (n - 1) /\ (i - 1) + 1 = i
          BY <3>2
        <4> QED BY <4>1, <2>1
      <3> QED BY <3>1, <3>2
    <2> QED BY <2>3, <1>2, <1>3 DEF LooksBack4
  <1> QED BY <1>4, <1>5 DEF LooksBack4

\* What the first event left of the devices it is about.
LEMMA FirstDevice ==
  ASSUME NEW q \in Seq(Events), q # << >>, NEW f, NEW V, Versions4(V, q, f), NEW e, e = q[1]
  PROVE  /\ e.del # e.add => V[1][e.del] = NoIp
         /\ e.add # NoMac => /\ e.add \in Macs /\ V[1][e.add] = e.ip /\ e.ip # NoIp
                             /\ \A x \in Macs : x # e.del => V[0][x] # e.ip
  <1>1. 1 \in 1 .. Len(q) /\ 1 - 1 = 0
    OBVIOUS
  <1>2. DeviceEdit(V[0], V[1], e)
    BY <1>1 DEF Versions4
  <1> QED BY <1>2, PoolSets DEF DeviceEdit

\* A device that loses the address to the new one got it from a later version: an event about it waits.
LEMMA LoserIsLate ==
  ASSUME NEW q \in Seq(Events), q # << >>, NEW f, NEW V, Versions4(V, q, f), NEW e, e = q[1], e.add # NoMac,
         NEW B, NEW x \in Macs, x # e.del, x # e.add, B[x] = e.ip, LooksBack4(B, V, q, x)
  PROVE  \E k \in 1 .. Len(Tail(q)) : Concerns(Tail(q)[k], x)
  <1>1. PICK n \in Nat : n = Len(q) /\ n >= 1
    OBVIOUS
  <1>2. Len(Tail(q)) = n - 1 /\ \A i \in 1 .. (n - 1) : Tail(q)[i] = q[i + 1]
    BY <1>1
  <1>3. e.add \in Macs /\ V[1][e.add] = e.ip /\ e.ip # NoIp /\ V[0][x] # e.ip
    BY FirstDevice
  <1>4. PICK i \in 0 .. n : V[i][x] = e.ip
    BY <1>1, <1>3 DEF LooksBack4
  <1>5. i # 0
    BY <1>3, <1>4
  <1>6. V[1][x] # e.ip
    <2>1. Distinct(V[1])
      BY <1>1 DEF Versions4
    <2> QED BY <2>1, <1>3 DEF Distinct
  <1>7. PICK k \in (1 + 1) .. i : Concerns(q[k], x)
    <2>1. 1 \in 0 .. n /\ 1 <= i /\ V[1][x] # V[i][x]
      BY <1>1, <1>4, <1>5, <1>6
    <2> QED BY <2>1, <1>1 DEF Versions4
  <1>8. k - 1 \in 1 .. (n - 1) /\ (k - 1) + 1 = k
    OBVIOUS
  <1>9. Concerns(Tail(q)[k - 1], x)
    BY <1>2, <1>7, <1>8
  <1> QED BY <1>2, <1>8, <1>9

\* After the first event is applied every device looks back on the rest of the queue.
LEMMA EventFollows ==
  ASSUME NEW q \in Seq(Events), q # << >>, NEW f, NEW V, Versions4(V, q, f), NEW e, e = q[1],
         NEW B, NEW C, C = IF e.add = NoMac THEN Unassigned(B, e.del) ELSE Reassigned(B, e),
         NEW m \in Macs, LooksBack4(B, V, q, m)
  PROVE  LooksBack4(C, Shifted(V, q), Tail(q), m)
  <1>1. PICK n \in Nat : n = Len(q) /\ n >= 1
    OBVIOUS
  <1>2. Len(Tail(q)) = n - 1 /\ 0 \in 0 .. (n - 1)
    BY <1>1
  <1>4. Shifted(V, q)[0] = V[1]
    <2>1. 0 + 1 = 1 /\ 0 \in 0 .. (Len(q) - 1)
      BY <1>1
    <2> QED BY <2>1 DEF Shifted
  <1>6. CASE ~Concerns(q[1], m) /\ C[m] = B[m]
    BY <1>6, LooksBack4Shift
  <1>7. CASE ~Concerns(q[1], m) /\ C[m] # B[m]
    <2>1. e.add # NoMac /\ C[m] = NoIp /\ B[m] = e.ip /\ m # e.del /\ m # e.add
      BY <1>7 DEF Concerns, Unassigned, Reassigned
    <2>2. \E k \in 1 .. Len(Tail(q)) : Concerns(Tail(q)[k], m)
      BY <2>1, LoserIsLate
    <2> QED BY <2>1, <2>2 DEF LooksBack4
  <1>8. CASE m = e.del /\ m # e.add
    <2>1. C[m] = NoIp
      BY <1>8 DEF Unassigned, Reassigned
    <2>2. V[1][m] = NoIp
      BY <1>8, FirstDevice
    <2> QED BY <2>1, <2>2, <1>2, <1>4 DEF LooksBack4
  <1>9. CASE m = e.add
    <2>1. e.add # NoMac
      BY <1>9, PoolSets
    <2>2. C[m] = V[1][m]
      BY <1>9, <2>1, FirstDevice DEF Reassigned
    <2> QED BY <2>2, <1>2, <1>4 DEF LooksBack4
  <1> QED BY <1>6, <1>7, <1>8, <1>9 DEF Concerns

\* With every address in the subnet a status built from devices has their bindings.
LEMMA BuiltBind ==
  ASSUME Away = {}, NEW d \in [Macs -> Addrs \cup {NoIp}], NEW q, q = from_config_and_devices(d)
  PROVE  \A m \in Macs : q.bind[m] = d[m]
  <1>1. q.bind = [m \in Macs |-> IF m \in {n \in Macs : d[n] \in Subnet} THEN d[m] ELSE NoIp]
    BY DEF from_config_and_devices
  <1>2. Addrs = Subnet
    BY DEF Addrs
  <1> QED BY <1>1, <1>2, PoolSets

\* Every initial state satisfies it.
LEMMA CurrentStarts == Away = {} /\ PoolInit => CurrentIInv
  <1> SUFFICES ASSUME Away = {}, PoolInit PROVE CurrentIInv
    OBVIOUS
  <1>1. PICK f \in [Macs -> Addrs \cup {NoIp}] : f = device /\ Distinct(f)
    BY DEF PoolInit
  <1>2. PICK B : B = pool.bind
    OBVIOUS
  <1>3. \A m \in Macs : B[m] = f[m]
    BY <1>1, <1>2, BuiltBind DEF PoolInit
  <1>4. PICK V : V = [i \in 0 .. 0 |-> f]
    OBVIOUS
  <1>5. \A i \in 0 .. 0 : i = 0 /\ V[i] = f
    BY <1>4
  <1>6. Len(<< >>) = 0 /\ (1 .. 0) = {} /\ 0 \in 0 .. 0
    OBVIOUS
  <1>7. Versions4(V, << >>, f)
    <2>1. V \in [0 .. 0 -> [Macs -> Addrs \cup {NoIp}]]
      BY <1>1, <1>4
    <2> QED BY <2>1, <1>1, <1>5, <1>6 DEF Versions4
  <1>8. \A m \in Macs : LooksBack4(B, V, << >>, m)
    BY <1>3, <1>5, <1>6 DEF LooksBack4
  <1>9. events = << >> /\ starting = FALSE
    BY DEF PoolInit
  <1> QED BY <1>1, <1>2, <1>7, <1>8, <1>9 DEF CurrentIInv

\* An edit that tells nobody changes nothing; another one joins the queue.
LEMMA EditCurrent ==
  ASSUME PoolIInv, CurrentIInv, NEW f, f = device, NEW g \in [Macs -> Addrs \cup {NoIp}], g = device', Distinct(g),
         NEW e \in Events, DeviceEdit(f, g, e), Send(e), UNCHANGED << pool, loaded, starting, missed >>
  PROVE  CurrentIInv'
  <1> SUFFICES ASSUME ~lagged', ~missed'
               PROVE  \E V : /\ Versions4(V, events', g)
                             /\ \A m \in Macs : LooksBack4(pool.bind, V, events', m)
                             /\ starting => \E i \in 0 .. Len(events') : loaded = V[i]
    BY DEF CurrentIInv
  <1>1. PICK q \in Seq(Events) : q = events
    BY DEF PoolIInv, PoolTypeOK
  <1>2. ~lagged /\ ~missed /\ events' = Append(q, e)
    BY <1>1 DEF Send
  <1>3. PICK V : /\ Versions4(V, q, f)
                 /\ \A m \in Macs : LooksBack4(pool.bind, V, q, m)
                 /\ starting => \E i \in 0 .. Len(q) : loaded = V[i]
    BY <1>1, <1>2 DEF CurrentIInv
  <1>4. PICK W : W = Extended(V, q, g)
    OBVIOUS
  <1>5. Versions4(W, Append(q, e), g)
    BY <1>3, <1>4, Versions4Extend
  <1>6. PICK B : B = pool.bind
    OBVIOUS
  <1>7. \A m \in Macs : LooksBack4(B, W, Append(q, e), m)
    <2>1. \A m \in Macs : LooksBack4(B, V, q, m)
      BY <1>3, <1>6
    <2> QED BY <2>1, <1>4, LooksBack4Extend
  <1>8. ASSUME starting PROVE \E i \in 0 .. Len(Append(q, e)) : loaded = W[i]
    <2>1. PICK i \in 0 .. Len(q) : loaded = V[i]
      BY <1>3, <1>8
    <2>2. W[i] = V[i] /\ i \in 0 .. Len(Append(q, e))
      BY <1>4 DEF Extended
    <2> QED BY <2>1, <2>2
  <1> QED BY <1>2, <1>5, <1>6, <1>7, <1>8

\* EnrolledDeviceService::push
LEMMA PushCurrent ==
  ASSUME Away = {}, PoolIInv, CurrentIInv, NEW o \in Macs, NEW m \in Macs, NEW a \in Addrs \cup {NoIp}, PushDevice(o, m, a)
  PROVE  CurrentIInv'
  <1>1. PICK f \in [Macs -> Addrs \cup {NoIp}] : f = device /\ Distinct(f)
    BY DEF PoolIInv, PoolTypeOK
  <1>2. PICK g : g = [n \in Macs |-> IF n = m THEN a ELSE IF n = o THEN NoIp ELSE f[n]]
    OBVIOUS
  <1>3. g \in [Macs -> Addrs \cup {NoIp}] /\ device' = g
    BY <1>1, <1>2 DEF PushDevice, Put
  <1>4. PICK e : e = [del |-> o, add |-> IF a = NoIp THEN NoMac ELSE m, ip |-> a]
    OBVIOUS
  <1>5. e \in Events
    BY <1>4 DEF Events
  <1>6. (m = o \/ f[m] = NoIp) /\ (a # NoIp => \A n \in Macs \ {o} : f[n] # a)
    BY <1>1 DEF PushDevice
  <1>7. DeviceEdit(f, g, e)
    BY <1>2, <1>4, <1>6 DEF DeviceEdit
  <1>8. Distinct(g)
    BY <1>1, <1>2, <1>6 DEF Distinct
  <1>9. UNCHANGED << pool, loaded, starting, missed >>
    BY DEF PushDevice
  <1>10. Addrs = Subnet
    BY DEF Addrs
  <1>11. CASE f[o] \in Subnet \/ a \in Subnet
    <2>1. Send(e)
      BY <1>1, <1>4, <1>11 DEF PushDevice
    <2> QED BY <2>1, <1>1, <1>3, <1>5, <1>7, <1>8, <1>9, EditCurrent
  <1>12. CASE ~(f[o] \in Subnet \/ a \in Subnet)
    <2>1. UNCHANGED << events, lagged >>
      BY <1>1, <1>12 DEF PushDevice
    <2>2. f[o] = NoIp /\ a = NoIp
      BY <1>10, <1>12
    <2>3. g = f
      BY <1>2, <1>6, <2>2
    <2>4. device' = device
      BY <1>1, <1>3, <2>3
    <2> QED BY <2>1, <2>4, <1>9 DEF CurrentIInv
  <1> QED BY <1>11, <1>12

\* EnrolledDeviceService::delete
LEMMA DeleteCurrent ==
  ASSUME Away = {}, PoolIInv, CurrentIInv, NEW m \in Macs, DeleteDevice(m)
  PROVE  CurrentIInv'
  <1>1. PICK f \in [Macs -> Addrs \cup {NoIp}] : f = device /\ Distinct(f)
    BY DEF PoolIInv, PoolTypeOK
  <1>2. PICK g : g = [n \in Macs |-> IF n = m THEN NoIp ELSE IF n = m THEN NoIp ELSE f[n]]
    OBVIOUS
  <1>3. g \in [Macs -> Addrs \cup {NoIp}] /\ device' = g
    BY <1>1, <1>2 DEF DeleteDevice, Put
  <1>4. PICK e : e = [del |-> m, add |-> NoMac, ip |-> NoIp]
    OBVIOUS
  <1>5. e \in Events
    BY <1>4 DEF Events
  <1>6. DeviceEdit(f, g, e)
    BY <1>2, <1>4 DEF DeviceEdit
  <1>7. Distinct(g)
    BY <1>1, <1>2 DEF Distinct
  <1>8. UNCHANGED << pool, loaded, starting, missed >>
    BY DEF DeleteDevice
  <1>9. Send(e)
    <2>1. f[m] # NoIp
      BY <1>1 DEF DeleteDevice
    <2>2. f[m] \in Subnet
      BY <2>1 DEF Addrs
    <2> QED BY <2>2, <1>1, <1>4 DEF DeleteDevice
  <1> QED BY <1>1, <1>3, <1>5, <1>6, <1>7, <1>8, <1>9, EditCurrent

\* The observer's step: while the service starts it sets missed, and nothing is left to show.
LEMMA ApplyCurrent ==
  ASSUME PoolIInv, CurrentIInv, ApplyEvent
  PROVE  CurrentIInv'
  <1>0. UNCHANGED << loaded, starting, device, lagged >> /\ ~lagged /\ missed' = (missed \/ starting)
    BY DEF ApplyEvent
  <1> SUFFICES ASSUME ~missed'
               PROVE  \E V : /\ Versions4(V, events', device)
                             /\ \A m \in Macs : LooksBack4(pool'.bind, V, events', m)
    BY <1>0 DEF CurrentIInv
  <1>1. PICK p, q : p = pool /\ q = events
    OBVIOUS
  <1>2. PICK r : r = pool'
    OBVIOUS
  <1>3. p \in Pools /\ Tables(p) /\ Named(q) /\ q # << >> /\ q \in Seq(Events)
    BY <1>1, ChannelNamed DEF PoolIInv, PoolTypeOK, ApplyEvent
  <1>4. PICK e : e = Head(q) /\ e = q[1]
    BY <1>3
  <1>5. e \in Events /\ (e.add # NoMac => e.ip # NoIp)
    BY <1>3, <1>4, NamedTail
  <1>6. PICK g : g = remove_binding(p, e.del)
    OBVIOUS
  <1>7. r \in IF e.add = NoMac THEN {g} ELSE add_or_update_binding(g, e.add, e.ip)
    BY <1>1, <1>2, <1>4, <1>6 DEF ApplyEvent
  <1>8. PICK B, C : B = p.bind /\ C = r.bind
    OBVIOUS
  <1>9. C = IF e.add = NoMac THEN Unassigned(B, e.del) ELSE Reassigned(B, e)
    BY <1>3, <1>5, <1>6, <1>7, <1>8, EventBind
  <1>10. PICK f : f = device
    OBVIOUS
  <1>11. PICK V : Versions4(V, q, f) /\ \A m \in Macs : LooksBack4(B, V, q, m)
    BY <1>0, <1>1, <1>8, <1>10 DEF CurrentIInv
  <1>12. Versions4(Shifted(V, q), Tail(q), f)
    BY <1>3, <1>11, Versions4Shift
  <1>13. \A m \in Macs : LooksBack4(C, Shifted(V, q), Tail(q), m)
    BY <1>3, <1>4, <1>9, <1>11, EventFollows
  <1>14. events' = Tail(q)
    BY <1>1 DEF ApplyEvent
  <1> QED BY <1>2, <1>8, <1>10, <1>12, <1>13, <1>14

\* Both halves of a restart, and an observer that gives up.
LEMMA RestartCurrent ==
  ASSUME Away = {}, PoolIInv, CurrentIInv, LosesEvents \/ StartReads \/ StartInstalls
  PROVE  CurrentIInv'
  <1>1. CASE LosesEvents
    BY <1>1 DEF LosesEvents, CurrentIInv
  <1>2. CASE StartReads
    <2>1. loaded' = device /\ UNCHANGED << pool, device, events, lagged, missed >>
      BY <1>2 DEF StartReads
    <2>2. events \in Seq(Events) /\ Len(events) \in 0 .. Len(events)
      BY DEF PoolIInv, PoolTypeOK
    <2>3. \A V : Versions4(V, events, device) => \E i \in 0 .. Len(events) : device = V[i]
      BY <2>2 DEF Versions4
    <2> QED BY <2>1, <2>3 DEF CurrentIInv
  <1>3. CASE StartInstalls
    <2>1. starting /\ starting' = FALSE /\ UNCHANGED << device, events, lagged, missed >>
      BY <1>3 DEF StartInstalls
    <2>2. PICK d \in [Macs -> Addrs \cup {NoIp}] : d = loaded
      BY DEF PoolIInv, PoolTypeOK
    <2>3. PICK q : q = pool'
      OBVIOUS
    <2>4. \A m \in Macs : q.bind[m] = d[m]
      BY <1>3, <2>2, <2>3, BuiltBind DEF StartInstalls
    <2>5. \A V : (\E i \in 0 .. Len(events) : d = V[i]) => \A m \in Macs : LooksBack4(q.bind, V, events, m)
      BY <2>4 DEF LooksBack4
    <2> QED BY <2>1, <2>2, <2>3, <2>5 DEF CurrentIInv
  <1> QED BY <1>1, <1>2, <1>3

\* Every step preserves it, given the tables agree.
LEMMA CurrentInductive == Away = {} /\ PoolIInv /\ CurrentIInv /\ [PoolNext]_poolVars => CurrentIInv'
  <1> SUFFICES ASSUME Away = {}, PoolIInv, CurrentIInv, [PoolNext]_poolVars PROVE CurrentIInv'
    OBVIOUS
  <1>1. CASE \/ \E m \in Macs : Discover(m) \/ Elapse(m)
             \/ \E m \in Macs, a \in Addrs : Request(m, a) \/ Decline(m, a) \/ Release(m, a)
             \/ ExpireTimer
    <2>1. pool'.bind = pool.bind /\ UNCHANGED << loaded, starting, device, events, lagged, missed >>
      BY <1>1, ServesBind DEF admin
    <2> QED BY <2>1 DEF CurrentIInv
  <1>2. ASSUME NEW m \in Macs, DeleteDevice(m) PROVE CurrentIInv'
    BY <1>2, DeleteCurrent
  <1>3. ASSUME NEW o \in Macs, NEW m \in Macs, NEW a \in Addrs \cup {NoIp}, PushDevice(o, m, a) PROVE CurrentIInv'
    BY <1>3, PushCurrent
  <1>4. CASE ApplyEvent
    BY <1>4, ApplyCurrent
  <1>5. CASE LosesEvents \/ StartReads \/ StartInstalls
    BY <1>5, RestartCurrent
  <1>6. CASE UNCHANGED poolVars
    BY <1>6 DEF poolVars, CurrentIInv
  <1> QED BY <1>1, <1>2, <1>3, <1>4, <1>5, <1>6 DEF PoolNext

\* With an empty queue there is one version, the present database.
LEMMA CurrentEnds == Away = {} /\ PoolIInv /\ CurrentIInv => BindingsCurrent
  <1> SUFFICES ASSUME Away = {}, PoolIInv, CurrentIInv, ~lagged, ~missed, events = << >>
               PROVE  pool.bind = [m \in Macs |-> IF device[m] \in Subnet THEN device[m] ELSE NoIp]
    BY DEF BindingsCurrent
  <1>1. PICK V : Versions4(V, events, device) /\ \A m \in Macs : LooksBack4(pool.bind, V, events, m)
    BY DEF CurrentIInv
  <1>2. Len(events) = 0 /\ \A i \in 0 .. 0 : i = 0
    OBVIOUS
  <1>3. \A m \in Macs : pool.bind[m] = device[m]
    BY <1>1, <1>2 DEF Versions4, LooksBack4
  <1>4. \A m \in Macs : device[m] = IF device[m] \in Subnet THEN device[m] ELSE NoIp
    <2>1. device \in [Macs -> Addrs \cup {NoIp}] /\ Addrs = Subnet
      BY DEF PoolIInv, PoolTypeOK, Addrs
    <2> QED BY <2>1
  <1>5. pool.bind \in [Macs -> Addrs \cup {NoIp}]
    BY PoolFields DEF PoolIInv, PoolTypeOK
  <1> QED BY <1>3, <1>4, <1>5

\* DHCPv4 pool, for devices of one subnet: whatever order edits of the devices, restarts of the
\* service and the observer's steps come in, an observer that has caught up and missed nothing has
\* left the pool with the bindings of the database.
THEOREM PoolFollowsDevices ==
  ASSUME Away = {}
  PROVE  PoolSpec => []BindingsCurrent
  <1>1. Away = {} /\ PoolInit => CurrentIInv
    BY CurrentStarts
  <1>2. PoolIInv /\ CurrentIInv /\ [PoolNext]_poolVars => CurrentIInv'
    BY CurrentInductive
  <1>3. PoolIInv /\ CurrentIInv => BindingsCurrent
    BY CurrentEnds
  <1>4. PoolInit => CurrentIInv
    BY <1>1
  <1> QED BY <1>2, <1>3, <1>4, PoolIInvAlways, PTL DEF PoolSpec

\* A behaviour of the servers is one of the pool and one of the DHCPv6 server.
LEMMA ServerParts == ServerSpec => PoolSpec /\ LeaseSpec
  <1>1. ServerInit => PoolInit /\ LeaseInit
    BY DEF ServerInit
  <1>2. [ServerNext]_serverVars => [PoolNext]_poolVars /\ [LeaseNext]_leaseVars
    BY DEF ServerNext, serverVars
  <1> QED BY <1>1, <1>2, PTL DEF ServerSpec, PoolSpec, LeaseSpec

\* Both servers, for devices of one subnet: once the observers have applied the events they did
\* receive, pool and DHCPv6 server hold for every device what the database says, for any number of
\* devices, edits, restarts and waiting events.
THEOREM DevicesFollowed ==
  ASSUME Away = {}
  PROVE  ServerSpec => []DevicesFollow
  <1>1. PoolSpec => []BindingsCurrent
    BY PoolFollowsDevices
  <1>2. BindingsCurrent /\ StaticsFollow => DevicesFollow
    BY DEF DevicesFollow
  <1> QED BY <1>1, <1>2, ServerParts, BindingsFollowStore, PTL

(***************************************************************************)
(* DnsPool: the inductive invariant, in terms of the pool's vector P, the  *)
(* legs lg and the connections cn.                                         *)
(***************************************************************************)
ConnInfo == [ep : Eps \cup {NoEp}, stale : BOOLEAN, idle : BOOLEAN, fails : Nat, dead : BOOLEAN,
             pooled : BOOLEAN, closed : BOOLEAN, raw : BOOLEAN]
QueryPcs == {"query", "race", "both", "stale"}
LegPcs == {"rest", "warm", "cold", "wait", "dial", "stamp"} \cup QueryPcs
LegInfo == [pc : LegPcs, ep : Eps \cup {NoEp}, c : ConnIds \cup {NoConn}, fresh : ConnIds \cup {NoConn}, late : BOOLEAN]

StreamsIn(P, cn) == { c \in P : cn[c].ep \in StreamEps }

\* A connection: in the vector it is pooled and open, pooled and open it is in
\* the vector; one that no PooledConn wraps is the fresh one of a race.
ConnFits(c, P, lg, cn) ==
    /\ c \in P => cn[c].pooled /\ ~cn[c].closed /\ ~cn[c].raw /\ cn[c].ep \in Eps
    /\ cn[c].pooled /\ ~cn[c].closed => c \in P
    /\ cn[c].raw /\ ~cn[c].closed => \E t \in DnsTasks : lg[t].fresh = c
    /\ cn[c].idle => cn[c].stale

\* A leg: what it holds at each of its places.  The connection of a query is
\* not idle, and closed only if it is dead or was when the borrow was stamped.
LegFits(t, r, cn) ==
    /\ r.pc \notin {"rest", "warm"} => r.ep \in Eps
    /\ r.c # NoConn <=> r.pc \in QueryPcs \cup {"stamp"}
    /\ r.c # NoConn => cn[r.c].ep = r.ep /\ ~cn[r.c].raw
    /\ r.fresh # NoConn <=> r.pc = "both"
    /\ r.fresh # NoConn => cn[r.fresh].ep = r.ep /\ cn[r.fresh].raw /\ ~cn[r.fresh].pooled /\ ~cn[r.fresh].closed
    /\ r.pc \in QueryPcs => t \in DnsLegs /\ ~cn[r.c].idle /\ (cn[r.c].closed => cn[r.c].dead \/ r.late)

FreshApart(lg) == \A t, u \in DnsTasks : lg[t].fresh = lg[u].fresh /\ lg[t].fresh # NoConn => t = u

Ready(P, lg, cn) ==
    /\ P \subseteq ConnIds /\ IsFiniteSet(P)
    /\ cn \in [ConnIds -> ConnInfo] /\ lg \in [DnsTasks -> LegInfo]
    /\ \A c \in ConnIds : ConnFits(c, P, lg, cn)
    /\ \A t \in DnsTasks : LegFits(t, lg[t], cn)
    /\ FreshApart(lg)
    /\ Cardinality(StreamsIn(P, cn)) <= max_conns

Held(P, lg, cn) == \A c \in ConnIds : cn[c] # Unused => Referenced(c, P, lg)

\* The gates: held by a task that dials the endpoint, or free.
Gates(g, lg) ==
    \A e \in Eps : g[e] = {} \/ \E t \in DnsTasks : g[e] = {t} /\ lg[t].pc = "dial" /\ lg[t].ep = e

DnsIInv ==
    /\ Ready(conns, leg, conn) /\ Held(conns, leg, conn)
    /\ gate \in [Eps -> SUBSET DnsTasks] /\ Gates(gate, leg)
    /\ growing \subseteq StreamEps /\ warming \subseteq StreamEps

(***************************************************************************)
(* DnsPool: what a step may do to the connections.                         *)
(***************************************************************************)
LEMMA DnsRecords ==
  /\ Unused \in ConnInfo /\ Unused.ep = NoEp /\ Unused.idle = FALSE /\ Unused.dead = FALSE
  /\ Unused.pooled = FALSE /\ Unused.closed = FALSE /\ Unused.raw = FALSE
  /\ AtRest \in LegInfo /\ AtRest.pc = "rest" /\ AtRest.c = NoConn /\ AtRest.fresh = NoConn
  /\ NoEp \notin Eps /\ NoConn \notin ConnIds /\ StreamEps \subseteq Eps
  <1>1. NoEp \notin Eps /\ NoConn \notin ConnIds /\ StreamEps \subseteq Eps
    BY DnsPoolAssumption
  <1>2. /\ Unused \in ConnInfo /\ Unused.ep = NoEp /\ Unused.idle = FALSE /\ Unused.dead = FALSE
        /\ Unused.pooled = FALSE /\ Unused.closed = FALSE /\ Unused.raw = FALSE
    BY DEF Unused, ConnInfo
  <1>3. AtRest \in LegInfo /\ AtRest.pc = "rest" /\ AtRest.c = NoConn /\ AtRest.fresh = NoConn
    BY DEF AtRest, LegInfo, LegPcs
  <1> QED BY <1>1, <1>2, <1>3

\* All connections but x are what they were, or counted, or closed because they
\* are dead or idle; those leave the vector.
Evolves(P, cn, Q, cm, x) ==
  \A c \in ConnIds : c # x =>
    /\ cm[c].ep = cn[c].ep /\ cm[c].raw = cn[c].raw /\ cm[c].pooled = cn[c].pooled
    /\ (cn[c].dead => cm[c].dead) /\ (cm[c].idle => cn[c].idle) /\ (cm[c].idle => cm[c].stale)
    /\ \/ cm[c].closed = cn[c].closed /\ (c \in Q <=> c \in P)
       \/ cm[c].closed /\ c \in P /\ c \notin Q /\ (cm[c].dead \/ cn[c].idle)

\* One leg moves, and x is the connection it makes, gives up or takes over.
Moves(lg, lm, t, x) ==
  /\ \A u \in DnsTasks : u # t => lm[u] = lg[u]
  /\ x # NoConn => \A u \in DnsTasks : u # t => lg[u].c # x /\ lg[u].fresh # x
  /\ lg[t].fresh \in {x, lm[t].fresh, NoConn}
  /\ lm[t].fresh \in {x, lg[t].fresh, NoConn}

LEMMA OthersFit ==
  ASSUME NEW P, NEW lg, NEW cn, Ready(P, lg, cn), NEW Q, NEW cm, NEW x,
         Evolves(P, cn, Q, cm, x), NEW u \in DnsTasks, x = NoConn \/ (lg[u].c # x /\ lg[u].fresh # x)
  PROVE  LegFits(u, lg[u], cm)
  <1>1. PICK r \in LegInfo : r = lg[u]
    BY DEF Ready
  <1>2. LegFits(u, r, cn) /\ r.c \in ConnIds \cup {NoConn} /\ r.fresh \in ConnIds \cup {NoConn}
    BY <1>1 DEF Ready, LegInfo
  <1>3. ASSUME r.c # NoConn PROVE cm[r.c].ep = r.ep /\ ~cm[r.c].raw
    BY <1>1, <1>2, <1>3 DEF Evolves, LegFits
  <1>4. ASSUME r.fresh # NoConn
        PROVE  cm[r.fresh].ep = r.ep /\ cm[r.fresh].raw /\ ~cm[r.fresh].pooled /\ ~cm[r.fresh].closed
    <2>1. r.fresh \in ConnIds /\ r.fresh # x
      BY <1>1, <1>2, <1>4
    <2>2. cn[r.fresh].ep = r.ep /\ cn[r.fresh].raw /\ ~cn[r.fresh].pooled /\ ~cn[r.fresh].closed
      BY <1>2, <1>4 DEF LegFits
    <2>3. r.fresh \notin P
      BY <2>1, <2>2 DEF Ready, ConnFits
    <2> QED BY <2>1, <2>2, <2>3 DEF Evolves
  <1>5. ASSUME r.pc \in QueryPcs
        PROVE  u \in DnsLegs /\ ~cm[r.c].idle /\ (cm[r.c].closed => cm[r.c].dead \/ r.late)
    <2>1. u \in DnsLegs /\ ~cn[r.c].idle /\ (cn[r.c].closed => cn[r.c].dead \/ r.late) /\ r.c # NoConn
      BY <1>2, <1>5 DEF LegFits
    <2>2. r.c \in ConnIds /\ r.c # x
      BY <1>1, <1>2, <2>1
    <2> QED BY <2>1, <2>2 DEF Evolves
  <1> QED BY <1>1, <1>2, <1>3, <1>4, <1>5 DEF LegFits

LEMMA ConnsFit ==
  ASSUME NEW P, NEW lg, NEW cn, Ready(P, lg, cn), NEW Q, NEW cm, NEW x, NEW lm, NEW t \in DnsTasks,
         Evolves(P, cn, Q, cm, x), Moves(lg, lm, t, x), NEW c \in ConnIds, c # x
  PROVE  ConnFits(c, Q, lm, cm)
  <1>1. ConnFits(c, P, lg, cn)
    BY DEF Ready
  <1>2. cm[c].raw /\ ~cm[c].closed => \E u \in DnsTasks : lm[u].fresh = c
    <2> SUFFICES ASSUME cm[c].raw, ~cm[c].closed PROVE \E u \in DnsTasks : lm[u].fresh = c
      OBVIOUS
    <2>1. cn[c].raw /\ ~cn[c].closed
      BY DEF Evolves
    <2>2. PICK u \in DnsTasks : lg[u].fresh = c
      BY <1>1, <2>1 DEF ConnFits
    <2>3. CASE u # t
      BY <2>2, <2>3 DEF Moves
    <2>4. CASE u = t
      BY <2>2, <2>4, DnsRecords DEF Moves
    <2> QED BY <2>3, <2>4
  <1>3. /\ c \in Q => cm[c].pooled /\ ~cm[c].closed /\ ~cm[c].raw /\ cm[c].ep \in Eps
        /\ cm[c].pooled /\ ~cm[c].closed => c \in Q
        /\ cm[c].idle => cm[c].stale
    BY <1>1 DEF ConnFits, Evolves
  <1> QED BY <1>2, <1>3 DEF ConnFits

\* The budget: connections other than x only leave the vector.
LEMMA StreamsShrink ==
  ASSUME NEW P, NEW lg, NEW cn, Ready(P, lg, cn), NEW Q \in SUBSET ConnIds, NEW cm, NEW x,
         Evolves(P, cn, Q, cm, x),
         \/ x \notin Q \/ cm[x].ep \notin StreamEps
         \/ Cardinality(StreamsIn(Q \ {x}, cm)) < max_conns
  PROVE  IsFiniteSet(Q) /\ Cardinality(StreamsIn(Q, cm)) <= max_conns
  <1>0. IsFiniteSet(P) /\ IsFiniteSet(StreamsIn(P, cn)) /\ P \subseteq ConnIds
    <2>1. IsFiniteSet(P) /\ StreamsIn(P, cn) \subseteq P /\ P \subseteq ConnIds
      BY DEF Ready, StreamsIn
    <2> QED BY <2>1, FS_Subset
  <1>1. Q \subseteq P \cup {x}
    BY DEF Evolves
  <1>2. IsFiniteSet(Q)
    <2>1. IsFiniteSet(P \cup {x})
      BY <1>0, FS_AddElement
    <2> QED BY <1>1, <2>1, FS_Subset
  <1>3. StreamsIn(Q \ {x}, cm) \subseteq StreamsIn(P, cn)
    BY <1>1 DEF Evolves, StreamsIn
  <1>4. /\ IsFiniteSet(StreamsIn(Q \ {x}, cm))
        /\ Cardinality(StreamsIn(Q \ {x}, cm)) <= Cardinality(StreamsIn(P, cn))
    BY <1>0, <1>3, FS_Subset
  <1>5. /\ Cardinality(StreamsIn(P, cn)) \in Nat /\ Cardinality(StreamsIn(P, cn)) <= max_conns /\ max_conns \in Nat
        /\ Cardinality(StreamsIn(Q \ {x}, cm)) \in Nat
    BY <1>0, <1>4, FS_CardinalityType, DnsPoolAssumption DEF Ready
  <1>6. CASE x \notin Q \/ cm[x].ep \notin StreamEps
    <2>1. StreamsIn(Q, cm) = StreamsIn(Q \ {x}, cm)
      BY <1>6 DEF StreamsIn
    <2> QED BY <1>2, <1>4, <1>5, <2>1
  <1>7. CASE Cardinality(StreamsIn(Q \ {x}, cm)) < max_conns
    <2>1. StreamsIn(Q, cm) \subseteq StreamsIn(Q \ {x}, cm) \cup {x}
      BY DEF StreamsIn
    <2>11. PICK S : S = StreamsIn(Q \ {x}, cm)
      OBVIOUS
    <2>12. IsFiniteSet(S) /\ Cardinality(S) \in Nat
      BY <1>4, <1>5, <2>11
    <2>13. /\ IsFiniteSet(S \cup {x})
           /\ Cardinality(S \cup {x}) = IF x \in S THEN Cardinality(S) ELSE Cardinality(S) + 1
      BY <2>12, FS_AddElement
    <2>2. /\ IsFiniteSet(StreamsIn(Q \ {x}, cm) \cup {x})
          /\ Cardinality(StreamsIn(Q \ {x}, cm) \cup {x}) <= Cardinality(StreamsIn(Q \ {x}, cm)) + 1
      BY <2>11, <2>12, <2>13
    <2>3. Cardinality(StreamsIn(Q, cm)) <= Cardinality(StreamsIn(Q \ {x}, cm) \cup {x})
      BY <2>1, <2>2, FS_Subset
    <2>4. /\ IsFiniteSet(StreamsIn(Q, cm)) /\ Cardinality(StreamsIn(Q, cm)) \in Nat
          /\ Cardinality(StreamsIn(Q \ {x}, cm) \cup {x}) \in Nat
      BY <2>1, <2>2, FS_Subset, FS_CardinalityType
    <2> QED BY <1>2, <1>5, <1>7, <2>2, <2>3, <2>4
  <1> QED BY <1>6, <1>7

LEMMA Evolve ==
  ASSUME NEW P, NEW lg, NEW cn, Ready(P, lg, cn), NEW t \in DnsTasks, NEW x \in ConnIds \cup {NoConn},
         NEW Q \in SUBSET ConnIds, NEW cm \in [ConnIds -> ConnInfo], NEW lm \in [DnsTasks -> LegInfo],
         Evolves(P, cn, Q, cm, x), x # NoConn => ConnFits(x, Q, lm, cm),
         Moves(lg, lm, t, x), LegFits(t, lm[t], cm),
         \/ x \notin Q \/ cm[x].ep \notin StreamEps
         \/ Cardinality(StreamsIn(Q \ {x}, cm)) < max_conns
  PROVE  Ready(Q, lm, cm)
  <1>1. \A c \in ConnIds : ConnFits(c, Q, lm, cm)
    <2> SUFFICES ASSUME NEW c \in ConnIds, c # x PROVE ConnFits(c, Q, lm, cm)
      BY DnsRecords
    <2> QED BY ConnsFit
  <1>2. \A u \in DnsTasks : LegFits(u, lm[u], cm)
    <2> SUFFICES ASSUME NEW u \in DnsTasks, u # t PROVE LegFits(u, lm[u], cm)
      OBVIOUS
    <2>1. lm[u] = lg[u] /\ (x = NoConn \/ (lg[u].c # x /\ lg[u].fresh # x))
      BY DEF Moves
    <2> QED BY <2>1, OthersFit
  <1>3. FreshApart(lm)
    <2> SUFFICES ASSUME NEW u \in DnsTasks, NEW v \in DnsTasks, lm[u].fresh = lm[v].fresh, lm[u].fresh # NoConn, u # v
                 PROVE  FALSE
      BY DEF FreshApart
    <2>1. FreshApart(lg)
      BY DEF Ready
    <2>2. CASE u = t
      BY <2>1, <2>2 DEF Moves, FreshApart
    <2>3. CASE v = t
      BY <2>1, <2>3 DEF Moves, FreshApart
    <2>4. CASE u # t /\ v # t
      BY <2>1, <2>4 DEF Moves, FreshApart
    <2> QED BY <2>2, <2>3, <2>4
  <1>4. IsFiniteSet(Q) /\ Cardinality(StreamsIn(Q, cm)) <= max_conns
    BY StreamsShrink
  <1> QED BY <1>1, <1>2, <1>3, <1>4 DEF Ready

\* Drop for PooledConn: what nobody refers to is gone.
LEMMA CollectHolds ==
  ASSUME NEW P, NEW lg, NEW cn, Ready(P, lg, cn), NEW cm, cm = Collect(P, lg, cn)
  PROVE  Ready(P, lg, cm) /\ Held(P, lg, cm)
  <1>1. cm \in [ConnIds -> ConnInfo]
    BY DnsRecords DEF Ready, Collect
  <1>2. ASSUME NEW c \in ConnIds PROVE IF Referenced(c, P, lg) THEN cm[c] = cn[c] ELSE cm[c] = Unused
    <2>1. CASE Referenced(c, P, lg)
      BY <2>1 DEF Collect
    <2>2. CASE ~Referenced(c, P, lg)
      <3>1. cn[c].closed \/ (~cn[c].raw /\ ~cn[c].pooled)
        BY <2>2 DEF Ready, ConnFits, Referenced
      <3> QED BY <2>2, <3>1 DEF Collect
    <2> QED BY <2>1, <2>2
  <1>3. Held(P, lg, cm)
    BY <1>2 DEF Held
  <1>4. \A c \in P : cm[c] = cn[c]
    BY <1>2 DEF Ready, Referenced
  <1>5. \A t \in DnsTasks : /\ lg[t].c \in ConnIds => cm[lg[t].c] = cn[lg[t].c]
                            /\ lg[t].fresh \in ConnIds => cm[lg[t].fresh] = cn[lg[t].fresh]
    BY <1>2 DEF Referenced
  <1>6. ASSUME NEW c \in ConnIds PROVE ConnFits(c, P, lg, cm)
    <2>1. CASE cm[c] = cn[c]
      BY <2>1 DEF Ready, ConnFits
    <2>2. CASE cm[c] = Unused /\ c \notin P
      BY <2>2, DnsRecords DEF ConnFits
    <2> QED BY <1>2, <1>4, <2>1, <2>2
  <1>7. ASSUME NEW t \in DnsTasks PROVE LegFits(t, lg[t], cm)
    <2>1. PICK r \in LegInfo : r = lg[t]
      BY DEF Ready
    <2>2. /\ r.c \in ConnIds \cup {NoConn} /\ r.fresh \in ConnIds \cup {NoConn}
          /\ r.c # NoConn => cm[r.c] = cn[r.c]
          /\ r.fresh # NoConn => cm[r.fresh] = cn[r.fresh]
      BY <1>5, <2>1 DEF LegInfo
    <2>3. LegFits(t, r, cn)
      BY <2>1 DEF Ready
    <2>4. r.pc \in QueryPcs => r.c # NoConn
      BY <2>3 DEF LegFits
    <2> QED BY <2>1, <2>2, <2>3, <2>4 DEF LegFits
  <1>8. StreamsIn(P, cm) = StreamsIn(P, cn)
    BY <1>4 DEF StreamsIn
  <1> QED BY <1>1, <1>3, <1>6, <1>7, <1>8 DEF Ready

(***************************************************************************)
(* DnsPool: legs, gates and the retirement of connections.                 *)
(***************************************************************************)
LEMMA LegMade ==
  ASSUME NEW lg \in [DnsTasks -> LegInfo], NEW t \in DnsTasks, NEW r \in LegInfo, NEW lm, lm = [lg EXCEPT ![t] = r]
  PROVE  lm \in [DnsTasks -> LegInfo] /\ lm[t] = r /\ \A u \in DnsTasks : u # t => lm[u] = lg[u]
  OBVIOUS

LEMMA LegFields ==
  ASSUME NEW r \in LegInfo
  PROVE  /\ r.pc \in LegPcs /\ r.ep \in Eps \cup {NoEp} /\ r.c \in ConnIds \cup {NoConn}
         /\ r.fresh \in ConnIds \cup {NoConn} /\ r.late \in BOOLEAN
  BY DEF LegInfo

LEMMA ConnFields ==
  ASSUME NEW r \in ConnInfo
  PROVE  /\ r.ep \in Eps \cup {NoEp} /\ r.stale \in BOOLEAN /\ r.idle \in BOOLEAN /\ r.fails \in Nat
         /\ r.dead \in BOOLEAN /\ r.pooled \in BOOLEAN /\ r.closed \in BOOLEAN /\ r.raw \in BOOLEAN
  BY DEF ConnInfo

\* Gates are handed over with the dial, and freed with it.
GateMoves(g, h, lg, lm, t) ==
  \/ h = g /\ lg[t].pc # "dial"
  \/ h = [e \in Eps |-> g[e] \ {t}]
  \/ lg[t].pc # "dial" /\ lm[t].pc = "dial" /\ lm[t].ep \in Eps /\ h = [g EXCEPT ![lm[t].ep] = {t}]

LEMMA GatesHold ==
  ASSUME NEW g \in [Eps -> SUBSET DnsTasks], NEW h, NEW lg, NEW lm, NEW t \in DnsTasks, Gates(g, lg),
         \A u \in DnsTasks : u # t => lm[u] = lg[u], GateMoves(g, h, lg, lm, t)
  PROVE  h \in [Eps -> SUBSET DnsTasks] /\ Gates(h, lm)
  <1>1. CASE h = g /\ lg[t].pc # "dial"
    BY <1>1 DEF Gates
  <1>2. CASE h = [e \in Eps |-> g[e] \ {t}]
    <2>1. h \in [Eps -> SUBSET DnsTasks]
      BY <1>2
    <2>2. ASSUME NEW e \in Eps
          PROVE  h[e] = {} \/ \E u \in DnsTasks : h[e] = {u} /\ lm[u].pc = "dial" /\ lm[u].ep = e
      <3>1. h[e] = g[e] \ {t}
        BY <1>2
      <3>2. CASE g[e] = {}
        BY <3>1, <3>2
      <3>3. CASE g[e] # {}
        <4>1. PICK u \in DnsTasks : g[e] = {u} /\ lg[u].pc = "dial" /\ lg[u].ep = e
          BY <3>3 DEF Gates
        <4>2. CASE u = t
          BY <3>1, <4>1, <4>2
        <4>3. CASE u # t
          <5>1. h[e] = {u}
            BY <3>1, <4>1, <4>3
          <5> QED BY <4>1, <4>3, <5>1
        <4> QED BY <4>2, <4>3
      <3> QED BY <3>2, <3>3
    <2> QED BY <2>1, <2>2 DEF Gates
  <1>3. CASE lg[t].pc # "dial" /\ lm[t].pc = "dial" /\ lm[t].ep \in Eps /\ h = [g EXCEPT ![lm[t].ep] = {t}]
    <2>1. h \in [Eps -> SUBSET DnsTasks] /\ \A e \in Eps : h[e] = IF e = lm[t].ep THEN {t} ELSE g[e]
      BY <1>3
    <2> QED BY <1>3, <2>1 DEF Gates
  <1> QED BY <1>1, <1>2, <1>3 DEF GateMoves

LEMMA CloseMade ==
  ASSUME NEW cn \in [ConnIds -> ConnInfo], NEW gone, NEW cm, cm = Close(cn, gone)
  PROVE  /\ cm \in [ConnIds -> ConnInfo]
         /\ \A c \in ConnIds : /\ cm[c].ep = cn[c].ep /\ cm[c].raw = cn[c].raw /\ cm[c].pooled = cn[c].pooled
                               /\ cm[c].dead = cn[c].dead /\ cm[c].idle = cn[c].idle /\ cm[c].stale = cn[c].stale
                               /\ cm[c].closed = (c \in gone \/ cn[c].closed)
  <1>1. \A c \in ConnIds : cm[c] = IF c \in gone THEN [cn[c] EXCEPT !.closed = TRUE] ELSE cn[c]
    BY DEF Close
  <1>2. ASSUME NEW r \in ConnInfo, NEW s, s = [r EXCEPT !.closed = TRUE]
        PROVE  /\ s \in ConnInfo /\ s.ep = r.ep /\ s.raw = r.raw /\ s.pooled = r.pooled
               /\ s.dead = r.dead /\ s.idle = r.idle /\ s.stale = r.stale /\ s.closed = TRUE
    BY <1>2 DEF ConnInfo
  <1>3. ASSUME NEW c \in ConnIds
        PROVE  /\ cm[c] \in ConnInfo
               /\ cm[c].ep = cn[c].ep /\ cm[c].raw = cn[c].raw /\ cm[c].pooled = cn[c].pooled
               /\ cm[c].dead = cn[c].dead /\ cm[c].idle = cn[c].idle /\ cm[c].stale = cn[c].stale
               /\ cm[c].closed = (c \in gone \/ cn[c].closed)
    <2>1. PICK r \in ConnInfo : r = cn[c]
      OBVIOUS
    <2>2. PICK s : s = cm[c]
      OBVIOUS
    <2>3. CASE c \in gone
      <3>1. s = [r EXCEPT !.closed = TRUE]
        BY <1>1, <2>1, <2>2, <2>3
      <3>2. /\ s \in ConnInfo /\ s.ep = r.ep /\ s.raw = r.raw /\ s.pooled = r.pooled
            /\ s.dead = r.dead /\ s.idle = r.idle /\ s.stale = r.stale /\ s.closed = TRUE
        BY <1>2, <3>1
      <3> QED BY <2>1, <2>2, <2>3, <3>2
    <2>4. CASE c \notin gone
      <3>1. cm[c] = cn[c]
        BY <1>1, <2>4
      <3>2. cn[c].closed \in BOOLEAN
        BY <2>1, ConnFields
      <3> QED BY <2>1, <2>4, <3>1, <3>2
    <2> QED BY <2>3, <2>4
  <1>4. cm \in [ConnIds -> ConnInfo]
    BY <1>3 DEF Close
  <1> QED BY <1>3, <1>4

\* Dead and idle connections leave the vector and are closed; a leg moves that
\* holds no fresh connection.
LEMMA RetireHolds ==
  ASSUME NEW P, NEW lg, NEW cn, Ready(P, lg, cn), NEW t \in DnsTasks, NEW gone \in SUBSET P,
         \A c \in gone : cn[c].dead \/ cn[c].idle, NEW cm, cm = Close(cn, gone),
         NEW r \in LegInfo, NEW lm, lm = [lg EXCEPT ![t] = r], lg[t].fresh = NoConn, r.fresh = NoConn,
         LegFits(t, r, cm)
  PROVE  Ready(P \ gone, lm, cm)
  <1>0. cn \in [ConnIds -> ConnInfo] /\ lg \in [DnsTasks -> LegInfo] /\ P \subseteq ConnIds
    BY DEF Ready
  <1>1. /\ cm \in [ConnIds -> ConnInfo]
        /\ \A c \in ConnIds : /\ cm[c].ep = cn[c].ep /\ cm[c].raw = cn[c].raw /\ cm[c].pooled = cn[c].pooled
                              /\ cm[c].dead = cn[c].dead /\ cm[c].idle = cn[c].idle /\ cm[c].stale = cn[c].stale
                              /\ cm[c].closed = (c \in gone \/ cn[c].closed)
    BY <1>0, CloseMade
  <1>2. lm \in [DnsTasks -> LegInfo] /\ lm[t] = r /\ \A u \in DnsTasks : u # t => lm[u] = lg[u]
    BY <1>0, LegMade
  <1>3. PICK Q \in SUBSET ConnIds : Q = P \ gone
    BY <1>0
  <1>4. Evolves(P, cn, Q, cm, NoConn)
    <2> SUFFICES ASSUME NEW c \in ConnIds
                 PROVE  /\ cm[c].ep = cn[c].ep /\ cm[c].raw = cn[c].raw /\ cm[c].pooled = cn[c].pooled
                        /\ (cn[c].dead => cm[c].dead) /\ (cm[c].idle => cn[c].idle) /\ (cm[c].idle => cm[c].stale)
                        /\ \/ cm[c].closed = cn[c].closed /\ (c \in Q <=> c \in P)
                           \/ cm[c].closed /\ c \in P /\ c \notin Q /\ (cm[c].dead \/ cn[c].idle)
      BY DEF Evolves
    <2>1. cn[c].idle => cn[c].stale
      BY DEF Ready, ConnFits
    <2>2. cn[c] \in ConnInfo
      BY <1>0
    <2>3. cn[c].closed \in BOOLEAN
      BY <2>2, ConnFields
    <2>4. CASE c \in gone
      BY <1>1, <1>3, <2>1, <2>4
    <2>5. CASE c \notin gone
      <3>1. cm[c].closed = cn[c].closed
        BY <1>1, <2>3, <2>5
      <3> QED BY <1>1, <1>3, <2>1, <2>5, <3>1
    <2> QED BY <2>4, <2>5
  <1>5. Moves(lg, lm, t, NoConn)
    BY <1>2 DEF Moves
  <1>6. NoConn \notin Q
    BY <1>3, DnsRecords
  <1>7. Ready(Q, lm, cm)
    BY <1>1, <1>2, <1>4, <1>5, <1>6, Evolve
  <1> QED BY <1>3, <1>7

\* Connections are only counted, and one leg moves.
LEMMA TouchHolds ==
  ASSUME NEW P, NEW lg, NEW cn, Ready(P, lg, cn), NEW t \in DnsTasks,
         NEW cm \in [ConnIds -> ConnInfo], Evolves(P, cn, P, cm, NoConn),
         NEW r \in LegInfo, NEW lm, lm = [lg EXCEPT ![t] = r], lg[t].fresh \in {r.fresh, NoConn}, r.fresh \in {lg[t].fresh, NoConn},
         LegFits(t, r, cm)
  PROVE  Ready(P, lm, cm)
  <1>0. lg \in [DnsTasks -> LegInfo] /\ P \in SUBSET ConnIds
    BY DEF Ready
  <1>1. lm \in [DnsTasks -> LegInfo] /\ lm[t] = r /\ \A u \in DnsTasks : u # t => lm[u] = lg[u]
    BY <1>0, LegMade
  <1>2. Moves(lg, lm, t, NoConn)
    BY <1>1 DEF Moves
  <1>3. NoConn \notin P
    BY <1>0, DnsRecords
  <1> QED BY <1>0, <1>1, <1>2, <1>3, Evolve

LEMMA SameEvolves ==
  ASSUME NEW P, NEW lg, NEW cn, Ready(P, lg, cn)
  PROVE  Evolves(P, cn, P, cn, NoConn) /\ cn \in [ConnIds -> ConnInfo]
  BY DEF Ready, ConnFits, Evolves

\* A leg moves on without touching a connection.
LEMMA LegOnly ==
  ASSUME NEW P, NEW lg, NEW cn, Ready(P, lg, cn), Held(P, lg, cn), NEW t \in DnsTasks,
         NEW r \in LegInfo, NEW lm, lm = [lg EXCEPT ![t] = r], r.fresh = lg[t].fresh, r.c = lg[t].c, LegFits(t, r, cn)
  PROVE  Ready(P, lm, cn) /\ Held(P, lm, cn)
  <1>0. lg \in [DnsTasks -> LegInfo]
    BY DEF Ready
  <1>1. lm \in [DnsTasks -> LegInfo] /\ lm[t] = r /\ \A u \in DnsTasks : u # t => lm[u] = lg[u]
    BY <1>0, LegMade
  <1>2. Ready(P, lm, cn)
    BY SameEvolves, TouchHolds
  <1>3. \A u \in DnsTasks : lm[u].c = lg[u].c /\ lm[u].fresh = lg[u].fresh
    BY <1>1
  <1>4. Held(P, lm, cn)
    BY <1>3 DEF Held, Referenced
  <1> QED BY <1>2, <1>4

\* An unused connection is in nobody's hands.
LEMMA UnusedApart ==
  ASSUME NEW P, NEW lg, NEW cn, Ready(P, lg, cn), NEW n \in ConnIds, cn[n] = Unused
  PROVE  n \notin P /\ \A u \in DnsTasks : lg[u].c # n /\ lg[u].fresh # n
  <1>1. cn[n].ep = NoEp /\ NoEp \notin Eps /\ n # NoConn
    BY DnsRecords
  <1>2. n \notin P
    BY <1>1 DEF Ready, ConnFits
  <1>3. ASSUME NEW u \in DnsTasks PROVE lg[u].c # n /\ lg[u].fresh # n
    <2>1. LegFits(u, lg[u], cn)
      BY DEF Ready
    <2> QED BY <1>1, <2>1 DEF LegFits, QueryPcs
  <1> QED BY <1>2, <1>3

\* A dialed connection: pooled, in a leg's hands, or the fresh one of its race.
LEMMA DialHolds ==
  ASSUME NEW P, NEW lg, NEW cn, Ready(P, lg, cn), NEW t \in DnsTasks, NEW n \in ConnIds, cn[n] = Unused,
         NEW s \in ConnInfo, s.ep \in Eps, ~s.closed, ~s.idle, s.pooled => ~s.raw, NEW cm, cm = [cn EXCEPT ![n] = s],
         NEW Q, Q = IF s.pooled THEN P \cup {n} ELSE P,
         NEW r \in LegInfo, NEW lm, lm = [lg EXCEPT ![t] = r], LegFits(t, r, cm),
         lg[t].fresh = NoConn, r.fresh = IF s.raw THEN n ELSE NoConn,
         s.pooled /\ s.ep \in StreamEps => Cardinality(StreamsIn(P, cn)) < max_conns
  PROVE  Ready(Q, lm, cm)
  <1>0. cn \in [ConnIds -> ConnInfo] /\ lg \in [DnsTasks -> LegInfo] /\ P \subseteq ConnIds
    BY DEF Ready
  <1>1. lm \in [DnsTasks -> LegInfo] /\ lm[t] = r /\ \A u \in DnsTasks : u # t => lm[u] = lg[u]
    BY <1>0, LegMade
  <1>2. cm \in [ConnIds -> ConnInfo] /\ cm[n] = s /\ \A c \in ConnIds : c # n => cm[c] = cn[c]
    BY <1>0
  <1>3. n \notin P /\ \A u \in DnsTasks : lg[u].c # n /\ lg[u].fresh # n
    BY UnusedApart
  <1>4. Q \in SUBSET ConnIds /\ (\A c \in ConnIds : c # n => (c \in Q <=> c \in P)) /\ (n \in Q <=> s.pooled)
    BY <1>0, <1>3
  <1>5. Evolves(P, cn, Q, cm, n)
    BY <1>2, <1>4 DEF Evolves, Ready, ConnFits
  <1>6. Moves(lg, lm, t, n)
    BY <1>1, <1>3 DEF Moves
  <1>7. ConnFits(n, Q, lm, cm)
    <2>1. s.raw => \E u \in DnsTasks : lm[u].fresh = n
      BY <1>1
    <2> QED BY <1>2, <1>4, <2>1 DEF ConnFits
  <1>8. \/ n \notin Q \/ cm[n].ep \notin StreamEps
        \/ Cardinality(StreamsIn(Q \ {n}, cm)) < max_conns
    <2>1. StreamsIn(Q \ {n}, cm) = StreamsIn(P, cn)
      BY <1>0, <1>2, <1>3, <1>4 DEF StreamsIn
    <2> QED BY <1>2, <1>4, <2>1
  <1> QED BY <1>1, <1>2, <1>4, <1>5, <1>6, <1>7, <1>8, Evolve

\* The fresh connection of a race is nobody else's.
LEMMA FreshIsOwn ==
  ASSUME NEW P, NEW lg, NEW cn, Ready(P, lg, cn), NEW t \in DnsTasks, NEW f \in ConnIds, f = lg[t].fresh
  PROVE  /\ f \notin P /\ cn[f].raw /\ ~cn[f].pooled /\ ~cn[f].closed /\ cn[f].ep = lg[t].ep /\ lg[t].ep \in Eps
         /\ lg[t].pc = "both" /\ lg[t].c # f
         /\ \A u \in DnsTasks : u # t => lg[u].c # f /\ lg[u].fresh # f
  <1>0. f # NoConn
    BY DnsRecords
  <1>1. LegFits(t, lg[t], cn)
    BY DEF Ready
  <1>2. cn[f].raw /\ ~cn[f].pooled /\ ~cn[f].closed /\ cn[f].ep = lg[t].ep /\ lg[t].pc = "both" /\ lg[t].ep \in Eps
    BY <1>0, <1>1 DEF LegFits
  <1>3. f \notin P
    BY <1>2 DEF Ready, ConnFits
  <1>4. ASSUME NEW u \in DnsTasks PROVE lg[u].c # f
    <2>1. LegFits(u, lg[u], cn)
      BY DEF Ready
    <2> QED BY <1>0, <1>2, <2>1 DEF LegFits
  <1>5. ASSUME NEW u \in DnsTasks, u # t PROVE lg[u].fresh # f
    BY <1>0, <1>5 DEF Ready, FreshApart
  <1> QED BY <1>2, <1>3, <1>4, <1>5

\* The end of a race, for its fresh connection f.
LEMMA RaceHolds ==
  ASSUME NEW P, NEW lg, NEW cn, Ready(P, lg, cn), NEW t \in DnsTasks, NEW f \in ConnIds, f = lg[t].fresh,
         NEW Q \in SUBSET ConnIds, NEW cm \in [ConnIds -> ConnInfo], Evolves(P, cn, Q, cm, f),
         f \in Q <=> cm[f].pooled /\ ~cm[f].closed, f \in Q => ~cm[f].raw /\ cm[f].ep \in Eps,
         cm[f].raw => cm[f].closed, cm[f].idle => cm[f].stale,
         f \in Q /\ cm[f].ep \in StreamEps => Cardinality(StreamsIn(Q \ {f}, cm)) < max_conns,
         NEW r \in LegInfo, NEW lm, lm = [lg EXCEPT ![t] = r], r.fresh = NoConn, LegFits(t, r, cm)
  PROVE  Ready(Q, lm, cm)
  <1>0. lg \in [DnsTasks -> LegInfo] /\ f # NoConn
    BY DnsRecords DEF Ready
  <1>1. lm \in [DnsTasks -> LegInfo] /\ lm[t] = r /\ \A u \in DnsTasks : u # t => lm[u] = lg[u]
    BY <1>0, LegMade
  <1>2. \A u \in DnsTasks : u # t => lg[u].c # f /\ lg[u].fresh # f
    BY FreshIsOwn
  <1>3. Moves(lg, lm, t, f)
    BY <1>1, <1>2 DEF Moves
  <1>4. ConnFits(f, Q, lm, cm)
    BY DEF ConnFits
  <1> QED BY <1>1, <1>3, <1>4, Evolve

\* The accounting of a query.
LEMMA AccountedMade ==
  ASSUME NEW cn \in [ConnIds -> ConnInfo], NEW w \in ConnIds, NEW o \in QueryOutcomes,
         cn[w].idle => cn[w].stale, NEW cm, cm = Accounted(cn, w, o)
  PROVE  /\ cm \in [ConnIds -> ConnInfo] /\ \A c \in ConnIds : c # w => cm[c] = cn[c]
         /\ cm[w].ep = cn[w].ep /\ cm[w].raw = cn[w].raw /\ cm[w].pooled = cn[w].pooled /\ cm[w].closed = cn[w].closed
         /\ (cn[w].dead => cm[w].dead) /\ (cm[w].idle => cn[w].idle) /\ (cm[w].idle => cm[w].stale)
  <1>1. PICK r \in ConnInfo : r = cn[w]
    OBVIOUS
  <1>2. \E s \in ConnInfo : /\ cm = [cn EXCEPT ![w] = s]
                            /\ s.ep = r.ep /\ s.raw = r.raw /\ s.pooled = r.pooled /\ s.closed = r.closed
                            /\ (r.dead => s.dead) /\ (s.idle => r.idle) /\ (s.idle => s.stale)
    <2>1. CASE o = "ok"
      <3>1. PICK s : s = [r EXCEPT !.stale = FALSE, !.idle = FALSE, !.fails = 0]
        OBVIOUS
      <3>2. s \in ConnInfo /\ s.ep = r.ep /\ s.raw = r.raw /\ s.pooled = r.pooled /\ s.closed = r.closed /\ s.dead = r.dead /\ s.idle = FALSE
        BY <3>1 DEF ConnInfo
      <3>3. cm = [cn EXCEPT ![w] = s]
        BY <1>1, <2>1, <3>1 DEF Accounted
      <3> QED BY <3>2, <3>3
    <2>2. CASE o = "Timeout"
      <3>0. PICK s : s = [cn[w] EXCEPT !.fails = cn[w].fails + 1, !.dead = cn[w].dead \/ cn[w].fails + 1 >= Threshold(cn[w].ep)]
        OBVIOUS
      <3>20. cm = [cn EXCEPT ![w] = [cn[w] EXCEPT !.fails = cn[w].fails + 1, !.dead = cn[w].dead \/ cn[w].fails + 1 >= Threshold(cn[w].ep)]]
        BY <2>2, Zenon DEF Accounted
      <3>2. cm = [cn EXCEPT ![w] = s]
        BY <3>0, <3>20, Zenon
      <3>1. s = [r EXCEPT !.fails = r.fails + 1, !.dead = r.dead \/ r.fails + 1 >= Threshold(r.ep)]
        BY <1>1, <3>0
      <3>3. PICK k \in Nat : k = r.fails + 1
        BY ConnFields
      <3>4. PICK d \in BOOLEAN : d = (r.dead \/ k >= Threshold(r.ep))
        OBVIOUS
      <3>5. PICK g : g = [r EXCEPT !.fails = k]
        OBVIOUS
      <3>6. /\ g \in ConnInfo /\ g.ep = r.ep /\ g.raw = r.raw /\ g.pooled = r.pooled /\ g.closed = r.closed
            /\ g.idle = r.idle /\ g.stale = r.stale
        BY <3>5 DEF ConnInfo
      <3>7. s = [g EXCEPT !.dead = d]
        BY <3>1, <3>3, <3>4, <3>5
      <3>8. /\ s \in ConnInfo /\ s.ep = g.ep /\ s.raw = g.raw /\ s.pooled = g.pooled /\ s.closed = g.closed
            /\ s.dead = d /\ s.idle = g.idle /\ s.stale = g.stale
        BY <3>6, <3>7 DEF ConnInfo
      <3> QED BY <1>1, <3>2, <3>4, <3>6, <3>8
    <2>3. CASE o = "NoConnections" /\ r.ep \in StreamEps
      <3>1. PICK s : s = [r EXCEPT !.stale = FALSE, !.idle = FALSE]
        OBVIOUS
      <3>2. s \in ConnInfo /\ s.ep = r.ep /\ s.raw = r.raw /\ s.pooled = r.pooled /\ s.closed = r.closed /\ s.dead = r.dead /\ s.idle = FALSE
        BY <3>1 DEF ConnInfo
      <3>3. cm = [cn EXCEPT ![w] = s]
        BY <1>1, <2>3, <3>1 DEF Accounted
      <3> QED BY <3>2, <3>3
    <2>4. CASE o = "Protocol" \/ (o = "NoConnections" /\ r.ep \notin StreamEps)
      <3>1. cm = cn
        BY <1>1, <2>4 DEF Accounted
      <3>2. cm = [cn EXCEPT ![w] = r]
        BY <1>1, <3>1
      <3> QED BY <1>1, <3>2
    <2> QED BY <2>1, <2>2, <2>3, <2>4 DEF QueryOutcomes
  <1>3. PICK s \in ConnInfo : /\ cm = [cn EXCEPT ![w] = s]
                              /\ s.ep = r.ep /\ s.raw = r.raw /\ s.pooled = r.pooled /\ s.closed = r.closed
                              /\ (r.dead => s.dead) /\ (s.idle => r.idle) /\ (s.idle => s.stale)
    BY <1>2
  <1>4. cm \in [ConnIds -> ConnInfo] /\ cm[w] = s /\ \A c \in ConnIds : c # w => cm[c] = cn[c]
    BY <1>3
  <1> QED BY <1>1, <1>3, <1>4

(***************************************************************************)
(* DnsPool: the invariant is inductive, one lemma per group of actions.    *)
(***************************************************************************)
LEMMA DnsStep ==
  ASSUME DnsIInv, NEW t \in DnsTasks, Ready(conns', leg', conn'), Held(conns', leg', conn'),
         \A u \in DnsTasks : u # t => leg'[u] = leg[u], GateMoves(gate, gate', leg, leg', t),
         growing' \subseteq StreamEps, warming' \subseteq StreamEps
  PROVE  DnsIInv'
  <1>1. PICK g, lg : g = gate /\ lg = leg
    OBVIOUS
  <1>2. PICK h, lm : h = gate' /\ lm = leg'
    OBVIOUS
  <1>3. g \in [Eps -> SUBSET DnsTasks] /\ Gates(g, lg) /\ GateMoves(g, h, lg, lm, t) /\ \A u \in DnsTasks : u # t => lm[u] = lg[u]
    BY <1>1, <1>2 DEF DnsIInv
  <1>4. h \in [Eps -> SUBSET DnsTasks] /\ Gates(h, lm)
    BY <1>3, GatesHold
  <1> QED BY <1>2, <1>4 DEF DnsIInv

LEMMA Becoming ==
  ASSUME NEW Q, NEW lm, NEW cm, Ready(Q, lm, cm), Becomes(Q, lm, cm)
  PROVE  Ready(conns', leg', conn') /\ Held(conns', leg', conn') /\ leg' = lm
  <1>1. PICK ck : ck = Collect(Q, lm, cm)
    OBVIOUS
  <1>2. Ready(Q, lm, ck) /\ Held(Q, lm, ck)
    BY <1>1, CollectHolds
  <1>3. conns' = Q /\ leg' = lm /\ conn' = ck
    BY <1>1 DEF Becomes
  <1> QED BY <1>2, <1>3

LEMMA FindStep ==
  ASSUME DnsIInv, NEW t \in DnsTasks, NEW e \in Eps, NEW next \in {"cold", "dial"},
         leg[t].pc \in {"rest", "warm", "cold", "wait"}, FindReusable(t, e, next),
         growing' \subseteq StreamEps, warming' \subseteq StreamEps
  PROVE  DnsIInv'
  <1>0. PICK P, lg, cn : P = conns /\ lg = leg /\ cn = conn
    OBVIOUS
  <1>1. Ready(P, lg, cn) /\ P \subseteq ConnIds /\ cn \in [ConnIds -> ConnInfo] /\ lg \in [DnsTasks -> LegInfo]
    BY <1>0 DEF DnsIInv, Ready
  <1>2. PICK gone : gone = Dead
    OBVIOUS
  <1>3. gone \in SUBSET P /\ \A c \in gone : cn[c].dead
    BY <1>0, <1>2 DEF Dead
  <1>4. PICK c \in IF Reusable(e) = {} THEN {NoConn} ELSE Reusable(e) :
          /\ Becomes(Purged, Leg(t, e, IF c = NoConn THEN next ELSE "stamp", c), Close(conn, Dead))
          /\ gate' = IF c = NoConn /\ next = "dial" THEN [gate EXCEPT ![e] = {t}] ELSE gate
    BY DEF FindReusable
  <1>5. c \in ConnIds \cup {NoConn} /\ (c # NoConn => c \in P \ gone /\ cn[c].ep = e)
    BY <1>0, <1>1, <1>2, <1>4 DEF Reusable, LeastUsed, Purged
  <1>6. PICK pc \in LegPcs : pc = IF c = NoConn THEN next ELSE "stamp"
    BY DEF LegPcs
  <1>7. PICK r0 \in LegInfo : r0 = lg[t]
    BY <1>1
  <1>8. PICK r : r = [r0 EXCEPT !.pc = pc, !.ep = e, !.c = c]
    OBVIOUS
  <1>9. r \in LegInfo /\ r.pc = pc /\ r.ep = e /\ r.c = c /\ r.fresh = r0.fresh
    <2>1. r0 \in LegInfo /\ pc \in LegPcs /\ e \in Eps /\ c \in ConnIds \cup {NoConn}
      BY <1>5
    <2> QED BY ONLY <2>1, <1>8 DEF LegInfo
  <1>10. PICK lm : lm = [lg EXCEPT ![t] = r]
    OBVIOUS
  <1>11. PICK cm : cm = Close(cn, gone)
    OBVIOUS
  <1>12. Becomes(P \ gone, lm, cm)
    BY <1>0, <1>2, <1>4, <1>6, <1>7, <1>8, <1>10, <1>11 DEF Leg, Purged
  <1>13. r0.fresh = NoConn
    BY <1>0, <1>1, <1>7 DEF Ready, LegFits
  <1>14. LegFits(t, r, cm)
    <2>1. \A d \in ConnIds : cm[d].ep = cn[d].ep /\ cm[d].raw = cn[d].raw
      BY <1>1, <1>11, CloseMade
    <2>2. c # NoConn => c \in ConnIds /\ cm[c].ep = e /\ ~cm[c].raw
      BY <1>1, <1>5, <2>1 DEF Ready, ConnFits
    <2>3. pc \in {"cold", "dial", "stamp"} /\ (pc = "stamp" <=> c # NoConn)
      BY <1>6
    <2> QED BY <1>9, <1>13, <2>2, <2>3 DEF LegFits, QueryPcs
  <1>15. Ready(P \ gone, lm, cm)
    BY <1>1, <1>3, <1>7, <1>9, <1>10, <1>11, <1>13, <1>14, RetireHolds
  <1>16. Ready(conns', leg', conn') /\ Held(conns', leg', conn') /\ leg' = lm
    BY <1>12, <1>15, Becoming
  <1>17. lm[t] = r /\ \A u \in DnsTasks : u # t => lm[u] = lg[u]
    BY <1>1, <1>9, <1>10, LegMade
  <1>18. GateMoves(gate, gate', leg, leg', t)
    <2>1. leg[t].pc # "dial" /\ leg'[t] = r
      BY <1>16, <1>17
    <2>2. CASE c = NoConn /\ next = "dial"
      BY <1>4, <1>6, <1>9, <2>1, <2>2 DEF GateMoves
    <2>3. CASE ~(c = NoConn /\ next = "dial")
      BY <1>4, <2>1, <2>3 DEF GateMoves
    <2> QED BY <2>2, <2>3
  <1>19. \A u \in DnsTasks : u # t => leg'[u] = leg[u]
    BY <1>0, <1>16, <1>17
  <1> QED BY <1>16, <1>18, <1>19, DnsStep

\* A leg returns, without having touched a connection.
LEMMA ReturnStep ==
  ASSUME DnsIInv, NEW t \in DnsTasks, leg[t].pc \in {"cold", "dial"}, NEW o, LegReturned(t, o),
         UNCHANGED << conns, conn, growing >>, GateMoves(gate, gate', leg, leg', t)
  PROVE  DnsIInv'
  <1>0. PICK P, lg, cn : P = conns /\ lg = leg /\ cn = conn
    OBVIOUS
  <1>1. Ready(P, lg, cn) /\ Held(P, lg, cn) /\ lg \in [DnsTasks -> LegInfo]
    BY <1>0 DEF DnsIInv, Ready
  <1>2. PICK r : r = [AtRest EXCEPT !.pc = IF t = Maintainer THEN "warm" ELSE "rest"]
    OBVIOUS
  <1>3. r \in LegInfo /\ r.pc \in {"warm", "rest"} /\ r.c = NoConn /\ r.fresh = NoConn
    BY <1>2 DEF AtRest, LegInfo, LegPcs
  <1>4. PICK lm : lm = [lg EXCEPT ![t] = r]
    OBVIOUS
  <1>5. leg' = lm
    BY <1>0, <1>2, <1>4 DEF LegReturned
  <1>6. lg[t].c = NoConn /\ lg[t].fresh = NoConn
    BY <1>0, <1>1 DEF Ready, LegFits, QueryPcs
  <1>7. LegFits(t, r, cn)
    BY <1>3 DEF LegFits, QueryPcs
  <1>8. Ready(P, lm, cn) /\ Held(P, lm, cn)
    BY <1>1, <1>3, <1>4, <1>6, <1>7, LegOnly
  <1>9. \A u \in DnsTasks : u # t => leg'[u] = leg[u]
    BY <1>0, <1>1, <1>3, <1>4, <1>5, LegMade
  <1>10. growing' \subseteq StreamEps /\ warming' \subseteq StreamEps
    BY DEF LegReturned, DnsIInv
  <1>11. Ready(conns', leg', conn') /\ Held(conns', leg', conn')
    BY <1>0, <1>5, <1>8
  <1> QED BY <1>9, <1>10, <1>11, DnsStep

\* A leg goes on to another place with what it holds.
LEMMA GotoStep ==
  ASSUME DnsIInv, NEW t \in DnsTasks, NEW pc,
         (leg[t].pc = "cold" /\ pc = "wait") \/ (leg[t].pc = "race" /\ pc = "stale"),
         leg' = LegGoto(t, pc), UNCHANGED << conns, conn, gate, growing, warming >>
  PROVE  DnsIInv'
  <1>0. PICK P, lg, cn : P = conns /\ lg = leg /\ cn = conn
    OBVIOUS
  <1>1. Ready(P, lg, cn) /\ Held(P, lg, cn) /\ lg \in [DnsTasks -> LegInfo]
    BY <1>0 DEF DnsIInv, Ready
  <1>2. PICK r0 \in LegInfo : r0 = lg[t]
    BY <1>1
  <1>3. PICK r : r = [r0 EXCEPT !.pc = pc]
    OBVIOUS
  <1>4. r \in LegInfo /\ r.pc = pc /\ r.ep = r0.ep /\ r.c = r0.c /\ r.fresh = r0.fresh /\ r.late = r0.late
    BY <1>3 DEF LegInfo, LegPcs, QueryPcs
  <1>5. PICK lm : lm = [lg EXCEPT ![t] = r]
    OBVIOUS
  <1>6. leg' = lm
    BY <1>0, <1>2, <1>3, <1>5 DEF LegGoto
  <1>7. LegFits(t, r0, cn) /\ ((r0.pc = "cold" /\ pc = "wait") \/ (r0.pc = "race" /\ pc = "stale"))
    BY <1>0, <1>1, <1>2 DEF Ready
  <1>8. LegFits(t, r, cn)
    BY <1>4, <1>7 DEF LegFits, QueryPcs
  <1>9. Ready(P, lm, cn) /\ Held(P, lm, cn)
    BY <1>1, <1>2, <1>4, <1>5, <1>8, LegOnly
  <1>10. \A u \in DnsTasks : u # t => leg'[u] = leg[u]
    BY <1>0, <1>1, <1>4, <1>5, <1>6, LegMade
  <1>11. Ready(conns', leg', conn') /\ Held(conns', leg', conn')
    BY <1>0, <1>6, <1>9
  <1>12. GateMoves(gate, gate', leg, leg', t)
    BY DEF GateMoves
  <1>13. growing' \subseteq StreamEps /\ warming' \subseteq StreamEps
    BY DEF DnsIInv
  <1> QED BY <1>10, <1>11, <1>12, <1>13, DnsStep

\* What a step of one leg has to show.
LEMMA BecomeStep ==
  ASSUME DnsIInv, NEW t \in DnsTasks, NEW r \in LegInfo, NEW Q, NEW lm, lm = [leg EXCEPT ![t] = r], NEW cm,
         Ready(Q, lm, cm), Becomes(Q, lm, cm), GateMoves(gate, gate', leg, lm, t),
         growing' \subseteq StreamEps, warming' \subseteq StreamEps
  PROVE  DnsIInv'
  <1>1. Ready(conns', leg', conn') /\ Held(conns', leg', conn') /\ leg' = lm
    BY Becoming
  <1>2. leg \in [DnsTasks -> LegInfo]
    BY DEF DnsIInv, Ready
  <1>3. \A u \in DnsTasks : u # t => leg'[u] = leg[u]
    BY <1>1, <1>2
  <1> QED BY <1>1, <1>3, DnsStep

LEMMA WaitStep ==
  ASSUME DnsIInv, NEW t \in DnsTasks, WaitTimesOut(t)
  PROVE  DnsIInv'
  <1>0. PICK P, lg, cn : P = conns /\ lg = leg /\ cn = conn
    OBVIOUS
  <1>1. Ready(P, lg, cn) /\ P \subseteq ConnIds /\ cn \in [ConnIds -> ConnInfo] /\ lg \in [DnsTasks -> LegInfo]
    BY <1>0 DEF DnsIInv, Ready
  <1>2. PICK r \in LegInfo : r = lg[t]
    BY <1>1
  <1>3. LegFits(t, r, cn) /\ r.pc = "wait"
    BY <1>0, <1>1, <1>2 DEF Ready, WaitTimesOut, LegAt
  <1>4. r.ep \in Eps /\ r.c = NoConn /\ r.fresh = NoConn
    BY <1>3 DEF LegFits, QueryPcs
  <1>5. growing' = growing /\ growing \subseteq StreamEps /\ warming \subseteq StreamEps
    BY DEF WaitTimesOut, DnsIInv
  <1>6. CASE \E c \in Reusable(leg[t].ep) :
               /\ Becomes(Purged, Leg(t, leg[t].ep, "stamp", c), Close(conn, Dead))
               /\ UNCHANGED << gate, warming >>
    <2>1. PICK e \in Eps : e = leg[t].ep
      BY <1>0, <1>2, <1>4
    <2>2. PICK c \in Reusable(e) : Becomes(Purged, Leg(t, e, "stamp", c), Close(conn, Dead)) /\ gate' = gate /\ warming' = warming
      BY <1>6, <2>1
    <2>3. c # NoConn
      BY <1>0, <1>1, <2>2, DnsRecords DEF Reusable, LeastUsed, Purged
    <2>4. FindReusable(t, e, "cold")
      BY <2>2, <2>3 DEF FindReusable
    <2> QED BY <1>0, <1>2, <1>3, <1>5, <2>2, <2>4, FindStep
  <1>7. CASE /\ LegReturned(t, "NoConnections") /\ gate' = gate
             /\ conns' = Purged /\ conn' = Collect(Purged, leg, Close(conn, Dead))
    <2>1. PICK gone : gone = Dead
      OBVIOUS
    <2>2. gone \in SUBSET P /\ \A c \in gone : cn[c].dead
      BY <1>0, <2>1 DEF Dead
    <2>3. PICK cm : cm = Close(cn, gone)
      OBVIOUS
    <2>4. lg = [lg EXCEPT ![t] = r]
      BY <1>1, <1>2
    <2>5. LegFits(t, r, cm)
      BY <1>3, <1>4 DEF LegFits, QueryPcs
    <2>6. PICK Q : Q = P \ gone
      OBVIOUS
    <2>7. Ready(Q, lg, cm)
      BY <1>1, <1>2, <1>4, <2>2, <2>3, <2>4, <2>5, <2>6, RetireHolds
    <2>8. PICK ck : ck = Collect(Q, lg, cm)
      OBVIOUS
    <2>9. Ready(Q, lg, ck) /\ Held(Q, lg, ck)
      BY <2>7, <2>8, CollectHolds
    <2>10. conns' = Q /\ conn' = ck
      BY <1>0, <1>7, <2>1, <2>3, <2>6, <2>8 DEF Purged
    <2>11. PICK s : s = [AtRest EXCEPT !.pc = IF t = Maintainer THEN "warm" ELSE "rest"]
      OBVIOUS
    <2>12. s \in LegInfo /\ s.pc \in {"warm", "rest"} /\ s.c = NoConn /\ s.fresh = NoConn
      BY <2>11 DEF AtRest, LegInfo, LegPcs
    <2>13. PICK lm : lm = [lg EXCEPT ![t] = s]
      OBVIOUS
    <2>14. leg' = lm /\ warming' \subseteq StreamEps
      BY <1>0, <1>5, <1>7, <2>11, <2>13 DEF LegReturned
    <2>15. LegFits(t, s, ck)
      BY <2>12 DEF LegFits, QueryPcs
    <2>16. Ready(Q, lm, ck) /\ Held(Q, lm, ck)
      BY <1>2, <1>4, <2>9, <2>12, <2>13, <2>15, LegOnly
    <2>17. \A u \in DnsTasks : u # t => leg'[u] = leg[u]
      BY <1>0, <1>1, <2>12, <2>13, <2>14, LegMade
    <2>18. GateMoves(gate, gate', leg, leg', t)
      BY <1>0, <1>2, <1>3, <1>7 DEF GateMoves
    <2>19. Ready(conns', leg', conn') /\ Held(conns', leg', conn')
      BY <2>10, <2>14, <2>16
    <2> QED BY <1>5, <2>14, <2>17, <2>18, <2>19, DnsStep
  <1> QED BY <1>6, <1>7 DEF WaitTimesOut

\* A task that a stamped borrow or a dial leaves with connection c.
LEMMA StampedFits ==
  ASSUME NEW t \in DnsTasks, NEW r \in LegInfo, NEW e \in Eps, NEW c \in ConnIds, NEW cm, cm[c].ep = e, ~cm[c].raw,
         r.pc = "stamp", r.ep = e, r.c = c, r.fresh = NoConn
  PROVE  LegFits(t, r, cm)
  BY DnsRecords DEF LegFits, QueryPcs

LEMMA DialStep ==
  ASSUME DnsIInv, NEW t \in DnsTasks, DialLands(t)
  PROVE  DnsIInv'
  <1>0. PICK P, lg, cn : P = conns /\ lg = leg /\ cn = conn
    OBVIOUS
  <1>1. Ready(P, lg, cn) /\ P \subseteq ConnIds /\ cn \in [ConnIds -> ConnInfo] /\ lg \in [DnsTasks -> LegInfo]
    BY <1>0 DEF DnsIInv, Ready
  <1>2. PICK r0 \in LegInfo : r0 = lg[t]
    BY <1>1
  <1>3. LegFits(t, r0, cn) /\ r0.pc = "dial"
    BY <1>0, <1>1, <1>2 DEF Ready, DialLands, LegAt
  <1>4. r0.ep \in Eps /\ r0.fresh = NoConn
    BY <1>3 DEF LegFits, QueryPcs
  <1>5. PICK e \in Eps : e = r0.ep
    BY <1>4
  <1>6. growing' \subseteq StreamEps /\ warming' \subseteq StreamEps
    BY DEF DialLands, DnsIInv
  <1>7. ASSUME NEW lm PROVE GateMoves(gate, gate', leg, lm, t)
    BY DEF DialLands, GateFreed, GateMoves
  <1>8. PICK n \in FreeConn :
          \/ /\ ~(e \in StreamEps /\ PoolFull(P))
             /\ Becomes(P \cup {n}, Leg(t, e, "stamp", n), [cn EXCEPT ![n] = [Dialed(e) EXCEPT !.pooled = TRUE]])
          \/ \E c \in IF { d \in P : cn[d].ep = e /\ ~cn[d].dead } = {} THEN {n} ELSE LeastUsed({ d \in P : cn[d].ep = e /\ ~cn[d].dead }) :
                   Becomes(P, Leg(t, e, "stamp", c), [cn EXCEPT ![n] = Dialed(e)])
    BY <1>0, <1>2, <1>5 DEF DialLands
  <1>9. n \in ConnIds /\ cn[n] = Unused
    BY <1>0, <1>8 DEF FreeConn
  <1>10. CASE /\ ~(e \in StreamEps /\ PoolFull(P))
              /\ Becomes(P \cup {n}, Leg(t, e, "stamp", n), [cn EXCEPT ![n] = [Dialed(e) EXCEPT !.pooled = TRUE]])
    <2>1. PICK s : s = [Dialed(e) EXCEPT !.pooled = TRUE]
      OBVIOUS
    <2>2. s \in ConnInfo /\ s.ep = e /\ ~s.closed /\ ~s.idle /\ ~s.raw /\ s.pooled
      BY <2>1 DEF Dialed, Unused, ConnInfo
    <2>3. PICK cm : cm = [cn EXCEPT ![n] = s]
      OBVIOUS
    <2>4. cm[n] = s
      BY <1>1, <1>9, <2>3
    <2>5. PICK r : r = [r0 EXCEPT !.pc = "stamp", !.ep = e, !.c = n]
      OBVIOUS
    <2>6. r \in LegInfo /\ r.fresh = NoConn /\ LegFits(t, r, cm)
      <3>1. r0 \in LegInfo /\ e \in Eps /\ n \in ConnIds
        BY <1>9
      <3>2. r \in LegInfo /\ r.pc = "stamp" /\ r.ep = e /\ r.c = n /\ r.fresh = r0.fresh
        BY ONLY <2>5, <3>1 DEF LegInfo, LegPcs
      <3> QED BY <1>4, <1>9, <2>2, <2>4, <3>2, StampedFits
    <2>7. PICK lm : lm = [lg EXCEPT ![t] = r]
      OBVIOUS
    <2>8. PICK Q : Q = P \cup {n}
      OBVIOUS
    <2>9. s.pooled /\ s.ep \in StreamEps => Cardinality(StreamsIn(P, cn)) < max_conns
      <3>1. ASSUME e \in StreamEps PROVE Cardinality(StreamsIn(P, cn)) < max_conns
        <4>1. StreamsIn(P, cn) = Streams(P)
          BY <1>0 DEF StreamsIn, Streams
        <4>2. ~(Cardinality(StreamsIn(P, cn)) >= max_conns)
          BY <1>10, <3>1, <4>1 DEF PoolFull
        <4>3. IsFiniteSet(StreamsIn(P, cn))
          BY <1>1, FS_Subset DEF Ready, StreamsIn
        <4>4. Cardinality(StreamsIn(P, cn)) \in Nat /\ max_conns \in Nat
          BY <4>3, FS_CardinalityType, DnsPoolAssumption
        <4> QED BY <4>2, <4>4
      <3> QED BY <2>2, <3>1
    <2>10. Ready(Q, lm, cm)
      BY <1>1, <1>2, <1>4, <1>9, <2>2, <2>3, <2>6, <2>7, <2>8, <2>9, DialHolds
    <2>11. Becomes(Q, lm, cm)
      BY <1>0, <1>2, <1>10, <2>1, <2>3, <2>5, <2>7, <2>8 DEF Leg
    <2> QED BY <1>0, <1>6, <1>7, <2>6, <2>7, <2>10, <2>11, BecomeStep
  <1>11. CASE \E c \in IF { d \in P : cn[d].ep = e /\ ~cn[d].dead } = {} THEN {n} ELSE LeastUsed({ d \in P : cn[d].ep = e /\ ~cn[d].dead }) :
                   Becomes(P, Leg(t, e, "stamp", c), [cn EXCEPT ![n] = Dialed(e)])
    <2>1. PICK s : s = Dialed(e)
      OBVIOUS
    <2>2. s \in ConnInfo /\ s.ep = e /\ ~s.closed /\ ~s.idle /\ ~s.raw /\ ~s.pooled
      BY <2>1 DEF Dialed, Unused, ConnInfo
    <2>3. PICK cm : cm = [cn EXCEPT ![n] = s]
      OBVIOUS
    <2>4. cm[n] = s /\ \A d \in P : d # n => cm[d] = cn[d]
      BY <1>1, <1>9, <2>3
    <2>5. PICK c \in {n} \cup { d \in P : cn[d].ep = e } : Becomes(P, Leg(t, e, "stamp", c), cm)
      BY <1>0, <1>11, <2>1, <2>3 DEF LeastUsed
    <2>6. c \in ConnIds /\ cm[c].ep = e /\ ~cm[c].raw
      BY <1>1, <1>9, <2>2, <2>4, <2>5 DEF Ready, ConnFits
    <2>7. PICK r : r = [r0 EXCEPT !.pc = "stamp", !.ep = e, !.c = c]
      OBVIOUS
    <2>8. r \in LegInfo /\ r.fresh = NoConn /\ LegFits(t, r, cm)
      <3>1. r0 \in LegInfo /\ e \in Eps /\ c \in ConnIds
        BY <2>6
      <3>2. r \in LegInfo /\ r.pc = "stamp" /\ r.ep = e /\ r.c = c /\ r.fresh = r0.fresh
        BY ONLY <2>7, <3>1 DEF LegInfo, LegPcs
      <3> QED BY <1>4, <2>6, <3>2, StampedFits
    <2>9. PICK lm : lm = [lg EXCEPT ![t] = r]
      OBVIOUS
    <2>10. Ready(P, lm, cm)
      BY <1>1, <1>2, <1>4, <1>9, <2>2, <2>3, <2>8, <2>9, DialHolds
    <2>11. Becomes(P, lm, cm)
      BY <1>0, <1>2, <2>5, <2>7, <2>9 DEF Leg
    <2> QED BY <1>0, <1>6, <1>7, <2>8, <2>9, <2>10, <2>11, BecomeStep
  <1> QED BY <1>8, <1>10, <1>11

LEMMA StampStep ==
  ASSUME DnsIInv, NEW t \in DnsTasks, Stamp(t)
  PROVE  DnsIInv'
  <1>0. PICK P, lg, cn : P = conns /\ lg = leg /\ cn = conn
    OBVIOUS
  <1>1. Ready(P, lg, cn) /\ P \subseteq ConnIds /\ cn \in [ConnIds -> ConnInfo] /\ lg \in [DnsTasks -> LegInfo]
    BY <1>0 DEF DnsIInv, Ready
  <1>2. PICK r0 \in LegInfo : r0 = lg[t]
    BY <1>1
  <1>3. LegFits(t, r0, cn) /\ r0.pc = "stamp"
    BY <1>0, <1>1, <1>2 DEF Ready, Stamp, LegAt
  <1>4. r0.ep \in Eps /\ r0.fresh = NoConn /\ r0.c # NoConn /\ r0.c \in ConnIds
    BY <1>3, LegFields DEF LegFits, QueryPcs
  <1>5. PICK c \in ConnIds : c = r0.c
    BY <1>4
  <1>6. growing' \subseteq StreamEps /\ warming' \subseteq StreamEps
    BY DEF Stamp, DnsIInv
  <1>7. ASSUME NEW lm PROVE GateMoves(gate, gate', leg, lm, t)
    BY <1>0, <1>2, <1>3 DEF Stamp, GateMoves
  <1>8. PICK k \in ConnInfo : k = cn[c]
    BY <1>1
  <1>9. PICK s : s = [k EXCEPT !.idle = FALSE]
    OBVIOUS
  <1>10. /\ s \in ConnInfo /\ s.ep = k.ep /\ s.raw = k.raw /\ s.pooled = k.pooled /\ s.dead = k.dead
         /\ s.closed = k.closed /\ s.idle = FALSE
    BY <1>9 DEF ConnInfo
  <1>11. PICK cm : cm = [cn EXCEPT ![c] = s]
    OBVIOUS
  <1>12. cm \in [ConnIds -> ConnInfo] /\ cm[c] = s /\ \A d \in ConnIds : d # c => cm[d] = cn[d]
    BY <1>1, <1>10, <1>11
  <1>13. Evolves(P, cn, P, cm, NoConn)
    <2>1. \A d \in ConnIds : cn[d].idle => cn[d].stale
      BY <1>1 DEF Ready, ConnFits
    <2> QED BY <1>8, <1>10, <1>12, <2>1 DEF Evolves
  <1>14. CASE t = Maintainer
    <2>1. PICK r : r = [AtRest EXCEPT !.pc = "warm"]
      OBVIOUS
    <2>2. r \in LegInfo /\ r.pc = "warm" /\ r.c = NoConn /\ r.fresh = NoConn
      BY <2>1 DEF AtRest, LegInfo, LegPcs
    <2>3. LegFits(t, r, cm)
      BY <2>2 DEF LegFits, QueryPcs
    <2>4. PICK lm : lm = [lg EXCEPT ![t] = r]
      OBVIOUS
    <2>5. Ready(P, lm, cm)
      BY <1>1, <1>2, <1>4, <1>12, <1>13, <2>2, <2>3, <2>4, TouchHolds
    <2>6. Becomes(P, lm, cm)
      BY <1>0, <1>2, <1>5, <1>8, <1>9, <1>11, <1>14, <2>1, <2>4 DEF Stamp
    <2> QED BY <1>0, <1>6, <1>7, <2>2, <2>4, <2>5, <2>6, BecomeStep
  <1>15. CASE t # Maintainer
    <2>1. PICK pc \in {"race", "query"} : pc = IF IsStale(c) THEN "race" ELSE "query"
      OBVIOUS
    <2>2. PICK b \in BOOLEAN : b = k.closed
      BY ConnFields
    <2>3. PICK r : r = [r0 EXCEPT !.pc = pc, !.late = b]
      OBVIOUS
    <2>4. r \in LegInfo /\ r.pc = pc /\ r.late = b /\ r.ep = r0.ep /\ r.c = c /\ r.fresh = NoConn
      BY <1>4, <1>5, <2>1, <2>3 DEF LegInfo, LegPcs, QueryPcs
    <2>5. LegFits(t, r, cm)
      <3>1. t \in DnsLegs
        BY <1>15 DEF DnsTasks
      <3>2. cm[c].ep = r0.ep /\ ~cm[c].raw /\ ~cm[c].idle /\ (cm[c].closed => b)
        BY <1>3, <1>4, <1>5, <1>8, <1>10, <1>12, <2>2 DEF LegFits
      <3> QED BY <1>4, <2>4, <3>1, <3>2, DnsRecords DEF LegFits, QueryPcs
    <2>6. PICK lm : lm = [lg EXCEPT ![t] = r]
      OBVIOUS
    <2>7. Ready(P, lm, cm)
      BY <1>1, <1>2, <1>4, <1>12, <1>13, <2>4, <2>5, <2>6, TouchHolds
    <2>8. Becomes(P, lm, cm)
      BY <1>0, <1>2, <1>5, <1>8, <1>9, <1>11, <1>15, <2>1, <2>2, <2>3, <2>6 DEF Stamp
    <2> QED BY <1>0, <1>6, <1>7, <2>4, <2>6, <2>7, <2>8, BecomeStep
  <1> QED BY <1>14, <1>15

\* A leg ends, and with it its references.
LEMMA DoneStep ==
  ASSUME DnsIInv, NEW t \in DnsTasks, NEW Q, NEW lm, lm = [leg EXCEPT ![t] = AtRest], NEW cm, Ready(Q, lm, cm), LegDone(t, Q, cm),
         GateMoves(gate, gate', leg, lm, t), growing' \subseteq StreamEps, warming' \subseteq StreamEps
  PROVE  DnsIInv'
  <1>1. AtRest \in LegInfo
    BY DnsRecords
  <1>2. Becomes(Q, lm, cm)
    BY DEF LegDone
  <1> QED BY <1>1, <1>2, BecomeStep

LEMMA AtRestFits ==
  ASSUME NEW t, NEW cm
  PROVE  LegFits(t, AtRest, cm)
  BY DnsRecords DEF LegFits, QueryPcs

\* The end of a query whose race, if any, has no fresh connection.
LEMMA QueryStep ==
  ASSUME DnsIInv, NEW t \in DnsTasks, NEW o \in QueryOutcomes, leg[t].pc \in QueryPcs, leg[t].fresh = NoConn,
         LegDone(t, conns, Accounted(conn, leg[t].c, o)), gate' = gate,
         growing' \subseteq StreamEps, warming' = warming
  PROVE  DnsIInv'
  <1>0. PICK P, lg, cn : P = conns /\ lg = leg /\ cn = conn
    OBVIOUS
  <1>1. Ready(P, lg, cn) /\ P \subseteq ConnIds /\ cn \in [ConnIds -> ConnInfo] /\ lg \in [DnsTasks -> LegInfo]
    BY <1>0 DEF DnsIInv, Ready
  <1>2. PICK r0 \in LegInfo : r0 = lg[t]
    BY <1>1
  <1>3. LegFits(t, r0, cn) /\ r0.pc \in QueryPcs /\ r0.fresh = NoConn
    BY <1>0, <1>1, <1>2 DEF Ready
  <1>4. PICK w \in ConnIds : w = r0.c
    BY <1>3, LegFields DEF LegFits
  <1>5. \A d \in ConnIds : cn[d].idle => cn[d].stale
    BY <1>1 DEF Ready, ConnFits
  <1>6. PICK cm : cm = Accounted(cn, w, o)
    OBVIOUS
  <1>7. /\ cm \in [ConnIds -> ConnInfo] /\ \A c \in ConnIds : c # w => cm[c] = cn[c]
        /\ cm[w].ep = cn[w].ep /\ cm[w].raw = cn[w].raw /\ cm[w].pooled = cn[w].pooled /\ cm[w].closed = cn[w].closed
        /\ (cn[w].dead => cm[w].dead) /\ (cm[w].idle => cn[w].idle) /\ (cm[w].idle => cm[w].stale)
    BY <1>1, <1>5, <1>6, AccountedMade
  <1>8. Evolves(P, cn, P, cm, NoConn)
    BY <1>5, <1>7 DEF Evolves
  <1>9. PICK lm : lm = [lg EXCEPT ![t] = AtRest]
    OBVIOUS
  <1>10. AtRest \in LegInfo /\ AtRest.fresh = NoConn /\ LegFits(t, AtRest, cm)
    BY DnsRecords, AtRestFits
  <1>11. Ready(P, lm, cm)
    BY <1>1, <1>2, <1>3, <1>7, <1>8, <1>9, <1>10, TouchHolds
  <1>12. LegDone(t, P, cm)
    BY <1>0, <1>2, <1>4, <1>6
  <1>13. GateMoves(gate, gate', leg, lm, t)
    BY <1>0, <1>2, <1>3 DEF GateMoves, QueryPcs
  <1>14. warming' \subseteq StreamEps
    BY DEF DnsIInv
  <1> QED BY <1>0, <1>9, <1>11, <1>12, <1>13, <1>14, DoneStep

LEMMA FreshDialStep ==
  ASSUME DnsIInv, NEW t \in DnsTasks, FreshDialed(t)
  PROVE  DnsIInv'
  <1>0. PICK P, lg, cn : P = conns /\ lg = leg /\ cn = conn
    OBVIOUS
  <1>1. /\ Ready(P, lg, cn) /\ P \subseteq ConnIds /\ cn \in [ConnIds -> ConnInfo] /\ lg \in [DnsTasks -> LegInfo]
        /\ Held(P, lg, cn)
    BY <1>0 DEF DnsIInv, Ready
  <1>2. PICK r0 \in LegInfo : r0 = lg[t]
    BY <1>1
  <1>3. LegFits(t, r0, cn) /\ r0.pc = "race"
    BY <1>0, <1>1, <1>2 DEF Ready, FreshDialed, LegAt
  <1>4. /\ r0.ep \in Eps /\ r0.fresh = NoConn /\ r0.c # NoConn /\ r0.c \in ConnIds /\ cn[r0.c].ep = r0.ep /\ ~cn[r0.c].raw
        /\ t \in DnsLegs /\ ~cn[r0.c].idle /\ (cn[r0.c].closed => cn[r0.c].dead \/ r0.late)
    BY <1>3, LegFields DEF LegFits, QueryPcs
  <1>5. PICK e \in Eps : e = r0.ep
    BY <1>4
  <1>6. PICK n \in FreeConn :
          /\ conn' = [cn EXCEPT ![n] = [Dialed(e) EXCEPT !.raw = TRUE]]
          /\ leg' = [lg EXCEPT ![t].pc = "both", ![t].fresh = n]
    BY <1>0, <1>2, <1>5 DEF FreshDialed
  <1>7. n \in ConnIds /\ cn[n] = Unused /\ n # NoConn
    BY <1>0, <1>6, DnsRecords DEF FreeConn
  <1>8. PICK s : s = [Dialed(e) EXCEPT !.raw = TRUE]
    OBVIOUS
  <1>9. s \in ConnInfo /\ s.ep = e /\ ~s.closed /\ ~s.idle /\ s.raw /\ ~s.pooled
    BY <1>8 DEF Dialed, Unused, ConnInfo
  <1>10. PICK cm : cm = [cn EXCEPT ![n] = s]
    OBVIOUS
  <1>11. cm[n] = s /\ \A d \in ConnIds : d # n => cm[d] = cn[d]
    BY <1>1, <1>7, <1>10
  <1>12. PICK r : r = [r0 EXCEPT !.pc = "both", !.fresh = n]
    OBVIOUS
  <1>13. r \in LegInfo /\ r.pc = "both" /\ r.fresh = n /\ r.ep = e /\ r.c = r0.c /\ r.late = r0.late
    <2>1. r0 \in LegInfo /\ n \in ConnIds /\ r0.ep = e
      BY <1>5, <1>7
    <2> QED BY ONLY <1>12, <2>1 DEF LegInfo, LegPcs, QueryPcs
  <1>14. PICK lm : lm = [lg EXCEPT ![t] = r]
    OBVIOUS
  <1>15. \A u \in DnsTasks : lg[u].c # n /\ lg[u].fresh # n
    BY <1>1, <1>7, UnusedApart
  <1>16. r0.c # n
    BY <1>2, <1>15
  <1>17. LegFits(t, r, cm)
    <2>1. cm[r.c] = cn[r0.c] /\ cm[r.fresh] = s
      BY <1>4, <1>11, <1>13, <1>16
    <2> QED BY <1>4, <1>5, <1>7, <1>9, <1>13, <2>1 DEF LegFits, QueryPcs
  <1>18. Ready(P, lm, cm)
    <2>1. n \in ConnIds /\ cn[n] = Unused
      BY <1>7
    <2>2. s \in ConnInfo /\ s.ep \in Eps /\ ~s.closed /\ ~s.idle /\ (s.pooled => ~s.raw) /\ ~s.pooled
      BY <1>9
    <2>3. P = IF s.pooled THEN P \cup {n} ELSE P
      BY <2>2
    <2>4. r \in LegInfo /\ lg[t].fresh = NoConn /\ r.fresh = IF s.raw THEN n ELSE NoConn
      BY <1>2, <1>4, <1>9, <1>13
    <2>5. s.pooled /\ s.ep \in StreamEps => Cardinality(StreamsIn(P, cn)) < max_conns
      BY <2>2
    <2>6. Ready(P, lg, cn)
      BY <1>1
    <2> QED BY ONLY t \in DnsTasks, <1>10, <1>14, <1>17, <2>1, <2>2, <2>3, <2>4, <2>5, <2>6, DialHolds
  <1>19. leg' = lm /\ conn' = cm /\ conns' = P
    BY <1>0, <1>1, <1>2, <1>6, <1>8, <1>10, <1>12, <1>14 DEF FreshDialed
  <1>20. lm[t] = r /\ \A u \in DnsTasks : u # t => lm[u] = lg[u]
    BY <1>1, <1>13, <1>14, LegMade
  <1>21. Held(P, lm, cm)
    <2>1. SUFFICES ASSUME NEW c \in ConnIds, cm[c] # Unused PROVE Referenced(c, P, lm)
      BY DEF Held
    <2>2. CASE c = n
      BY <1>13, <1>20, <2>2 DEF Referenced
    <2>3. CASE c # n
      <3>1. Referenced(c, P, lg)
        BY <1>1, <1>11, <2>1, <2>3 DEF Held
      <3>2. CASE c \in P
        BY <3>2 DEF Referenced
      <3>3. CASE \E u \in DnsTasks : c \in {lg[u].c, lg[u].fresh}
        <4>1. PICK u \in DnsTasks : c = lg[u].c \/ c = lg[u].fresh
          BY <3>3
        <4>2. c # NoConn
          BY DnsRecords
        <4>3. c = lm[u].c \/ c = lm[u].fresh
          BY <1>2, <1>4, <1>13, <1>20, <4>1, <4>2
        <4> QED BY <4>3 DEF Referenced
      <3> QED BY <3>1, <3>2, <3>3 DEF Referenced
    <2> QED BY <2>2, <2>3
  <1>22. GateMoves(gate, gate', leg, leg', t)
    BY <1>0, <1>2, <1>3 DEF FreshDialed, GateMoves
  <1>23. growing' \subseteq StreamEps /\ warming' \subseteq StreamEps
    BY DEF FreshDialed, DnsIInv
  <1>24. \A u \in DnsTasks : u # t => leg'[u] = leg[u]
    BY <1>0, <1>19, <1>20
  <1>25. Ready(conns', leg', conn') /\ Held(conns', leg', conn')
    BY <1>18, <1>19, <1>21
  <1> QED BY <1>22, <1>23, <1>24, <1>25, DnsStep

LEMMA FreshFailStep ==
  ASSUME DnsIInv, NEW t \in DnsTasks, FreshFails(t)
  PROVE  DnsIInv'
  <1>0. PICK P, lg, cn : P = conns /\ lg = leg /\ cn = conn
    OBVIOUS
  <1>1. Ready(P, lg, cn) /\ P \subseteq ConnIds /\ cn \in [ConnIds -> ConnInfo] /\ lg \in [DnsTasks -> LegInfo]
    BY <1>0 DEF DnsIInv, Ready
  <1>2. PICK r0 \in LegInfo : r0 = lg[t]
    BY <1>1
  <1>3. LegFits(t, r0, cn) /\ r0.pc = "both"
    BY <1>0, <1>1, <1>2 DEF Ready, FreshFails, LegAt
  <1>4. /\ r0.ep \in Eps /\ r0.c # NoConn /\ r0.c \in ConnIds /\ cn[r0.c].ep = r0.ep /\ ~cn[r0.c].raw
        /\ t \in DnsLegs /\ ~cn[r0.c].idle /\ (cn[r0.c].closed => cn[r0.c].dead \/ r0.late)
    BY <1>3, LegFields DEF LegFits, QueryPcs
  <1>5. PICK f \in ConnIds : f = r0.fresh
    BY <1>3, LegFields DEF LegFits
  <1>6. f \notin P /\ ~cn[f].pooled /\ r0.c # f
    BY <1>1, <1>2, <1>5, FreshIsOwn
  <1>7. PICK gone : gone = {f}
    OBVIOUS
  <1>8. PICK cm : cm = Close(cn, gone)
    OBVIOUS
  <1>9. /\ cm \in [ConnIds -> ConnInfo]
        /\ \A c \in ConnIds : /\ cm[c].ep = cn[c].ep /\ cm[c].raw = cn[c].raw /\ cm[c].pooled = cn[c].pooled
                              /\ cm[c].dead = cn[c].dead /\ cm[c].idle = cn[c].idle /\ cm[c].stale = cn[c].stale
                              /\ cm[c].closed = (c \in gone \/ cn[c].closed)
    BY <1>1, <1>8, CloseMade
  <1>10. \A c \in ConnIds : c # f => cm[c] = cn[c]
    BY <1>7, <1>8 DEF Close
  <1>11. \A c \in ConnIds : cn[c].idle => cn[c].stale
    BY <1>1 DEF Ready, ConnFits
  <1>12. Evolves(P, cn, P, cm, f)
    BY <1>10, <1>11 DEF Evolves
  <1>13. PICK r : r = [r0 EXCEPT !.pc = "stale", !.fresh = NoConn]
    OBVIOUS
  <1>14. r \in LegInfo /\ r.pc = "stale" /\ r.fresh = NoConn /\ r.ep = r0.ep /\ r.c = r0.c /\ r.late = r0.late
    BY <1>13 DEF LegInfo, LegPcs, QueryPcs
  <1>15. LegFits(t, r, cm)
    <2>1. cm[r.c] = cn[r0.c]
      BY <1>4, <1>6, <1>10, <1>14
    <2> QED BY <1>4, <1>14, <2>1 DEF LegFits, QueryPcs
  <1>16. PICK lm : lm = [lg EXCEPT ![t] = r]
    OBVIOUS
  <1>17. ~cm[f].pooled /\ cm[f].closed /\ (cm[f].idle => cm[f].stale)
    BY <1>6, <1>7, <1>9, <1>11
  <1>18. Ready(P, lm, cm)
    BY <1>1, <1>2, <1>5, <1>6, <1>9, <1>12, <1>14, <1>15, <1>16, <1>17, RaceHolds
  <1>19. Becomes(P, lm, cm)
    BY <1>0, <1>1, <1>2, <1>5, <1>7, <1>8, <1>13, <1>16 DEF FreshFails
  <1>20. GateMoves(gate, gate', leg, lm, t)
    BY <1>0, <1>2, <1>3 DEF FreshFails, GateMoves
  <1>21. growing' \subseteq StreamEps /\ warming' \subseteq StreamEps
    BY DEF FreshFails, DnsIInv
  <1> QED BY <1>0, <1>14, <1>16, <1>18, <1>19, <1>20, <1>21, BecomeStep

LEMMA AbortStep ==
  ASSUME DnsIInv, NEW t \in DnsTasks, Abort(t)
  PROVE  DnsIInv'
  <1>0. PICK P, lg, cn : P = conns /\ lg = leg /\ cn = conn
    OBVIOUS
  <1>1. Ready(P, lg, cn) /\ P \subseteq ConnIds /\ cn \in [ConnIds -> ConnInfo] /\ lg \in [DnsTasks -> LegInfo]
    BY <1>0 DEF DnsIInv, Ready
  <1>2. PICK cm : cm = [c \in ConnIds |-> IF c = lg[t].fresh THEN Unused ELSE cn[c]]
    OBVIOUS
  <1>3. cm \in [ConnIds -> ConnInfo] /\ \A c \in ConnIds : c # lg[t].fresh => cm[c] = cn[c]
    BY <1>1, <1>2, DnsRecords
  <1>4. PICK lm : lm = [lg EXCEPT ![t] = AtRest]
    OBVIOUS
  <1>5. AtRest \in LegInfo /\ AtRest.fresh = NoConn /\ LegFits(t, AtRest, cm)
    BY DnsRecords, AtRestFits
  <1>6. \A c \in ConnIds : cn[c].idle => cn[c].stale
    BY <1>1 DEF Ready, ConnFits
  <1>7. Ready(P, lm, cm)
    <2>1. CASE lg[t].fresh = NoConn
      <3>1. \A c \in ConnIds : cm[c] = cn[c]
        BY <1>3, <2>1, DnsRecords
      <3>2. Evolves(P, cn, P, cm, NoConn)
        BY <1>6, <3>1 DEF Evolves
      <3> QED BY <1>1, <1>3, <1>4, <1>5, <2>1, <3>2, TouchHolds
    <2>2. CASE lg[t].fresh # NoConn
      <3>1. PICK f \in ConnIds : f = lg[t].fresh
        BY <1>1, <2>2, LegFields
      <3>2. f \notin P
        BY <1>1, <3>1, FreshIsOwn
      <3>3. cm[f] = Unused
        BY <1>2, <3>1
      <3>4. Evolves(P, cn, P, cm, f)
        BY <1>3, <1>6, <3>1 DEF Evolves
      <3>5. ~cm[f].pooled /\ ~cm[f].raw /\ ~cm[f].idle
        BY <3>3, DnsRecords
      <3> QED BY <1>1, <1>3, <1>4, <1>5, <3>1, <3>2, <3>4, <3>5, RaceHolds
    <2> QED BY <2>1, <2>2
  <1>8. LegDone(t, P, cm)
    BY <1>0, <1>2 DEF Abort
  <1>9. GateMoves(gate, gate', leg, lm, t)
    BY DEF Abort, GateFreed, GateMoves
  <1>10. growing' \subseteq StreamEps /\ warming' \subseteq StreamEps
    BY DEF Abort, DnsIInv
  <1> QED BY <1>0, <1>4, <1>7, <1>8, <1>9, <1>10, DoneStep

\* The vector has room, in the terms of the invariant.
LEMMA RoomIsThere ==
  ASSUME NEW Q, IsFiniteSet(Q), NEW cn, cn = conn, ~PoolFull(Q)
  PROVE  Cardinality(StreamsIn(Q, cn)) < max_conns
  <1>1. StreamsIn(Q, cn) = Streams(Q)
    BY DEF StreamsIn, Streams
  <1>2. ~(Cardinality(StreamsIn(Q, cn)) >= max_conns)
    BY <1>1 DEF PoolFull
  <1>3. IsFiniteSet(StreamsIn(Q, cn))
    BY FS_Subset DEF StreamsIn
  <1>4. Cardinality(StreamsIn(Q, cn)) \in Nat /\ max_conns \in Nat
    BY <1>3, FS_CardinalityType, DnsPoolAssumption
  <1> QED BY <1>2, <1>4

\* The stale leg of a race ends it, with the fresh connection f at hand.
LEMMA StaleStep ==
  ASSUME DnsIInv, NEW t \in DnsTasks, NEW o \in QueryOutcomes, StaleEnds(t, o), leg[t].fresh # NoConn,
         growing' \subseteq StreamEps
  PROVE  DnsIInv'
  <1>0. PICK P, lg, cn : P = conns /\ lg = leg /\ cn = conn
    OBVIOUS
  <1>1. Ready(P, lg, cn) /\ P \subseteq ConnIds /\ cn \in [ConnIds -> ConnInfo] /\ lg \in [DnsTasks -> LegInfo]
    BY <1>0 DEF DnsIInv, Ready
  <1>2. PICK r0 \in LegInfo : r0 = lg[t]
    BY <1>1
  <1>3. LegFits(t, r0, cn) /\ r0.fresh # NoConn
    BY <1>0, <1>1, <1>2 DEF Ready
  <1>4. r0.pc = "both"
    BY <1>3 DEF LegFits
  <1>5. PICK f \in ConnIds : f = r0.fresh
    BY <1>3, LegFields
  <1>6. PICK w \in ConnIds : w = r0.c
    BY <1>3, <1>4, LegFields DEF LegFits, QueryPcs
  <1>7. f \notin P /\ ~cn[f].pooled /\ ~cn[f].closed /\ cn[f].ep \in Eps /\ w # f
    BY <1>1, <1>2, <1>5, <1>6, FreshIsOwn
  <1>8. \A c \in ConnIds : cn[c].idle => cn[c].stale
    BY <1>1 DEF Ready, ConnFits
  <1>9. PICK k \in ConnInfo : k = cn[f]
    BY <1>1
  <1>10. PICK lm : lm = [lg EXCEPT ![t] = AtRest]
    OBVIOUS
  <1>11. ASSUME NEW cm PROVE AtRest \in LegInfo /\ AtRest.fresh = NoConn /\ LegFits(t, AtRest, cm)
    BY DnsRecords, AtRestFits
  <1>12. GateMoves(gate, gate', leg, lm, t)
    BY <1>0, <1>2, <1>4 DEF StaleEnds, GateMoves
  <1>13. warming' \subseteq StreamEps
    BY DEF DnsIInv, StaleEnds
  <1>14. ASSUME NEW cx \in [ConnIds -> ConnInfo], \A c \in ConnIds : c # f => cx[c] = cn[c],
                NEW Q, Q = P \/ Q = P \cup {f}, NEW cm, cm = Accounted(cx, w, o)
         PROVE  cm \in [ConnIds -> ConnInfo] /\ Evolves(P, cn, Q, cm, f) /\ cm[f] = cx[f]
    <2>1. cx[w] = cn[w]
      BY <1>7, <1>14
    <2>2. /\ cm \in [ConnIds -> ConnInfo] /\ \A c \in ConnIds : c # w => cm[c] = cx[c]
          /\ cm[w].ep = cx[w].ep /\ cm[w].raw = cx[w].raw /\ cm[w].pooled = cx[w].pooled /\ cm[w].closed = cx[w].closed
          /\ (cx[w].dead => cm[w].dead) /\ (cm[w].idle => cx[w].idle) /\ (cm[w].idle => cm[w].stale)
      BY <1>8, <1>14, <2>1, AccountedMade
    <2>3. \A c \in ConnIds : c # f => (c \in Q <=> c \in P)
      BY <1>14
    <2>4. Evolves(P, cn, Q, cm, f)
      BY <1>8, <1>14, <2>1, <2>2, <2>3 DEF Evolves
    <2> QED BY <1>7, <2>2, <2>4
  <1>15. CASE ~PoolFull(conns) /\ LegDone(t, conns \cup {f}, Accounted([Wrapped(conn, f) EXCEPT ![f].pooled = TRUE], leg[t].c, o))
    <2>1. PICK k1 : k1 = [k EXCEPT !.raw = FALSE]
      OBVIOUS
    <2>2. /\ k1 \in ConnInfo /\ k1.ep = k.ep /\ ~k1.raw /\ k1.closed = k.closed /\ k1.idle = k.idle /\ k1.stale = k.stale
      BY <2>1 DEF ConnInfo
    <2>3. PICK k2 : k2 = [k1 EXCEPT !.pooled = TRUE]
      OBVIOUS
    <2>4. /\ k2 \in ConnInfo /\ k2.ep = k.ep /\ ~k2.raw /\ k2.pooled /\ k2.closed = k.closed /\ k2.idle = k.idle /\ k2.stale = k.stale
      BY <2>2, <2>3 DEF ConnInfo
    <2>5. PICK cx : cx = [Wrapped(cn, f) EXCEPT ![f].pooled = TRUE]
      OBVIOUS
    <2>6. cx = [cn EXCEPT ![f] = k2]
      <3>1. PICK c1 : c1 = [cn EXCEPT ![f] = k1]
        OBVIOUS
      <3>2. Wrapped(cn, f) = c1 /\ c1[f] = k1
        BY <1>1, <1>9, <2>1, <3>1 DEF Wrapped
      <3> QED BY <1>1, <2>3, <2>5, <3>1, <3>2
    <2>7. cx \in [ConnIds -> ConnInfo] /\ cx[f] = k2 /\ \A c \in ConnIds : c # f => cx[c] = cn[c]
      BY <1>1, <2>4, <2>6
    <2>8. PICK Q \in SUBSET ConnIds : Q = P \cup {f}
      BY <1>1
    <2>9. PICK cm : cm = Accounted(cx, w, o)
      OBVIOUS
    <2>10. cm \in [ConnIds -> ConnInfo] /\ Evolves(P, cn, Q, cm, f) /\ cm[f] = k2
      BY <1>14, <2>7, <2>8, <2>9
    <2>11. Cardinality(StreamsIn(Q \ {f}, cm)) < max_conns
      <3>1. Cardinality(StreamsIn(P, cn)) < max_conns
        BY <1>0, <1>1, <1>15, RoomIsThere DEF Ready
      <3>2. StreamsIn(Q \ {f}, cm) = StreamsIn(P, cn)
        BY <1>1, <1>7, <2>8, <2>10 DEF StreamsIn, Evolves
      <3> QED BY <3>1, <3>2
    <2>12. f \in Q /\ cm[f].pooled /\ ~cm[f].closed /\ ~cm[f].raw /\ cm[f].ep \in Eps /\ (cm[f].idle => cm[f].stale)
      BY <1>7, <1>8, <1>9, <2>4, <2>8, <2>10
    <2>13. Ready(Q, lm, cm)
      BY <1>1, <1>2, <1>5, <1>10, <1>11, <2>10, <2>11, <2>12, RaceHolds
    <2>14. LegDone(t, Q, cm)
      BY <1>0, <1>2, <1>6, <1>15, <2>5, <2>8, <2>9
    <2> QED BY <1>0, <1>10, <1>12, <1>13, <2>13, <2>14, DoneStep
  <1>16. CASE LegDone(t, conns, Accounted(Close(conn, {f}), leg[t].c, o))
    <2>1. PICK gone : gone = {f}
      OBVIOUS
    <2>2. PICK cx : cx = Close(cn, gone)
      OBVIOUS
    <2>3. /\ cx \in [ConnIds -> ConnInfo]
          /\ \A c \in ConnIds : /\ cx[c].ep = cn[c].ep /\ cx[c].raw = cn[c].raw /\ cx[c].pooled = cn[c].pooled
                                /\ cx[c].dead = cn[c].dead /\ cx[c].idle = cn[c].idle /\ cx[c].stale = cn[c].stale
                                /\ cx[c].closed = (c \in gone \/ cn[c].closed)
      BY <1>1, <2>2, CloseMade
    <2>4. \A c \in ConnIds : c # f => cx[c] = cn[c]
      BY <2>1, <2>2 DEF Close
    <2>5. PICK cm : cm = Accounted(cx, w, o)
      OBVIOUS
    <2>6. cm \in [ConnIds -> ConnInfo] /\ Evolves(P, cn, P, cm, f) /\ cm[f] = cx[f]
      BY <1>14, <2>3, <2>4, <2>5
    <2>7. ~cm[f].pooled /\ cm[f].closed /\ (cm[f].idle => cm[f].stale)
      BY <1>7, <1>8, <2>1, <2>3, <2>6
    <2>8. Ready(P, lm, cm)
      BY <1>1, <1>2, <1>5, <1>7, <1>10, <1>11, <2>6, <2>7, RaceHolds
    <2>9. LegDone(t, P, cm)
      BY <1>0, <1>2, <1>6, <1>16, <2>1, <2>2, <2>5
    <2> QED BY <1>0, <1>10, <1>12, <1>13, <2>8, <2>9, DoneStep
  <1> QED BY <1>0, <1>2, <1>3, <1>5, <1>15, <1>16 DEF StaleEnds

\* The fresh connection f answers and, when there is room, takes the place of w.
LEMMA FreshAnswerStep ==
  ASSUME DnsIInv, NEW t \in DnsTasks, NEW o \in QueryOutcomes, FreshAnswers(t, o)
  PROVE  DnsIInv'
  <1>0. PICK P, lg, cn : P = conns /\ lg = leg /\ cn = conn
    OBVIOUS
  <1>1. Ready(P, lg, cn) /\ P \subseteq ConnIds /\ cn \in [ConnIds -> ConnInfo] /\ lg \in [DnsTasks -> LegInfo]
    BY <1>0 DEF DnsIInv, Ready
  <1>2. PICK r0 \in LegInfo : r0 = lg[t]
    BY <1>1
  <1>3. LegFits(t, r0, cn) /\ r0.pc = "both"
    BY <1>0, <1>1, <1>2 DEF Ready, FreshAnswers, LegAt
  <1>4. PICK f \in ConnIds : f = r0.fresh
    BY <1>3, LegFields DEF LegFits
  <1>5. PICK w \in ConnIds : w = r0.c
    BY <1>3, LegFields DEF LegFits, QueryPcs
  <1>6. f \notin P /\ ~cn[f].pooled /\ ~cn[f].closed /\ cn[f].ep \in Eps /\ w # f
    BY <1>1, <1>2, <1>4, <1>5, FreshIsOwn
  <1>7. \A c \in ConnIds : cn[c].idle => cn[c].stale
    BY <1>1 DEF Ready, ConnFits
  <1>8. PICK retired : retired = { c \in P : cn[c].dead \/ c = w }
    OBVIOUS
  <1>9. PICK left : left = P \ retired
    OBVIOUS
  <1>10. PICK room \in BOOLEAN : room = ~PoolFull(left)
    BY DEF PoolFull
  <1>11. PICK c1 : c1 = [cn EXCEPT ![f].raw = FALSE]
    OBVIOUS
  <1>12. PICK c2 : c2 = [c1 EXCEPT ![w].dead = TRUE]
    OBVIOUS
  <1>13. PICK c3 : c3 = [c2 EXCEPT ![f].pooled = room]
    OBVIOUS
  <1>14. PICK c4 : c4 = Close(c3, retired)
    OBVIOUS
  <1>15. PICK cm : cm = Accounted(c4, f, o)
    OBVIOUS
  <1>16. PICK Q : Q = IF room THEN left \cup {f} ELSE left
    OBVIOUS
  <1>17. LegDone(t, Q, cm)
    BY <1>0, <1>2, <1>4, <1>5, <1>8, <1>9, <1>10, <1>11, <1>12, <1>13, <1>14, <1>15, <1>16 DEF FreshAnswers, Wrapped
  <1>18. /\ c1 \in [ConnIds -> ConnInfo] /\ \A c \in ConnIds : c # f => c1[c] = cn[c]
         /\ ~c1[f].raw /\ c1[f].ep = cn[f].ep /\ c1[f].closed = cn[f].closed /\ c1[f].idle = cn[f].idle /\ c1[f].stale = cn[f].stale
    <2>1. PICK k \in ConnInfo : k = cn[f]
      BY <1>1
    <2>2. PICK s : s = [k EXCEPT !.raw = FALSE]
      OBVIOUS
    <2>3. s \in ConnInfo /\ ~s.raw /\ s.ep = k.ep /\ s.closed = k.closed /\ s.idle = k.idle /\ s.stale = k.stale
      BY <2>2 DEF ConnInfo
    <2>4. c1 = [cn EXCEPT ![f] = s]
      BY <1>1, <1>11, <2>1, <2>2
    <2> QED BY <1>1, <2>1, <2>3, <2>4
  <1>19. /\ c2 \in [ConnIds -> ConnInfo] /\ \A c \in ConnIds : c # w => c2[c] = c1[c]
         /\ c2[w].raw = c1[w].raw /\ c2[w].ep = c1[w].ep /\ c2[w].closed = c1[w].closed /\ c2[w].idle = c1[w].idle
         /\ c2[w].stale = c1[w].stale /\ c2[w].dead /\ c2[w].pooled = c1[w].pooled
    <2>1. PICK k \in ConnInfo : k = c1[w]
      BY <1>18
    <2>2. PICK s : s = [k EXCEPT !.dead = TRUE]
      OBVIOUS
    <2>3. /\ s \in ConnInfo /\ s.raw = k.raw /\ s.ep = k.ep /\ s.closed = k.closed /\ s.idle = k.idle
          /\ s.stale = k.stale /\ s.dead /\ s.pooled = k.pooled
      BY <2>2 DEF ConnInfo
    <2>4. c2 = [c1 EXCEPT ![w] = s]
      BY <1>12, <1>18, <2>1, <2>2
    <2> QED BY <1>18, <2>1, <2>3, <2>4
  <1>20. /\ c3 \in [ConnIds -> ConnInfo] /\ \A c \in ConnIds : c # f => c3[c] = c2[c]
         /\ c3[f].raw = c2[f].raw /\ c3[f].ep = c2[f].ep /\ c3[f].closed = c2[f].closed /\ c3[f].idle = c2[f].idle
         /\ c3[f].stale = c2[f].stale /\ c3[f].pooled = room
    <2>1. PICK k \in ConnInfo : k = c2[f]
      BY <1>19
    <2>2. PICK s : s = [k EXCEPT !.pooled = room]
      OBVIOUS
    <2>3. /\ s \in ConnInfo /\ s.raw = k.raw /\ s.ep = k.ep /\ s.closed = k.closed /\ s.idle = k.idle
          /\ s.stale = k.stale /\ s.pooled = room
      BY <2>2 DEF ConnInfo
    <2>4. c3 = [c2 EXCEPT ![f] = s]
      BY <1>13, <1>19, <2>1, <2>2
    <2> QED BY <1>19, <2>1, <2>3, <2>4
  <1>21. /\ c4 \in [ConnIds -> ConnInfo]
         /\ \A c \in ConnIds : /\ c4[c].ep = c3[c].ep /\ c4[c].raw = c3[c].raw /\ c4[c].pooled = c3[c].pooled
                               /\ c4[c].dead = c3[c].dead /\ c4[c].idle = c3[c].idle /\ c4[c].stale = c3[c].stale
                               /\ c4[c].closed = (c \in retired \/ c3[c].closed)
    BY <1>14, <1>20, CloseMade
  <1>22. f \notin retired
    BY <1>6, <1>8
  <1>23. /\ c4[f].ep = cn[f].ep /\ ~c4[f].raw /\ c4[f].pooled = room /\ ~c4[f].closed /\ (c4[f].idle => c4[f].stale)
    BY <1>6, <1>7, <1>18, <1>19, <1>20, <1>21, <1>22
  <1>24. /\ cm \in [ConnIds -> ConnInfo] /\ \A c \in ConnIds : c # f => cm[c] = c4[c]
         /\ cm[f].ep = c4[f].ep /\ cm[f].raw = c4[f].raw /\ cm[f].pooled = c4[f].pooled /\ cm[f].closed = c4[f].closed
         /\ (cm[f].idle => cm[f].stale)
    BY <1>15, <1>21, <1>23, AccountedMade
  <1>25. ASSUME NEW c \in ConnIds, c # f
         PROVE  /\ cm[c].ep = cn[c].ep /\ cm[c].raw = cn[c].raw /\ cm[c].pooled = cn[c].pooled
                /\ cm[c].idle = cn[c].idle /\ cm[c].stale = cn[c].stale /\ (cn[c].dead => cm[c].dead) /\ (c = w => cm[c].dead)
                /\ cm[c].closed = (c \in retired \/ cn[c].closed)
    <2>1. cm[c] = c4[c] /\ c3[c] = c2[c] /\ c1[c] = cn[c]
      BY <1>18, <1>20, <1>24, <1>25
    <2>2. CASE c = w
      BY <1>19, <1>21, <2>1, <2>2
    <2>3. CASE c # w
      BY <1>19, <1>21, <2>1, <2>3
    <2> QED BY <2>2, <2>3
  <1>26. Q \in SUBSET ConnIds /\ (f \in Q <=> room) /\ Q \ {f} = left /\ \A c \in ConnIds : c # f => (c \in Q <=> c \in P /\ c \notin retired)
    BY <1>1, <1>6, <1>8, <1>9, <1>16
  <1>27. Evolves(P, cn, Q, cm, f)
    <2>1. SUFFICES ASSUME NEW c \in ConnIds, c # f
                   PROVE  /\ cm[c].ep = cn[c].ep /\ cm[c].raw = cn[c].raw /\ cm[c].pooled = cn[c].pooled
                          /\ (cn[c].dead => cm[c].dead) /\ (cm[c].idle => cn[c].idle) /\ (cm[c].idle => cm[c].stale)
                          /\ \/ cm[c].closed = cn[c].closed /\ (c \in Q <=> c \in P)
                             \/ cm[c].closed /\ c \in P /\ c \notin Q /\ (cm[c].dead \/ cn[c].idle)
      BY DEF Evolves
    <2>2. /\ cm[c].ep = cn[c].ep /\ cm[c].raw = cn[c].raw /\ cm[c].pooled = cn[c].pooled
          /\ cm[c].idle = cn[c].idle /\ cm[c].stale = cn[c].stale /\ (cn[c].dead => cm[c].dead) /\ (c = w => cm[c].dead)
          /\ cm[c].closed = (c \in retired \/ cn[c].closed)
      BY <1>25, <2>1
    <2>3. CASE c \in retired
      <3>1. c \in P /\ (cn[c].dead \/ c = w)
        BY <1>8, <2>3
      <3>2. c \notin Q
        BY <1>26, <2>1, <2>3
      <3> QED BY <1>7, <2>2, <2>3, <3>1, <3>2
    <2>4. CASE c \notin retired
      <3>1. c \in Q <=> c \in P
        BY <1>26, <2>1, <2>4
      <3>2. cn[c].closed \in BOOLEAN
        BY <1>1, ConnFields
      <3> QED BY <1>7, <2>2, <2>4, <3>1, <3>2
    <2> QED BY <2>3, <2>4
  <1>28. ASSUME room PROVE Cardinality(StreamsIn(Q \ {f}, cm)) < max_conns
    <2>1. IsFiniteSet(left)
      BY <1>1, <1>9, FS_Subset DEF Ready
    <2>2. Cardinality(StreamsIn(left, cn)) < max_conns
      BY <1>0, <1>10, <1>28, <2>1, RoomIsThere
    <2>3. StreamsIn(Q \ {f}, cm) = StreamsIn(left, cn)
      BY <1>1, <1>6, <1>9, <1>25, <1>26 DEF StreamsIn
    <2> QED BY <2>2, <2>3
  <1>29. PICK lm : lm = [lg EXCEPT ![t] = AtRest]
    OBVIOUS
  <1>30. AtRest \in LegInfo /\ AtRest.fresh = NoConn /\ LegFits(t, AtRest, cm)
    BY DnsRecords, AtRestFits
  <1>31. /\ f \in Q <=> cm[f].pooled /\ ~cm[f].closed
         /\ ~cm[f].raw /\ cm[f].ep \in Eps /\ (cm[f].idle => cm[f].stale)
    BY <1>6, <1>23, <1>24, <1>26
  <1>32. Ready(Q, lm, cm)
    BY <1>1, <1>2, <1>4, <1>24, <1>26, <1>27, <1>28, <1>29, <1>30, <1>31, RaceHolds
  <1>33. GateMoves(gate, gate', leg, lm, t)
    BY <1>0, <1>2, <1>3 DEF FreshAnswers, GateMoves
  <1>34. growing' \subseteq StreamEps /\ warming' \subseteq StreamEps
    BY DEF FreshAnswers, DnsIInv
  <1> QED BY <1>0, <1>17, <1>29, <1>32, <1>33, <1>34, DoneStep

\* A scale-up dial lands beside the legs.
LEMMA GrowStep ==
  ASSUME DnsIInv, NEW e \in StreamEps, Grows(e)
  PROVE  DnsIInv'
  <1>0. PICK P, lg, cn : P = conns /\ lg = leg /\ cn = conn
    OBVIOUS
  <1>1. /\ Ready(P, lg, cn) /\ P \subseteq ConnIds /\ cn \in [ConnIds -> ConnInfo] /\ lg \in [DnsTasks -> LegInfo]
        /\ Held(P, lg, cn)
    BY <1>0 DEF DnsIInv, Ready
  <1>2. leg' = leg /\ gate' = gate /\ growing' \subseteq StreamEps /\ warming' \subseteq StreamEps
    BY DEF Grows, DnsIInv
  <1>3. CASE conns' = conns /\ conn' = conn
    BY <1>2, <1>3 DEF DnsIInv
  <1>4. CASE /\ ~PoolFull(conns)
             /\ \E n \in FreeConn : /\ conns' = conns \cup {n}
                                    /\ conn' = [conn EXCEPT ![n] = [Dialed(e) EXCEPT !.pooled = TRUE]]
    <2>1. PICK n \in ConnIds : /\ cn[n] = Unused /\ conns' = P \cup {n}
                               /\ conn' = [cn EXCEPT ![n] = [Dialed(e) EXCEPT !.pooled = TRUE]]
      BY <1>0, <1>4 DEF FreeConn
    <2>2. PICK s : s = [Dialed(e) EXCEPT !.pooled = TRUE]
      OBVIOUS
    <2>3. s \in ConnInfo /\ s.ep \in Eps /\ ~s.closed /\ ~s.idle /\ ~s.raw /\ s.pooled
      BY <2>2, DnsRecords DEF Dialed, Unused, ConnInfo
    <2>4. PICK cm : cm = [cn EXCEPT ![n] = s]
      OBVIOUS
    <2>5. cm \in [ConnIds -> ConnInfo] /\ cm[n] = s /\ \A c \in ConnIds : c # n => cm[c] = cn[c]
      BY <1>1, <2>3, <2>4
    <2>6. PICK Q \in SUBSET ConnIds : Q = P \cup {n}
      BY <1>1
    <2>7. n \notin P /\ n # NoConn /\ \A u \in DnsTasks : lg[u].c # n /\ lg[u].fresh # n
      BY <1>1, <2>1, UnusedApart, DnsRecords
    <2>8. Evolves(P, cn, Q, cm, n)
      <3>1. \A c \in ConnIds : cn[c].idle => cn[c].stale
        BY <1>1 DEF Ready, ConnFits
      <3> QED BY <2>5, <2>6, <3>1 DEF Evolves
    <2>9. PICK t \in DnsTasks : t = Maintainer
      BY DEF DnsTasks
    <2>10. Moves(lg, lg, t, n)
      BY <2>7 DEF Moves
    <2>11. LegFits(t, lg[t], cm)
      BY <1>1, <2>7, <2>8, OthersFit
    <2>12. ConnFits(n, Q, lg, cm)
      BY <2>3, <2>5, <2>6 DEF ConnFits
    <2>13. Cardinality(StreamsIn(Q \ {n}, cm)) < max_conns
      <3>1. Cardinality(StreamsIn(P, cn)) < max_conns
        BY <1>0, <1>1, <1>4, RoomIsThere DEF Ready
      <3>2. StreamsIn(Q \ {n}, cm) = StreamsIn(P, cn)
        BY <1>1, <2>5, <2>6, <2>7 DEF StreamsIn
      <3> QED BY <3>1, <3>2
    <2>14. Ready(Q, lg, cm)
      BY <1>1, <2>5, <2>6, <2>8, <2>10, <2>11, <2>12, <2>13, Evolve
    <2>15. Held(Q, lg, cm)
      BY <1>1, <2>5, <2>6 DEF Held, Referenced
    <2>16. conns' = Q /\ leg' = lg /\ conn' = cm
      BY <1>0, <1>2, <2>1, <2>2, <2>4, <2>6
    <2>17. gate \in [Eps -> SUBSET DnsTasks] /\ Gates(gate, leg)
      BY DEF DnsIInv
    <2>18. Ready(conns', leg', conn') /\ Held(conns', leg', conn')
      BY <2>14, <2>15, <2>16
    <2> QED BY <1>2, <2>17, <2>18 DEF DnsIInv
  <1> QED BY <1>3, <1>4 DEF Grows

\* Time passes: only a connection that no query uses becomes idle.
LEMMA AgeStep ==
  ASSUME DnsIInv, NEW a \in ConnIds, Ages(a)
  PROVE  DnsIInv'
  <1>0. PICK P, lg, cn : P = conns /\ lg = leg /\ cn = conn
    OBVIOUS
  <1>1. /\ Ready(P, lg, cn) /\ P \subseteq ConnIds /\ cn \in [ConnIds -> ConnInfo] /\ lg \in [DnsTasks -> LegInfo]
        /\ Held(P, lg, cn) /\ a \in P
    BY <1>0 DEF DnsIInv, Ready, Ages
  <1>2. PICK b \in BOOLEAN : b = ~\E t \in DnsLegs : lg[t].c = a /\ lg[t].pc \in QueryPcs
    OBVIOUS
  <1>3. PICK k \in ConnInfo : k = cn[a]
    BY <1>1
  <1>4. PICK s : s = [k EXCEPT !.stale = TRUE, !.idle = b]
    OBVIOUS
  <1>5. /\ s \in ConnInfo /\ s.ep = k.ep /\ s.raw = k.raw /\ s.pooled = k.pooled /\ s.dead = k.dead
        /\ s.closed = k.closed /\ s.idle = b /\ s.stale
    BY <1>4 DEF ConnInfo
  <1>6. PICK cm : cm = [cn EXCEPT ![a] = s]
    OBVIOUS
  <1>7. cm \in [ConnIds -> ConnInfo] /\ cm[a] = s /\ \A c \in ConnIds : c # a => cm[c] = cn[c]
    BY <1>1, <1>5, <1>6
  <1>8. conn' = cm /\ conns' = P /\ leg' = lg
    BY <1>0, <1>2, <1>3, <1>4, <1>6 DEF Ages, InQuery, QueryPcs
  <1>9. \A c \in ConnIds : /\ cm[c].ep = cn[c].ep /\ cm[c].raw = cn[c].raw /\ cm[c].pooled = cn[c].pooled
                           /\ cm[c].dead = cn[c].dead /\ cm[c].closed = cn[c].closed
                           /\ c # a => cm[c].idle = cn[c].idle
    BY <1>3, <1>5, <1>7
  <1>10. ASSUME NEW c \in ConnIds PROVE ConnFits(c, P, lg, cm)
    <2>1. ConnFits(c, P, lg, cn)
      BY <1>1 DEF Ready
    <2>2. cm[c].idle => cm[c].stale
      BY <1>5, <1>7, <2>1 DEF ConnFits
    <2> QED BY <1>9, <2>1, <2>2 DEF ConnFits
  <1>11. ASSUME NEW t \in DnsTasks PROVE LegFits(t, lg[t], cm)
    <2>1. PICK r \in LegInfo : r = lg[t]
      BY <1>1
    <2>2. LegFits(t, r, cn)
      BY <1>1, <2>1 DEF Ready
    <2>3. r.c \in ConnIds \cup {NoConn} /\ r.fresh \in ConnIds \cup {NoConn}
      BY LegFields
    <2>4. ASSUME r.pc \in QueryPcs PROVE ~cm[r.c].idle
      <3>1. t \in DnsLegs /\ r.c \in ConnIds /\ ~cn[r.c].idle
        BY <2>2, <2>3, <2>4 DEF LegFits
      <3>2. CASE r.c = a
        BY <1>2, <1>5, <1>7, <2>1, <2>4, <3>1, <3>2
      <3>3. CASE r.c # a
        BY <1>7, <3>1, <3>3
      <3> QED BY <3>2, <3>3
    <2> QED BY <1>9, <2>1, <2>2, <2>3, <2>4 DEF LegFits
  <1>12. StreamsIn(P, cm) = StreamsIn(P, cn)
    BY <1>1, <1>9 DEF StreamsIn
  <1>13. Ready(P, lg, cm)
    BY <1>1, <1>7, <1>10, <1>11, <1>12 DEF Ready
  <1>14. Held(P, lg, cm)
    BY <1>1, <1>7 DEF Held, Referenced
  <1>15. Ready(conns', leg', conn') /\ Held(conns', leg', conn')
    BY <1>8, <1>13, <1>14
  <1>16. leg' = leg /\ gate' = gate /\ growing' = growing /\ warming' = warming
    BY DEF Ages
  <1> QED BY <1>15, <1>16 DEF DnsIInv

\* A maintenance pass closes what is dead or idle.
LEMMA MaintainStep ==
  ASSUME DnsIInv, Maintain
  PROVE  DnsIInv'
  <1>0. PICK P, lg, cn : P = conns /\ lg = leg /\ cn = conn
    OBVIOUS
  <1>1. Ready(P, lg, cn) /\ P \subseteq ConnIds /\ cn \in [ConnIds -> ConnInfo] /\ lg \in [DnsTasks -> LegInfo]
    BY <1>0 DEF DnsIInv, Ready
  <1>2. PICK t \in DnsTasks : t = Maintainer
    BY DEF DnsTasks
  <1>3. PICK r0 \in LegInfo : r0 = lg[t]
    BY <1>1
  <1>4. LegFits(t, r0, cn) /\ r0.pc = "rest"
    BY <1>0, <1>1, <1>2, <1>3 DEF Ready, Maintain, LegAt
  <1>5. r0.c = NoConn /\ r0.fresh = NoConn
    BY <1>4 DEF LegFits, QueryPcs
  <1>6. \E gone, pc : /\ gone \in SUBSET P /\ (\A c \in gone : cn[c].dead \/ cn[c].idle)
                      /\ pc \in {"rest", "warm"} /\ Becomes(conns \ gone, LegGoto(Maintainer, pc), Close(conn, gone))
    <2>1. PICK idle : idle = { c \in Purged : Inactive(c) }
      OBVIOUS
    <2>2. PICK streams : streams = Streams(idle)
      OBVIOUS
    <2>3. PICK reaped \in SUBSET streams :
            LET gone == Dead \cup reaped \cup (idle \ streams)
                enough == Cardinality(Streams(conns \ gone)) >= min_conns
            IN  Becomes(conns \ gone, LegGoto(Maintainer, IF enough THEN "rest" ELSE "warm"), Close(conn, gone))
      BY <2>1, <2>2 DEF Maintain
    <2>4. PICK gone : gone = Dead \cup reaped \cup (idle \ streams)
      OBVIOUS
    <2>5. PICK pc : pc = IF Cardinality(Streams(conns \ gone)) >= min_conns THEN "rest" ELSE "warm"
      OBVIOUS
    <2>6. pc \in {"rest", "warm"}
      BY <2>5
    <2>7. Becomes(conns \ gone, LegGoto(Maintainer, pc), Close(conn, gone))
      BY <2>3, <2>4, <2>5
    <2>8. gone \subseteq P /\ \A c \in gone : cn[c].dead \/ cn[c].idle
      BY <1>0, <2>1, <2>2, <2>3, <2>4 DEF Dead, Streams, Purged, Inactive
    <2> QED BY <2>6, <2>7, <2>8
  <1>7. PICK gone, pc : /\ gone \in SUBSET P /\ (\A c \in gone : cn[c].dead \/ cn[c].idle)
                        /\ pc \in {"rest", "warm"} /\ Becomes(conns \ gone, LegGoto(Maintainer, pc), Close(conn, gone))
    BY <1>6
  <1>8. PICK cm : cm = Close(cn, gone)
    OBVIOUS
  <1>9. PICK r : r = [r0 EXCEPT !.pc = pc]
    OBVIOUS
  <1>10. r \in LegInfo /\ r.pc = pc /\ r.c = NoConn /\ r.fresh = NoConn
    BY <1>5, <1>7, <1>9 DEF LegInfo, LegPcs
  <1>11. LegFits(t, r, cm)
    BY <1>7, <1>10 DEF LegFits, QueryPcs
  <1>12. PICK lm : lm = [lg EXCEPT ![t] = r]
    OBVIOUS
  <1>13. PICK Q : Q = P \ gone
    OBVIOUS
  <1>14. Ready(Q, lm, cm)
    BY <1>1, <1>3, <1>5, <1>7, <1>8, <1>10, <1>11, <1>12, <1>13, RetireHolds
  <1>15. Becomes(Q, lm, cm)
    BY <1>0, <1>1, <1>2, <1>3, <1>7, <1>8, <1>9, <1>12, <1>13 DEF LegGoto
  <1>16. GateMoves(gate, gate', leg, lm, t)
    BY <1>0, <1>3, <1>4 DEF Maintain, GateMoves
  <1>17. growing' \subseteq StreamEps /\ warming' \subseteq StreamEps
    BY DEF Maintain, DnsIInv
  <1> QED BY <1>0, <1>10, <1>12, <1>14, <1>15, <1>16, <1>17, BecomeStep

LEMMA WarmStep ==
  ASSUME DnsIInv, Warm
  PROVE  DnsIInv'
  <1>0. PICK P, lg, cn : P = conns /\ lg = leg /\ cn = conn
    OBVIOUS
  <1>1. Ready(P, lg, cn) /\ Held(P, lg, cn) /\ lg \in [DnsTasks -> LegInfo]
    BY <1>0 DEF DnsIInv, Ready
  <1>2. PICK t \in DnsTasks : t = Maintainer
    BY DEF DnsTasks
  <1>3. growing' \subseteq StreamEps /\ warming \subseteq StreamEps
    BY DEF DnsIInv, Warm
  <1>4. leg[t].pc = "warm"
    BY <1>2 DEF Warm, LegAt
  <1>5. CASE leg' = [leg EXCEPT ![Maintainer] = AtRest] /\ warming' = {} /\ UNCHANGED << conns, conn, gate >>
    <2>1. PICK lm : lm = [lg EXCEPT ![t] = AtRest]
      OBVIOUS
    <2>2. lg[t].c = NoConn /\ lg[t].fresh = NoConn
      BY <1>0, <1>1, <1>4 DEF Ready, LegFits, QueryPcs
    <2>3. AtRest \in LegInfo /\ AtRest.fresh = NoConn /\ AtRest.c = NoConn /\ LegFits(t, AtRest, cn)
      BY DnsRecords, AtRestFits
    <2>4. Ready(P, lm, cn) /\ Held(P, lm, cn)
      BY <1>1, <2>1, <2>2, <2>3, LegOnly
    <2>5. conns' = P /\ leg' = lm /\ conn' = cn
      BY <1>0, <1>2, <1>5, <2>1
    <2>6. \A u \in DnsTasks : u # t => leg'[u] = leg[u]
      BY <1>0, <1>1, <2>1, <2>3, <2>5, LegMade
    <2>7. GateMoves(gate, gate', leg, leg', t)
      BY <1>4, <1>5 DEF GateMoves
    <2>8. Ready(conns', leg', conn') /\ Held(conns', leg', conn')
      BY <2>4, <2>5
    <2>9. warming' \subseteq StreamEps
      BY <1>5
    <2> QED BY <1>3, <2>6, <2>7, <2>8, <2>9, DnsStep
  <1>6. CASE \E e \in warming : warming' = warming \ {e} /\ FindReusable(Maintainer, e, "cold")
    <2>1. PICK e \in warming : warming' = warming \ {e} /\ FindReusable(t, e, "cold")
      BY <1>2, <1>6
    <2>2. e \in Eps /\ warming' \subseteq StreamEps
      BY <1>3, <2>1, DnsRecords
    <2> QED BY <1>3, <1>4, <2>1, <2>2, FindStep
  <1> QED BY <1>5, <1>6 DEF Warm

LEMMA DnsLegStep ==
  ASSUME DnsIInv, NEW t \in DnsTasks, LegStep(t)
  PROVE  DnsIInv'
  <1>1. growing \subseteq StreamEps /\ warming \subseteq StreamEps
    BY DEF DnsIInv
  <1>2. LegFits(t, leg[t], conn)
    BY DEF DnsIInv, Ready
  <1>3. CASE AcquireCold(t)
    <2>1. leg[t].pc = "cold" /\ growing' = growing
      BY <1>3 DEF AcquireCold, LegAt
    <2>2. PICK e \in Eps : e = leg[t].ep
      BY <1>2, <2>1 DEF LegFits
    <2>3. CASE LegReturned(t, "NoConnections") /\ UNCHANGED << conns, conn, gate >>
      <3>1. GateMoves(gate, gate', leg, leg', t)
        BY <2>1, <2>3 DEF GateMoves
      <3>2. UNCHANGED << conns, conn, growing >>
        BY <2>1, <2>3
      <3> QED BY <2>1, <2>3, <3>1, <3>2, ReturnStep
    <2>4. CASE leg' = LegGoto(t, "wait") /\ UNCHANGED << conns, conn, gate, warming >>
      BY <2>1, <2>4, GotoStep
    <2>5. CASE FindReusable(t, leg[t].ep, "dial") /\ UNCHANGED warming
      BY <1>1, <2>1, <2>2, <2>5, FindStep
    <2> QED BY <1>3, <2>3, <2>4, <2>5 DEF AcquireCold
  <1>4. CASE TakeTurn(t)
    <2>1. leg[t].pc = "wait" /\ growing' = growing /\ warming' = warming /\ FindReusable(t, leg[t].ep, "dial")
      BY <1>4 DEF TakeTurn, LegAt
    <2>2. PICK e \in Eps : e = leg[t].ep
      BY <1>2, <2>1 DEF LegFits
    <2> QED BY <1>1, <2>1, <2>2, FindStep
  <1>5. CASE WaitTimesOut(t)
    BY <1>5, WaitStep
  <1>6. CASE DialLands(t)
    BY <1>6, DialStep
  <1>7. CASE DialFails(t)
    <2>1. GateMoves(gate, gate', leg, leg', t)
      BY <1>7 DEF DialFails, GateFreed, GateMoves
    <2>2. leg[t].pc = "dial" /\ LegReturned(t, "Timeout") /\ UNCHANGED << conns, conn, growing >>
      BY <1>7 DEF DialFails, LegAt
    <2> QED BY <2>1, <2>2, ReturnStep
  <1>8. CASE Stamp(t)
    BY <1>8, StampStep
  <1>9. ASSUME NEW o \in QueryOutcomes, QueryEnds(t, o) PROVE DnsIInv'
    <2>1. leg[t].pc = "query" /\ LegDone(t, conns, Accounted(conn, leg[t].c, o)) /\ gate' = gate /\ warming' = warming
      BY <1>9 DEF QueryEnds, LegAt
    <2>2. leg[t].pc \in QueryPcs /\ leg[t].fresh = NoConn
      BY <1>2, <2>1 DEF LegFits, QueryPcs
    <2>3. growing' \subseteq StreamEps
      BY <1>1, <1>9 DEF QueryEnds, ScaleUp
    <2> QED BY <2>1, <2>2, <2>3, QueryStep
  <1>10. ASSUME NEW o \in QueryOutcomes, FreshAnswers(t, o) PROVE DnsIInv'
    BY <1>10, FreshAnswerStep
  <1>11. ASSUME NEW o \in QueryOutcomes, StaleEnds(t, o) PROVE DnsIInv'
    <2>1. growing' \subseteq StreamEps
      BY <1>1, <1>11 DEF StaleEnds, ScaleUp
    <2>2. CASE leg[t].fresh = NoConn
      <3>1. leg[t].pc \in QueryPcs /\ LegDone(t, conns, Accounted(conn, leg[t].c, o)) /\ gate' = gate /\ warming' = warming
        BY <1>11, <2>2 DEF StaleEnds, QueryPcs
      <3> QED BY <2>1, <2>2, <3>1, QueryStep
    <2>3. CASE leg[t].fresh # NoConn
      BY <1>11, <2>1, <2>3, StaleStep
    <2> QED BY <2>2, <2>3
  <1>12. CASE FreshDialed(t)
    BY <1>12, FreshDialStep
  <1>13. CASE FreshDialFails(t)
    <2>1. /\ leg[t].pc = "race" /\ leg' = LegGoto(t, "stale")
          /\ UNCHANGED << conns, conn, gate, growing, warming >>
      BY <1>13 DEF FreshDialFails, LegAt
    <2> QED BY <2>1, GotoStep
  <1>14. CASE FreshFails(t)
    BY <1>14, FreshFailStep
  <1>15. CASE Abort(t)
    BY <1>15, AbortStep
  <1> QED BY <1>3, <1>4, <1>5, <1>6, <1>7, <1>8, <1>9, <1>10, <1>11, <1>12, <1>13, <1>14, <1>15 DEF LegStep

LEMMA DnsPoolStarts ==
  ASSUME DnsPoolInit
  PROVE  DnsIInv
  <1>1. PICK lg, cn : lg = leg /\ cn = conn
    OBVIOUS
  <1>2. conns = {} /\ cn = [c \in ConnIds |-> Unused] /\ gate = [e \in Eps |-> {}] /\ growing = {} /\ warming \subseteq StreamEps
    BY <1>1 DEF DnsPoolInit
  <1>3. lg = [t \in DnsTasks |-> [AtRest EXCEPT !.pc = IF t = Maintainer /\ warming # {} THEN "warm" ELSE "rest"]]
    BY <1>1 DEF DnsPoolInit
  <1>4. ASSUME NEW t \in DnsTasks
        PROVE  lg[t] \in LegInfo /\ lg[t].pc \in {"warm", "rest"} /\ lg[t].c = NoConn /\ lg[t].fresh = NoConn
    BY <1>3 DEF AtRest, LegInfo, LegPcs
  <1>5. cn \in [ConnIds -> ConnInfo] /\ \A c \in ConnIds : cn[c] = Unused
    BY <1>2, DnsRecords
  <1>6. lg \in [DnsTasks -> LegInfo]
    BY <1>3, <1>4
  <1>7. \A c \in ConnIds : ConnFits(c, {}, lg, cn)
    BY <1>5, DnsRecords DEF ConnFits
  <1>8. \A t \in DnsTasks : LegFits(t, lg[t], cn)
    BY <1>4 DEF LegFits, QueryPcs
  <1>9. FreshApart(lg)
    BY <1>4 DEF FreshApart
  <1>10. IsFiniteSet({}) /\ Cardinality(StreamsIn({}, cn)) <= max_conns
    <2>1. StreamsIn({}, cn) = {}
      BY DEF StreamsIn
    <2>2. IsFiniteSet({}) /\ Cardinality({}) = 0
      BY FS_EmptySet
    <2>3. max_conns \in Nat
      BY DnsPoolAssumption
    <2> QED BY <2>1, <2>2, <2>3
  <1>11. Ready({}, lg, cn)
    BY <1>5, <1>6, <1>7, <1>8, <1>9, <1>10 DEF Ready
  <1>12. Held({}, lg, cn)
    BY <1>5 DEF Held
  <1>13. gate \in [Eps -> SUBSET DnsTasks] /\ Gates(gate, leg)
    BY <1>2 DEF Gates
  <1> QED BY <1>1, <1>2, <1>11, <1>12, <1>13 DEF DnsIInv

LEMMA DnsPoolStep ==
  ASSUME DnsIInv, [DnsPoolNext]_dnsPoolVars
  PROVE  DnsIInv'
  <1>1. ASSUME NEW t \in DnsTasks, LegStep(t) PROVE DnsIInv'
    BY <1>1, DnsLegStep
  <1>2. ASSUME NEW t \in DnsLegs, NEW e \in Eps, LegQuery(t, e) PROVE DnsIInv'
    <2>1. t \in DnsTasks
      BY DEF DnsTasks
    <2>2. leg[t].pc = "rest" /\ FindReusable(t, e, "cold") /\ growing' \subseteq StreamEps /\ warming' \subseteq StreamEps
      BY <1>2 DEF LegQuery, LegAt, DnsIInv
    <2> QED BY <2>1, <2>2, FindStep
  <1>3. ASSUME NEW e \in StreamEps, Grows(e) PROVE DnsIInv'
    BY <1>3, GrowStep
  <1>4. ASSUME NEW c \in ConnIds, Ages(c) PROVE DnsIInv'
    BY <1>4, AgeStep
  <1>5. CASE Maintain
    BY <1>5, MaintainStep
  <1>6. CASE Warm
    BY <1>6, WarmStep
  <1>7. CASE UNCHANGED dnsPoolVars
    BY <1>7 DEF dnsPoolVars, DnsIInv
  <1> QED BY <1>1, <1>2, <1>3, <1>4, <1>5, <1>6, <1>7 DEF DnsPoolNext

LEMMA DnsPoolEnds ==
  ASSUME DnsIInv
  PROVE  DnsPoolInv
  <1>0. PICK P, lg, cn : P = conns /\ lg = leg /\ cn = conn
    OBVIOUS
  <1>1. Ready(P, lg, cn) /\ Held(P, lg, cn) /\ P \subseteq ConnIds /\ cn \in [ConnIds -> ConnInfo]
    BY <1>0 DEF DnsIInv, Ready
  <1>2. \A c \in ConnIds : cn[c].ep \in Eps \cup {NoEp} /\ (cn[c].idle => cn[c].stale)
    BY <1>1, ConnFields DEF Ready, ConnFits
  <1>3. ASSUME NEW e \in Eps PROVE Cardinality(gate[e]) <= 1
    <2>1. gate[e] = {} \/ \E t \in DnsTasks : gate[e] = {t}
      BY DEF DnsIInv, Gates
    <2>2. CASE gate[e] = {}
      BY <2>2, FS_EmptySet
    <2>3. CASE \E t \in DnsTasks : gate[e] = {t}
      <3>1. PICK t \in DnsTasks : gate[e] = {t}
        BY <2>3
      <3>2. Cardinality({t}) = 1
        BY FS_Singleton
      <3> QED BY <3>1, <3>2
    <2> QED BY <2>1, <2>2, <2>3
  <1>4. DnsPoolTypeOK
    BY <1>0, <1>1, <1>2, <1>3 DEF DnsPoolTypeOK, DnsIInv
  <1>5. CapHeld
    <2>1. StreamsIn(P, cn) = Streams(conns)
      BY <1>0 DEF StreamsIn, Streams
    <2> QED BY <1>1, <2>1 DEF CapHeld, Ready
  <1>6. NothingLost
    BY <1>0, <1>1 DEF NothingLost, Held
  <1>7. PooledIsOpen
    BY <1>0, <1>1 DEF PooledIsOpen, Ready, ConnFits
  <1>8. GateIsHeld
    BY DEF DnsIInv, Gates, GateIsHeld
  <1>9. QueryKeepsConn
    <2>1. SUFFICES ASSUME NEW t \in DnsLegs, NEW c \in ConnIds, leg[t].c = c, InQuery(t), conn[c].closed
                   PROVE  conn[c].dead \/ leg[t].late
      BY DEF QueryKeepsConn, Using
    <2>2. t \in DnsTasks
      BY DEF DnsTasks
    <2>3. LegFits(t, leg[t], conn)
      BY <1>0, <1>1, <2>2 DEF Ready
    <2>4. leg[t].pc \in QueryPcs
      BY <2>1 DEF InQuery, QueryPcs
    <2> QED BY <2>1, <2>3, <2>4 DEF LegFits
  <1> QED BY <1>4, <1>5, <1>6, <1>7, <1>8, <1>9 DEF DnsPoolInv

\* The connections of an upstream (UpstreamPool), for any endpoints, legs, cap
\* and min_conns: in every state the pool holds at most max_conns stream
\* connections, no dialed connection is lost, what is pooled is open, a gate is
\* held by a leg that dials, and the reaper closes no connection of a query
\* whose borrow was stamped in time.
THEOREM DnsPoolSound == DnsPoolSpec => []DnsPoolInv
  <1>1. DnsPoolInit => DnsIInv
    BY DnsPoolStarts
  <1>2. DnsIInv /\ [DnsPoolNext]_dnsPoolVars => DnsIInv'
    BY DnsPoolStep
  <1>3. DnsIInv => DnsPoolInv
    BY DnsPoolEnds
  <1> QED BY <1>1, <1>2, <1>3, PTL DEF DnsPoolSpec

=============================================================================
