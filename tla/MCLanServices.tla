---------------------------- MODULE MCLanServices ----------------------------
(***************************************************************************)
(* Servers of the LAN for TLC: the DHCPv4 pool, the DHCPv6 server, and the *)
(* connections of a DNS upstream, with two legs, or with one leg beside    *)
(* the warm-up.  They share no state; a behaviour is one of one of them,   *)
(* the others keep their initial state.                                    *)
(***************************************************************************)
EXTENDS DhcpV4Pool, LanIpv6Leases, DnsPool

VARIABLE part

serverVars == << poolVars, leaseVars, dnsPoolVars, part >>

ServerInit ==
    /\ PoolInit /\ LeaseInit /\ DnsPoolInit /\ part \in {"v4", "v6", "dns", "warm"}
    /\ part # "v6" => parent = 0
    /\ part # "v4" => device = [m \in Macs |-> NoIp]
    /\ min_conns = IF part = "warm" THEN 1 ELSE 0

ServerNext ==
    /\ UNCHANGED part
    /\ \/ part = "v4" /\ PoolNext /\ UNCHANGED << leaseVars, dnsPoolVars >>
       \/ part = "v6" /\ LeaseNext /\ UNCHANGED << poolVars, dnsPoolVars >>
       \/ /\ part \in {"dns", "warm"} /\ DnsPoolNext
          /\ part = "warm" => Cardinality({ t \in DnsLegs : leg'[t].pc # "rest" }) <= 1
          /\ UNCHANGED << poolVars, leaseVars >>

ServerSpec == ServerInit /\ [][ServerNext]_serverVars

\* What both servers hold for enrolled devices follows the device table: once
\* the observers have applied the events they did receive, the bindings of the
\* pool and the static suffixes of the DHCPv6 server are those of the database.
DevicesFollow == BindingsCurrent /\ StaticsFollow

=============================================================================
