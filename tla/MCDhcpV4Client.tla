---------------------------- MODULE MCDhcpV4Client ----------------------------
\* Instances of DhcpV4Client.  Seconds are scaled: MIN_WAIT 3 stands for the
\* 60 s floor, against leases that are shorter and longer than it.
EXTENDS DhcpV4Client, TLC

CONSTANTS a1, a2

Opt(l, t1, t2, g) == [lease |-> l, t1 |-> t1, t2 |-> t2, gw |-> g]

\* Leases: about as long as the floor, with default T1/T2 or with T1/T2 beyond
\* the lease; shorter than the floor without T1; several floors long with T1 and
\* T2 of its own; with and without a router.
ShortOptions == {Opt(3, 0, 0, TRUE), Opt(4, 9, 9, FALSE)}
AllOptions == {Opt(2, 0, 9, FALSE), Opt(12, 3, 9, TRUE)}
LiveOptions == {Opt(4, 0, 0, TRUE)}

Symmetry == Permutations({a1, a2})
=============================================================================
