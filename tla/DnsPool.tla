------------------------------- MODULE DnsPool -------------------------------
(***************************************************************************)
(* The connections of one DNS upstream (UpstreamPool in                    *)
(* landscape-dns/src/connection/upstream/mod.rs): the legs of concurrent   *)
(* lookups borrow them, dial missing ones one at a time per endpoint, race *)
(* a stale one against a fresh dial and retire the dead; scale-up dials    *)
(* and the maintenance pass work beside them.  Every lock of the pool      *)
(* protects one step; a leg may be aborted wherever it awaits.             *)
(*                                                                         *)
(* Time is kept as two flags of a connection: its last completion is       *)
(* stale_conn_age ago, its last activity idle_timeout ago.  Both are far   *)
(* longer than a query may take.                                           *)
(***************************************************************************)
EXTENDS Naturals, FiniteSets

CONSTANTS
    Eps,             \* the connectors, one per address and transport
    StreamEps,       \* those of a stream transport; the others are UDP
    DnsLegs,         \* tasks that run leg_query
    ConnIds,         \* bounds the connections that exist at one time
    max_conns,
    MinConns,        \* the values of min_conns to consider
    NoEp, NoConn

ASSUME DnsPoolAssumption ==
    /\ StreamEps \subseteq Eps /\ NoEp \notin Eps /\ NoConn \notin ConnIds
    /\ max_conns \in Nat \ {0} /\ MinConns \subseteq Nat

VARIABLES
    conns,     \* the connections in the pool's vector
    conn,      \* what is known of each connection
    gate,      \* the holder of an endpoint's cold-dial gate, {} or {task}
    growing,   \* endpoints with a scale-up dial in flight
    leg,       \* the legs, and the maintenance task
    warming,   \* endpoints the maintenance task has still to warm
    min_conns  \* set when the pool is built

dnsPoolVars == << conns, conn, gate, growing, leg, warming, min_conns >>

Maintainer == "maintenance"

DnsTasks == DnsLegs \cup {Maintainer}

Threshold(e) == IF e \in StreamEps THEN 2 ELSE 1

\* A PooledConn: stale tells the age of the last completion, idle that of the
\* later of completion and borrow (last_active_ms).  A connection is raw until
\* a PooledConn is made for it.
Unused ==
    [ep |-> NoEp, stale |-> FALSE, idle |-> FALSE, fails |-> 0, dead |-> FALSE,
     pooled |-> FALSE, closed |-> FALSE, raw |-> FALSE]

Dialed(e) == [Unused EXCEPT !.ep = e]

AtRest == [pc |-> "rest", ep |-> NoEp, c |-> NoConn, fresh |-> NoConn,
           late |-> FALSE]

DnsPoolInit ==
    /\ conns = {}
    /\ conn = [c \in ConnIds |-> Unused]
    /\ gate = [e \in Eps |-> {}]
    /\ growing = {}
    /\ min_conns \in MinConns
    /\ warming = IF min_conns = 0 THEN {} ELSE StreamEps   \* spawn_warmup
    /\ leg = [t \in DnsTasks |->
                 [AtRest EXCEPT !.pc = IF t = Maintainer /\ warming # {} THEN "warm" ELSE "rest"]]

Streams(pool) == { c \in pool : conn[c].ep \in StreamEps }

PoolFull(pool) == Cardinality(Streams(pool)) >= max_conns

CanDial(e) == e \in StreamEps => ~PoolFull(conns)

Dead == { c \in conns : conn[c].dead }

Close(cn, set) == [c \in ConnIds |-> IF c \in set THEN [cn[c] EXCEPT !.closed = TRUE] ELSE cn[c]]

Referenced(c, pool, lg) == c \in pool \/ \E t \in DnsTasks : c \in {lg[t].c, lg[t].fresh}

\* Drop for PooledConn: the last reference to a connection that was never
\* pooled shuts it down.  What is closed and unreferenced is no more.
Collect(pool, lg, cn) ==
    [c \in ConnIds |->
        IF /\ ~Referenced(c, pool, lg)
           /\ cn[c].closed \/ (~cn[c].raw /\ ~cn[c].pooled)
        THEN Unused
        ELSE cn[c]]

Becomes(pool, lg, cn) ==
    conns' = pool /\ leg' = lg /\ conn' = Collect(pool, lg, cn)

\* min_by_key(last_used_ms); of several stale ones, or several others, any.
LeastUsed(set) == IF \E c \in set : conn[c].stale THEN { c \in set : conn[c].stale } ELSE set

\* find_reusable: the purge, and the least recently used connection of e.
Purged == conns \ Dead

Reusable(e) == LeastUsed({ c \in Purged : conn[c].ep = e })

\* The names of connections are interchangeable: a dial takes the least free one.
FreeConn ==
    LET free == { c \in ConnIds : conn[c] = Unused }
    IN  { c \in free : \A d \in free : c <= d }

GateFreed(t) == [e \in Eps |-> gate[e] \ {t}]

\* A leg returns; warm_up_to_min goes on with the next endpoint, unless the
\* pool could not take another connection.
LegReturned(t, outcome) ==
    /\ leg' = [leg EXCEPT ![t] = [AtRest EXCEPT !.pc = IF t = Maintainer THEN "warm" ELSE "rest"]]
    /\ warming' = IF t = Maintainer /\ outcome = "NoConnections" THEN {} ELSE warming

LegAt(t, pc) == leg[t].pc = pc

InQuery(t) == leg[t].pc \in {"query", "race", "both", "stale"}

LegGoto(t, pc) == [leg EXCEPT ![t].pc = pc]

\* The leg with e as its endpoint, at pc, with connection c.
Leg(t, e, pc, c) == [leg EXCEPT ![t] = [@ EXCEPT !.pc = pc, !.ep = e, !.c = c]]

\* Finding a connection (with the purge), or going on to next.  The borrow is
\* stamped in a later step.
FindReusable(t, e, next) ==
    \E c \in IF Reusable(e) = {} THEN {NoConn} ELSE Reusable(e) :
        /\ Becomes(Purged, Leg(t, e, IF c = NoConn THEN next ELSE "stamp", c), Close(conn, Dead))
        /\ gate' = IF c = NoConn /\ next = "dial" THEN [gate EXCEPT ![e] = {t}] ELSE gate

\* leg_query starts with the fast path of acquire_inner.
LegQuery(t, e) == LegAt(t, "rest") /\ FindReusable(t, e, "cold") /\ UNCHANGED << growing, warming >>

\* No connection of the endpoint: with room for one, the leg waits for the
\* gate or looks once more with the gate in hand, then dials.
AcquireCold(t) ==
    LET e == leg[t].ep IN
    /\ LegAt(t, "cold") /\ UNCHANGED growing
    /\ \/ ~CanDial(e) /\ LegReturned(t, "NoConnections") /\ UNCHANGED << conns, conn, gate >>
       \/ CanDial(e) /\ gate[e] # {} /\ leg' = LegGoto(t, "wait") /\ UNCHANGED << conns, conn, gate, warming >>
       \/ CanDial(e) /\ gate[e] = {} /\ FindReusable(t, e, "dial") /\ UNCHANGED warming

TakeTurn(t) ==
    /\ LegAt(t, "wait") /\ gate[leg[t].ep] = {}
    /\ FindReusable(t, leg[t].ep, "dial")
    /\ UNCHANGED << growing, warming >>

\* The wait for the gate times out: a last look, then no connection.
WaitTimesOut(t) ==
    /\ LegAt(t, "wait") /\ UNCHANGED growing
    /\ \/ \E c \in Reusable(leg[t].ep) :
             /\ Becomes(Purged, Leg(t, leg[t].ep, "stamp", c), Close(conn, Dead))
             /\ UNCHANGED << gate, warming >>
       \/ /\ Reusable(leg[t].ep) = {} /\ LegReturned(t, "NoConnections")
          /\ conns' = Purged /\ conn' = Collect(Purged, leg, Close(conn, Dead))
          /\ UNCHANGED gate

\* The cold dial succeeds.  When the pool has filled up meanwhile, an existing
\* connection of the endpoint is preferred, or the new one serves this query
\* without being pooled.
DialLands(t) ==
    LET e == leg[t].ep
        full == e \in StreamEps /\ PoolFull(conns)
        live == { c \in conns : conn[c].ep = e /\ ~conn[c].dead }
    IN
    /\ LegAt(t, "dial")
    /\ gate' = GateFreed(t)
    /\ \E n \in FreeConn :
          \/ /\ ~full
             /\ Becomes(conns \cup {n}, Leg(t, e, "stamp", n),
                        [conn EXCEPT ![n] = [Dialed(e) EXCEPT !.pooled = TRUE]])
          \/ /\ full
             /\ \E c \in IF live = {} THEN {n} ELSE LeastUsed(live) :
                   Becomes(conns, Leg(t, e, "stamp", c), [conn EXCEPT ![n] = Dialed(e)])
    /\ UNCHANGED << growing, warming >>

DialFails(t) ==
    /\ LegAt(t, "dial") /\ gate' = GateFreed(t) /\ LegReturned(t, "Timeout")
    /\ UNCHANGED << conns, conn, growing >>

IsStale(c) == conn[c].ep \in StreamEps /\ conn[c].stale

\* acquire stamps the borrow and returns; warm-up is content with that.
Stamp(t) ==
    LET c == leg[t].c
        stamped == [conn EXCEPT ![c].idle = FALSE]
    IN
    /\ LegAt(t, "stamp")
    /\ IF t = Maintainer
       THEN Becomes(conns, [leg EXCEPT ![t] = [AtRest EXCEPT !.pc = "warm"]], stamped)
       ELSE Becomes(conns, [leg EXCEPT ![t] = [@ EXCEPT !.pc = IF IsStale(c) THEN "race" ELSE "query",
                                                        !.late = conn[c].closed]], stamped)
    /\ UNCHANGED << gate, growing, warming >>

\* What a query ends with: an answer, an explicit code (a TLS failure has the
\* same effect here), a transport failure, the multiplexer's Busy.
QueryOutcomes == {"ok", "Protocol", "Timeout", "NoConnections"}

\* The accounting of leg_query for its winner w, and record_conn_failure.
Accounted(cn, w, outcome) ==
    CASE outcome = "ok" -> [cn EXCEPT ![w] = [@ EXCEPT !.stale = FALSE, !.idle = FALSE, !.fails = 0]]
      [] outcome = "Timeout" ->
            [cn EXCEPT ![w] = [cn[w] EXCEPT !.fails = cn[w].fails + 1,
                                            !.dead = cn[w].dead \/ cn[w].fails + 1 >= Threshold(cn[w].ep)]]
      [] outcome = "NoConnections" /\ cn[w].ep \in StreamEps ->
            [cn EXCEPT ![w] = [@ EXCEPT !.stale = FALSE, !.idle = FALSE]]
      [] OTHER -> cn

\* scale_up, on the multiplexer's Busy.
ScaleUp(e, outcome) ==
    growing' = IF outcome = "NoConnections" /\ e \in StreamEps /\ CanDial(e)
               THEN growing \cup {e} ELSE growing

LegDone(t, pool, cn) == Becomes(pool, [leg EXCEPT ![t] = AtRest], cn)

QueryEnds(t, outcome) ==
    /\ LegAt(t, "query")
    /\ LegDone(t, conns, Accounted(conn, leg[t].c, outcome))
    /\ ScaleUp(leg[t].ep, outcome)
    /\ UNCHANGED << gate, warming >>

\* race: the fresh dial completes into fresh_slot, or never does.
FreshDialed(t) ==
    /\ LegAt(t, "race")
    /\ \E n \in FreeConn :
          /\ conn' = [conn EXCEPT ![n] = [Dialed(leg[t].ep) EXCEPT !.raw = TRUE]]
          /\ leg' = [leg EXCEPT ![t].pc = "both", ![t].fresh = n]
    /\ UNCHANGED << conns, gate, growing, warming >>

FreshDialFails(t) ==
    /\ LegAt(t, "race") /\ leg' = LegGoto(t, "stale")
    /\ UNCHANGED << conns, conn, gate, growing, warming >>

Wrapped(cn, n) == [cn EXCEPT ![n].raw = FALSE]

\* retire_and_pool: the fresh connection answered, the stale one is retired.
FreshAnswers(t, outcome) ==
    LET f == leg[t].fresh
        retired == { c \in conns : conn[c].dead \/ c = leg[t].c }
        left == conns \ retired
        room == ~PoolFull(left)
        won == [Wrapped(conn, f) EXCEPT ![leg[t].c].dead = TRUE, ![f].pooled = room]
    IN
    /\ LegAt(t, "both") /\ outcome \in {"ok", "Protocol"}
    /\ LegDone(t, IF room THEN left \cup {f} ELSE left,
            Accounted(Close(won, retired), f, outcome))
    /\ UNCHANGED << gate, growing, warming >>

FreshFails(t) ==
    /\ LegAt(t, "both")
    /\ Becomes(conns, [leg EXCEPT ![t].pc = "stale", ![t].fresh = NoConn],
               Close(conn, {leg[t].fresh}))
    /\ UNCHANGED << gate, growing, warming >>

\* The stale leg decides the race.  A fresh connection that is already there
\* is kept when the stale one failed transiently and there is room (pool_fresh).
StaleEnds(t, outcome) ==
    LET f == leg[t].fresh
        keep == outcome = "Timeout" /\ ~PoolFull(conns)
    IN
    /\ leg[t].pc \in {"race", "both", "stale"}
    /\ IF f = NoConn
       THEN LegDone(t, conns, Accounted(conn, leg[t].c, outcome))
       ELSE IF keep
            THEN LegDone(t, conns \cup {f},
                      Accounted([Wrapped(conn, f) EXCEPT ![f].pooled = TRUE], leg[t].c, outcome))
            ELSE LegDone(t, conns, Accounted(Close(conn, {f}), leg[t].c, outcome))
    /\ ScaleUp(leg[t].ep, outcome)
    /\ UNCHANGED << gate, warming >>

\* Another leg has won, or the lookup's deadline or its client is gone: the
\* task is dropped where it awaits.  A fresh connection of a race is dropped
\* with fresh_slot, without a shutdown.
Abort(t) ==
    /\ t # Maintainer /\ (leg[t].pc \in {"wait", "dial"} \/ InQuery(t))
    /\ LegDone(t, conns, [c \in ConnIds |-> IF c = leg[t].fresh THEN Unused ELSE conn[c]])
    /\ gate' = GateFreed(t)
    /\ UNCHANGED << growing, warming >>

\* The spawned dial of scale_up.
Grows(e) ==
    /\ e \in growing /\ growing' = growing \ {e}
    /\ \/ UNCHANGED << conns, conn >>
       \/ PoolFull(conns) /\ UNCHANGED << conns, conn >>      \* dialed, and shut down
       \/ /\ ~PoolFull(conns)
          /\ \E n \in FreeConn :
                /\ conns' = conns \cup {n}
                /\ conn' = [conn EXCEPT ![n] = [Dialed(e) EXCEPT !.pooled = TRUE]]
    /\ UNCHANGED << gate, leg, warming >>

\* Mutant: idleness is judged by the completion stamp alone.
Inactive_used(c) == conn[c].stale

Inactive(c) == conn[c].idle

\* maintain: dead connections, every idle UDP entry and the idle stream ones
\* beyond min_conns leave the pool; then the warm-up.  (The longest idle go
\* first, an order the two flags do not show.)
Maintain ==
    LET idle == { c \in Purged : Inactive(c) }
        streams == Streams(idle)
        busy == Cardinality(Streams(Purged)) - Cardinality(streams)
        keep == IF min_conns > busy THEN min_conns - busy ELSE 0
    IN
    /\ LegAt(Maintainer, "rest")
    /\ \E reaped \in SUBSET streams :
          /\ Cardinality(reaped) =
                 IF Cardinality(streams) > keep THEN Cardinality(streams) - keep ELSE 0
          /\ LET gone == Dead \cup reaped \cup (idle \ streams)
                 enough == Cardinality(Streams(conns \ gone)) >= min_conns
             IN  /\ Becomes(conns \ gone, LegGoto(Maintainer, IF enough THEN "rest" ELSE "warm"),
                            Close(conn, gone))
                 /\ warming' = IF enough THEN {} ELSE StreamEps
    /\ UNCHANGED << gate, growing >>

\* warm_up_to_min: the next endpoint, until min_conns stream connections exist.
Warm ==
    LET enough == Cardinality(Streams(conns)) >= min_conns IN
    /\ LegAt(Maintainer, "warm")
    /\ \/ /\ enough \/ warming = {}
          /\ leg' = [leg EXCEPT ![Maintainer] = AtRest]
          /\ warming' = {}
          /\ UNCHANGED << conns, conn, gate >>
       \/ \E e \in warming :
             /\ ~enough
             /\ warming' = warming \ {e}
             /\ FindReusable(Maintainer, e, "cold")
    /\ UNCHANGED growing

\* Time passes for a connection of the pool.  A query does not last as long as
\* idle_timeout, so that one with a query in flight does not become idle.
Ages(c) ==
    /\ c \in conns
    /\ conn' = [conn EXCEPT ![c] = [@ EXCEPT !.stale = TRUE,
                                            !.idle = ~\E t \in DnsLegs : leg[t].c = c /\ InQuery(t)]]
    /\ UNCHANGED << conns, gate, growing, leg, warming >>

LegStep(t) ==
    \/ AcquireCold(t) \/ TakeTurn(t) \/ WaitTimesOut(t)
    \/ DialLands(t) \/ DialFails(t) \/ Stamp(t)
    \/ \E o \in QueryOutcomes : QueryEnds(t, o) \/ FreshAnswers(t, o) \/ StaleEnds(t, o)
    \/ FreshDialed(t) \/ FreshDialFails(t) \/ FreshFails(t) \/ Abort(t)

DnsPoolNext ==
    /\ UNCHANGED min_conns
    /\ \/ \E t \in DnsTasks : LegStep(t)
       \/ \E t \in DnsLegs, e \in Eps : LegQuery(t, e)
       \/ \E e \in StreamEps : Grows(e)
       \/ \E c \in ConnIds : Ages(c)
       \/ Maintain \/ Warm

DnsPoolSpec == DnsPoolInit /\ [][DnsPoolNext]_dnsPoolVars

-----------------------------------------------------------------------------

DnsPoolTypeOK ==
    /\ conns \subseteq ConnIds
    /\ growing \subseteq StreamEps /\ warming \subseteq StreamEps
    /\ \A c \in ConnIds : conn[c].ep \in Eps \cup {NoEp} /\ (conn[c].idle => conn[c].stale)
    /\ \A e \in Eps : Cardinality(gate[e]) <= 1

\* max_conns is a budget across the endpoints that no order of dials, races
\* and scale-ups exceeds, although each looks at it before it dials.
CapHeld == Cardinality(Streams(conns)) <= max_conns

\* The shutdown contract: a dialed connection is in the pool, in the hands of
\* a leg, or was shut down - but for the fresh dial of an aborted race.
NothingLost == \A c \in ConnIds : conn[c] # Unused => Referenced(c, conns, leg)

\* What the pool hands out is open: retirement takes a connection out of the
\* vector before it shuts it down.
PooledIsOpen == \A c \in conns : conn[c].pooled /\ ~conn[c].closed

\* The gate of an endpoint is held by a leg that is dialing it, however legs end.
GateIsHeld ==
    \A e \in Eps : \A t \in gate[e] : leg[t].ep = e /\ leg[t].pc = "dial"

\* A connection is shut down under a query only if it was found dead: the
\* idle reaper keeps off it - but for a query that stamped its borrow too late.
Using(t, c) == leg[t].c = c /\ InQuery(t)

QueryKeepsConn ==
    \A t \in DnsLegs, c \in ConnIds :
        Using(t, c) /\ conn[c].closed => conn[c].dead \/ leg[t].late

\* The pool of an upstream, in every state: the cap, the shutdown contract,
\* what the pool holds, its gates, and no query cut off by the idle reaper.
DnsPoolInv ==
    DnsPoolTypeOK /\ CapHeld /\ NothingLost /\ PooledIsOpen /\ GateIsHeld /\ QueryKeepsConn

\* The contract as the comments state it: every dialed connection.  It fails
\* for a leg that is aborted in a race after its fresh dial (Abort).
EveryDialClosed == [][\A t \in DnsLegs : leg[t].fresh # NoConn => ~Abort(t)]_dnsPoolVars

\* "A query in flight ... cannot be reaped", for all queries.  It fails when a
\* maintenance pass falls between find_reusable and the stamp of the borrow.
NoQueryOnReaped ==
    \A t \in DnsLegs, c \in ConnIds : Using(t, c) /\ conn[c].closed => conn[c].dead

=============================================================================
