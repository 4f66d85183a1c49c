------------------------------ MODULE DnsLookup ------------------------------
(***************************************************************************)
(* A lookup on one DNS upstream and the upstream's health                  *)
(* (UpstreamPool::lookup in landscape-dns/src/connection/upstream/mod.rs). *)
(*                                                                         *)
(* A traced caller runs the whole of it: attempts under one deadline, the  *)
(* fan-out over the upstream's addresses with its Balanced selection, the  *)
(* fall-back from UDP to stream legs, the retry of a truncated answer and  *)
(* the chase of CNAMEs.  Of the others only the outcome is kept.  All of   *)
(* them share the failure streak, the offline flag and the revival probes, *)
(* whose loads and stores are steps of their own.  What a leg ends with is *)
(* left open here; DnsPool is about how.                                   *)
(***************************************************************************)
EXTENDS Naturals, FiniteSets

CONSTANTS
    DnsCallers, Traced,
    UpIps,                 \* the addresses of the upstream
    has_udp,               \* plaintext: a UDP and a TCP connector per address
    attempts, fanout, MAX_CNAME_DEPTH, UPSTREAM_FAILURE_THRESHOLD,
    ProbeLoops             \* bounds the revival loops that exist at one time

ASSUME DnsLookupAssumption ==
    /\ Traced \subseteq DnsCallers /\ UpIps # {} /\ has_udp \in BOOLEAN
    /\ attempts \in Nat \ {0} /\ fanout \in Nat \ {0}
    /\ MAX_CNAME_DEPTH \in Nat /\ UPSTREAM_FAILURE_THRESHOLD \in Nat \ {0}

VARIABLES
    health,    \* offline and consecutive_failures
    caller,    \* where the callers are, and what their lookup returned
    loop,      \* the spawned probe loops
    ask        \* the lookups of the traced callers

dnsLookupVars == << health, caller, loop, ask >>

\* What a leg returns: a message (complete, a CNAME to chase, truncated with or
\* without data), a negative answer, an error, or nothing (a panic).
Errors == {"Protocol", "Timeout", "Tls", "NoConnections"}
Cut == {"data", "empty"}
Messages == {"full", "cname"} \cup Cut
LegOutcomes == Messages \cup Errors \cup {"negative", "panic"}

Nothing == "none"

error_rank(e) ==
    CASE e = "Protocol" -> 0
      [] e \in {"Timeout", "Tls"} -> 1
      [] e = "NoConnections" -> 2
      [] OTHER -> 255

select_better_error(best, incoming) ==
    IF error_rank(best) > error_rank(incoming) THEN incoming ELSE best

\* The fan-out in progress, the attempt around it, and lookup_message.  errs
\* and failed (history, for the properties only) are the errors of the legs
\* of this attempt, and of all attempts of this hop that failed.
NoAsk ==
    [pc |-> "rest", running |-> {}, err |-> Nothing, negative |-> FALSE, trunc |-> Nothing,
     stream |-> FALSE, first |-> Nothing,
     left |-> 0, force |-> FALSE, final |-> FALSE, best |-> Nothing, part |-> Nothing,
     hop |-> 0, spent |-> FALSE, res |-> Nothing, errs |-> {}, failed |-> {}]

NewHop(q, n) == [NoAsk EXCEPT !.pc = "next", !.left = attempts, !.hop = n, !.spent = q.spent]

DnsLookupInit ==
    /\ health = [offline |-> FALSE, failures |-> 0]
    /\ caller = [c \in DnsCallers |-> [pc |-> "rest", res |-> Nothing]]
    /\ loop = [l \in ProbeLoops |-> "none"]
    /\ ask = [c \in Traced |-> NoAsk]

-----------------------------------------------------------------------------
(* The lookup, as functions of its record *)

\* fan_out spawns its legs: any fanout of the addresses (rotate_capped).
LegSets ==
    LET n == Cardinality(UpIps)
    IN  { s \in SUBSET UpIps : Cardinality(s) = IF n < fanout THEN n ELSE fanout }

FanOut(q, legs, stream, first) ==
    [q EXCEPT !.pc = "fan", !.running = legs, !.err = Nothing, !.negative = FALSE, !.trunc = Nothing,
              !.stream = stream, !.first = first]

\* attempt starts with the UDP legs of a plaintext upstream.
Attempt(q, legs) == FanOut([q EXCEPT !.errs = {}], legs, q.force \/ ~has_udp, Nothing)

Returns(q, res) == [NoAsk EXCEPT !.pc = "done", !.res = res, !.part = q.part, !.failed = q.failed]

\* lookup_with_attempts has a message: a chain is followed with a new query
\* under the same deadline, everything else is the answer.
Answered(q, m) ==
    IF m = "cname" /\ q.hop < MAX_CNAME_DEPTH THEN NewHop(q, q.hop + 1) ELSE Returns(q, m)

OrTimeout(e) == IF e = Nothing THEN "Timeout" ELSE e

\* The loop of lookup_message is left without an answer.
LoopLeft(q) ==
    IF q.part # Nothing /\ ~q.spent THEN [q EXCEPT !.pc = "retry"]
    ELSE IF q.part = "data" THEN Returns(q, "data")
    ELSE Returns(q, OrTimeout(q.best))

\* attempt returned a message.
AttemptOk(q, m) ==
    IF q.final
    THEN IF m # "empty" THEN Answered(q, m)
         ELSE IF q.part = "data" THEN Returns(q, "data")
         ELSE Returns(q, OrTimeout(q.best))
    ELSE IF m \in Cut /\ ~q.force THEN [q EXCEPT !.pc = "next", !.force = TRUE, !.part = m]
    ELSE IF m = "empty" THEN LoopLeft(q)
    ELSE Answered(q, m)

\* attempt returned an error.
AttemptErr(q, e) ==
    IF q.final
    THEN IF e = "Protocol" THEN Returns(q, e)
         ELSE IF q.part = "data" THEN Returns(q, "data")
         ELSE Returns(q, select_better_error(q.best, e))
    ELSE IF e \in {"Protocol", "Tls"} THEN Returns(q, e)
    ELSE [q EXCEPT !.pc = "next", !.best = select_better_error(@, e)]

\* Every leg failed: transient errors of the UDP legs are tried over streams.
AllFailed(q, e) ==
    LET p == [q EXCEPT !.failed = @ \cup q.errs]
    IN  IF e \notin {"Protocol", "Tls"} /\ ~q.stream
        THEN { FanOut(q, legs, TRUE, e) : legs \in LegSets }
        ELSE IF e \in {"Protocol", "Tls"} \/ q.first = Nothing THEN { AttemptErr(p, e) }
        ELSE { AttemptErr(p, select_better_error(q.first, e)) }

\* The verdict of a fan-out without a positive answer.
Verdict(q) ==
    IF q.trunc # Nothing THEN { AttemptOk(q, q.trunc) }
    ELSE IF q.negative THEN { AttemptErr(q, "Protocol") }
    ELSE AllFailed(q, IF q.err = Nothing THEN "NoConnections" ELSE q.err)

\* The fold of one leg into the selection state.
fold_leg_outcome(q, i, o) ==
    LET p == [q EXCEPT !.running = @ \ {i}]
    IN  CASE o \in Cut -> [p EXCEPT !.trunc = IF @ = Nothing THEN o ELSE @]
          [] o = "negative" -> [p EXCEPT !.negative = TRUE]
          [] o \in Errors -> [p EXCEPT !.err = select_better_error(@, o), !.errs = @ \cup {o}]
          [] OTHER -> p

\* A leg settles; a positive answer wins at once.
LegSettled(q, i, o) ==
    IF o \in {"full", "cname"} THEN { AttemptOk(q, o) }
    ELSE IF fold_leg_outcome(q, i, o).running = {} THEN Verdict(fold_leg_outcome(q, i, o))
    ELSE { fold_leg_outcome(q, i, o) }

-----------------------------------------------------------------------------
(* The traced lookups *)

Asks(c, set) ==
    /\ \E q \in set : ask' = [ask EXCEPT ![c] = q]
    /\ UNCHANGED << health, caller, loop >>

NextAttempt(c) ==
    LET q == ask[c] IN
    /\ q.pc = "next"
    /\ Asks(c, IF q.left = 0 \/ q.spent THEN { LoopLeft(q) }
                   ELSE { Attempt([q EXCEPT !.left = @ - 1], legs) : legs \in LegSets })

\* A truncation without a complete answer gets one more attempt over streams.
StreamRetry(c) ==
    /\ ask[c].pc = "retry"
    /\ Asks(c, { Attempt([ask[c] EXCEPT !.force = TRUE, !.final = TRUE], legs) : legs \in LegSets })

LegSettles(c) ==
    /\ ask[c].pc = "fan"
    /\ \E i \in ask[c].running, o \in LegOutcomes : Asks(c, LegSettled(ask[c], i, o))

\* The grace after a negative answer ends with legs still running.
GraceEnds(c) ==
    /\ ask[c].pc = "fan" /\ ask[c].negative
    /\ Asks(c, Verdict(ask[c]))

\* The lookup's deadline passes: the attempt in progress is dropped.
DeadlinePasses(c) ==
    LET q == [ask[c] EXCEPT !.spent = TRUE] IN
    /\ ask[c].pc \in {"next", "fan", "retry"} /\ ~ask[c].spent
    /\ Asks(c, { IF q.pc = "retry" \/ (q.pc = "fan" /\ q.final) THEN LoopLeft(q)
                     ELSE IF q.pc = "fan" THEN LoopLeft([q EXCEPT !.best = select_better_error(@, "Timeout")])
                     ELSE q })

-----------------------------------------------------------------------------
(* lookup, and the health of the upstream *)

\* While the upstream is offline a query fails fast, and nothing changes.
Lookup(c) ==
    /\ caller[c].pc = "rest" /\ ~health.offline
    /\ caller' = [caller EXCEPT ![c].pc = "asking"]
    /\ ask' = IF c \in Traced THEN [ask EXCEPT ![c] = NewHop(NoAsk, 0)] ELSE ask
    /\ UNCHANGED << health, loop >>

Resolved(c) ==
    /\ caller[c].pc = "asking"
    /\ IF c \in Traced
       THEN /\ ask[c].pc = "done"
            /\ caller' = [caller EXCEPT ![c] = [pc |-> "account", res |-> ask[c].res]]
            /\ ask' = [ask EXCEPT ![c] = NoAsk]
       ELSE /\ \E r \in Errors \cup {"full"} : caller' = [caller EXCEPT ![c] = [pc |-> "account", res |-> r]]
            /\ UNCHANGED ask
    /\ UNCHANGED << health, loop >>

\* The client goes away: the lookup is dropped where it awaits.
DropLookup(c) ==
    /\ caller[c].pc = "asking"
    /\ caller' = [caller EXCEPT ![c].pc = "rest"]
    /\ ask' = IF c \in Traced THEN [ask EXCEPT ![c] = NoAsk] ELSE ask
    /\ UNCHANGED << health, loop >>

AtCaller(c, pc) ==
    caller' = [caller EXCEPT ![c] = [pc |-> pc, res |-> Nothing]]

\* Streaks beyond the threshold are alike.
Longer(n) == IF n < UPSTREAM_FAILURE_THRESHOLD THEN n + 1 ELSE n

Account(c) ==
    LET r == caller[c].res IN
    /\ caller[c].pc = "account"
    /\ \/ /\ r \in Messages \cup {"Protocol"} /\ AtCaller(c, "revive")
          /\ health' = [health EXCEPT !.failures = 0]
       \/ r \in {"NoConnections", "Tls"} /\ AtCaller(c, "rest") /\ UNCHANGED health
       \/ /\ r = "Timeout"
          /\ health' = [health EXCEPT !.failures = Longer(@)]
          /\ AtCaller(c, IF Longer(health.failures) >= UPSTREAM_FAILURE_THRESHOLD THEN "flip" ELSE "rest")
    /\ UNCHANGED << loop, ask >>

\* record_success: the exchange of offline, after the store of the streak.
Revive(c) ==
    /\ caller[c].pc = "revive" /\ AtCaller(c, "rest")
    /\ health' = [health EXCEPT !.offline = FALSE]
    /\ UNCHANGED << loop, ask >>

\* record_failure: the exchange of offline tells one caller to spawn a loop.
Flip(c) ==
    /\ caller[c].pc = "flip" /\ AtCaller(c, IF health.offline THEN "rest" ELSE "spawn")
    /\ health' = [health EXCEPT !.offline = TRUE]
    /\ UNCHANGED << loop, ask >>

spawn_revival_probes(c) ==
    /\ caller[c].pc = "spawn" /\ AtCaller(c, "rest")
    /\ \E l \in ProbeLoops : loop[l] = "none" /\ loop' = [loop EXCEPT ![l] = "check"]
    /\ UNCHANGED << health, ask >>

AtLoop(l, from, to) == loop[l] = from /\ loop' = [loop EXCEPT ![l] = to]

LoopChecks(l) ==
    /\ AtLoop(l, "check", IF health.offline THEN "probe" ELSE "none")
    /\ UNCHANGED << health, caller, ask >>

\* Mutant: the loop gives up after a probe that was not answered.
Probed_once(l) ==
    /\ \/ AtLoop(l, "probe", "none") /\ UNCHANGED health
       \/ AtLoop(l, "probe", "revive") /\ health' = [health EXCEPT !.failures = 0]
       \/ AtLoop(l, "revive", "sleep") /\ health' = [health EXCEPT !.offline = FALSE]
    /\ UNCHANGED << caller, ask >>

\* A probe is not answered, or it is and record_success runs.
Probed(l) ==
    /\ \/ AtLoop(l, "probe", "sleep") /\ UNCHANGED health
       \/ AtLoop(l, "probe", "revive") /\ health' = [health EXCEPT !.failures = 0]
       \/ AtLoop(l, "revive", "sleep") /\ health' = [health EXCEPT !.offline = FALSE]
    /\ UNCHANGED << caller, ask >>

LoopWakes(l) == AtLoop(l, "sleep", "check") /\ UNCHANGED << health, caller, ask >>

CallerStep(c) ==
    Lookup(c) \/ Resolved(c) \/ DropLookup(c) \/ Account(c) \/ Revive(c) \/ Flip(c) \/ spawn_revival_probes(c)

DnsLookupNext ==
    \/ \E c \in DnsCallers : CallerStep(c)
    \/ \E c \in Traced : NextAttempt(c) \/ StreamRetry(c) \/ LegSettles(c) \/ GraceEnds(c) \/ DeadlinePasses(c)
    \/ \E l \in ProbeLoops : LoopChecks(l) \/ Probed(l) \/ LoopWakes(l)

DnsLookupSpec == DnsLookupInit /\ [][DnsLookupNext]_dnsLookupVars

-----------------------------------------------------------------------------

AskDone(c) == ask[c].pc = "done"

\* An empty truncated answer never surfaces as a success: it would be cached
\* as a negative for a domain that exists.
NeverEmpty == \A c \in Traced : AskDone(c) => ask[c].res # "empty"

\* A partial answer that is at hand beats the transport error of its retries.
PartialKept ==
    \A c \in Traced :
        AskDone(c) /\ ask[c].part = "data" => ask[c].res \notin {"Timeout", "NoConnections"}

\* The error reported is the most informative one of the attempts that
\* failed, in whatever order, phase or attempt their legs did.
ErrorInformative ==
    \A c \in Traced :
        AskDone(c) =>
            /\ ask[c].res = "NoConnections" => ask[c].failed \subseteq {"NoConnections"}
            /\ "Protocol" \in ask[c].failed => ask[c].res = "Protocol"

\* While the upstream is offline some loop is going to probe it, or is about to
\* be spawned: no interleaving of failures, answers and loops strands it.
OfflineIsProbed ==
    health.offline => \/ \E l \in ProbeLoops : loop[l] # "none"
                      \/ \E c \in DnsCallers : caller[c].pc = "spawn"

\* A lookup reports what its legs found, and an upstream that is taken offline
\* comes back when it answers.
DnsLookupInv == NeverEmpty /\ PartialKept /\ ErrorInformative /\ OfflineIsProbed

\* "One probe at a time": fails when the upstream flips again while the loop
\* of an earlier flip sleeps.
OneProbeAtATime == Cardinality({ l \in ProbeLoops : loop[l] = "probe" }) <= 1

=============================================================================
