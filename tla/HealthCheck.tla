---------------------------- MODULE HealthCheck ----------------------------
(***************************************************************************)
(* Health of one WAN link: the section that probes its targets in rounds,  *)
(* the evaluator that debounces the rounds into a verdict, and the route   *)
(* service's table of verdicts with the flip events it broadcasts.         *)
(*                                                                         *)
(* A round is the number of targets that could be probed at all and the    *)
(* number that answered; round-trip times and their averages are left out. *)
(* The table is changed under a lock and the event sent after it, by the   *)
(* section and by whoever removes the link's IPv4 route: two steps each.   *)
(***************************************************************************)
EXTENDS Integers, Sequences

CONSTANTS
  Targets,            \* most targets of a round
  failure_threshold,  \* failed rounds that make a link Unhealthy
  recovery_threshold, \* successful rounds that bring it back
  reliability,        \* answers a successful round needs
  MaxRounds,          \* bound: rounds of one run
  MaxRuns,            \* bound: runs of the section
  MaxRouteLosses      \* bound: removals of the link's IPv4 route

ASSUME HealthConstants ==
  /\ Targets \in Nat \ {0} /\ failure_threshold \in Nat /\ recovery_threshold \in Nat
  /\ reliability \in Nat /\ MaxRounds \in Nat /\ MaxRuns \in Nat /\ MaxRouteLosses \in Nat

HEALTH_WARMUP_ROUNDS == 1
HEALTH_BLIND_ROUNDS == 3

VARIABLES
  section,   \* "off", "init", "wait", "probe", "push", "publish", "clear", "clearing"
  eval,      \* HealthEvaluator
  blind,     \* consecutive rounds without evidence
  stopping,  \* the section's stop token
  health,    \* link_healths: the link's stored state, or NoHealth
  flip,      \* per writer: the event it has to send
  remover,   \* a call that removes the IPv4 route: "idle", "sending"
  heard,     \* history: the state the events add up to
  chained,   \* history: every event started where the one before ended
  crossed,   \* history: two writers were between table and event
  rounds,    \* history: outcomes of this run's rounds
  runs, losses

hcVars == << section, eval, blind, stopping, health, flip, remover, heard, chained, crossed, rounds, runs, losses >>

States == {"Unknown", "Healthy", "Unhealthy"}
NoHealth == "NoHealth"
NoFlip == [from |-> NoHealth, to |-> NoHealth]
AtLeastOne(n) == IF n < 1 THEN 1 ELSE n
Least(a, b) == IF a < b THEN a ELSE b

NewEvaluator == [state |-> "Unknown", failures |-> 0, successes |-> 0, seen |-> 0]

\* A round succeeds when enough of the targets that could be probed answered.
RoundOk(total, up) == up >= Least(AtLeastOne(reliability), total)

\* Mutant: a failed round does not restart the count of successes.
apply_round_noReset(ev, ok) ==
  IF ok
  THEN [state |-> IF ev.state = "Unhealthy" /\ ev.successes + 1 < AtLeastOne(recovery_threshold)
                  THEN "Unhealthy" ELSE "Healthy",
        failures |-> 0, successes |-> ev.successes + 1, seen |-> ev.seen + 1]
  ELSE LET fails == IF ev.seen < HEALTH_WARMUP_ROUNDS THEN ev.failures ELSE ev.failures + 1 IN
       [state |-> IF ev.seen >= HEALTH_WARMUP_ROUNDS /\ fails >= AtLeastOne(failure_threshold)
                  THEN "Unhealthy" ELSE ev.state,
        failures |-> fails, successes |-> ev.successes, seen |-> ev.seen + 1]

apply_round(ev, ok) ==
  IF ok
  THEN [state |-> IF ev.state = "Unhealthy" /\ ev.successes + 1 < AtLeastOne(recovery_threshold)
                  THEN "Unhealthy" ELSE "Healthy",
        failures |-> 0, successes |-> ev.successes + 1, seen |-> ev.seen + 1]
  ELSE LET fails == IF ev.seen < HEALTH_WARMUP_ROUNDS THEN ev.failures ELSE ev.failures + 1 IN
       [state |-> IF ev.seen >= HEALTH_WARMUP_ROUNDS /\ fails >= AtLeastOne(failure_threshold)
                  THEN "Unhealthy" ELSE ev.state,
        failures |-> fails, successes |-> 0, seen |-> ev.seen + 1]

StoredHealth == IF health = NoHealth THEN "Unknown" ELSE health

\* The event of a change of the stored state, if it is one.
Flip(from, to) == IF from = to THEN NoFlip ELSE [from |-> from, to |-> to]

HcInit ==
  /\ section = "off" /\ eval = NewEvaluator /\ blind = 0 /\ stopping = FALSE
  /\ health = NoHealth /\ flip = [section |-> NoFlip, remover |-> NoFlip] /\ remover = "idle"
  /\ heard = "Unknown" /\ chained = TRUE /\ crossed = FALSE
  /\ rounds = << >> /\ runs = 0 /\ losses = 0

route == << remover, losses >>
history == << heard, chained >>

\* The event leaves its writer: what subscribers see.
Publish(w) ==
  /\ flip' = [flip EXCEPT ![w] = NoFlip]
  /\ heard' = IF flip[w] = NoFlip THEN heard ELSE flip[w].to
  /\ chained' = (chained /\ (flip[w] = NoFlip \/ flip[w].from = heard))

\* The framework starts the section: a new evaluator.
Start ==
  /\ section = "off" /\ runs < MaxRuns
  /\ section' = "init" /\ runs' = runs + 1
  /\ eval' = NewEvaluator /\ blind' = 0 /\ stopping' = FALSE /\ rounds' = << >>
  /\ UNCHANGED << health, flip, crossed, route, history >>

\* No IPv4 session address: the run fails before its first push.
StartFails ==
  /\ section = "init"
  /\ section' = "off"
  /\ UNCHANGED << eval, blind, stopping, health, flip, crossed, rounds, runs, route, history >>

\* update_link_health: the table, with the event still to be sent.
PushHealth(next) ==
  /\ health' = eval.state
  /\ flip' = [flip EXCEPT !["section"] = Flip(StoredHealth, eval.state)]
  /\ crossed' = (crossed \/ remover = "sending")
  /\ section' = next

InitialPush ==
  /\ section = "init"
  /\ PushHealth("publish")
  /\ UNCHANGED << eval, blind, stopping, rounds, runs, route, history >>

Sent ==
  /\ section = "publish"
  /\ Publish("section") /\ section' = "wait"
  /\ UNCHANGED << eval, blind, stopping, health, crossed, rounds, runs, route >>

\* The ticker; a round without targets is skipped.
Tick ==
  /\ section = "wait" /\ Len(rounds) < MaxRounds
  /\ section' = "probe"
  /\ UNCHANGED << eval, blind, stopping, health, flip, crossed, rounds, runs, route, history >>

\* Evidence from at least one target.
Evidence(total, up) ==
  /\ section = "probe" /\ up <= total
  /\ blind' = 0
  /\ eval' = apply_round(eval, RoundOk(total, up))
  /\ rounds' = Append(rounds, RoundOk(total, up))
  /\ section' = "push"
  /\ UNCHANGED << stopping, health, flip, crossed, runs, route, history >>

PushRound ==
  /\ section = "push"
  /\ PushHealth("publish")
  /\ UNCHANGED << eval, blind, stopping, rounds, runs, route, history >>

\* Every probe failed locally: no verdict; the third time the section fails.
Blind ==
  /\ section = "probe"
  /\ blind' = blind + 1
  /\ section' = IF blind' >= HEALTH_BLIND_ROUNDS THEN "clear" ELSE "wait"
  /\ UNCHANGED << eval, stopping, health, flip, crossed, rounds, runs, route, history >>

AskStop ==
  /\ section # "off" /\ ~stopping
  /\ stopping' = TRUE
  /\ UNCHANGED << section, eval, blind, health, flip, crossed, rounds, runs, route, history >>

SeesStop ==
  /\ section = "wait" /\ stopping
  /\ section' = "clear"
  /\ UNCHANGED << eval, blind, stopping, health, flip, crossed, rounds, runs, route, history >>

\* clear_link_health by the section that ends.
ClearEntry ==
  /\ section = "clear"
  /\ health' = NoHealth
  /\ flip' = [flip EXCEPT !["section"] = Flip(StoredHealth, "Unknown")]
  /\ crossed' = (crossed \/ remover = "sending")
  /\ section' = "clearing"
  /\ UNCHANGED << eval, blind, stopping, rounds, runs, route, history >>

Ends ==
  /\ section = "clearing"
  /\ Publish("section") /\ section' = "off"
  /\ UNCHANGED << eval, blind, stopping, health, crossed, rounds, runs, route >>

\* Mutant: the removal of the route sends the flip it read, whatever is stored.
RouteLost_silent ==
  /\ remover = "idle" /\ losses < MaxRouteLosses
  /\ losses' = losses + 1 /\ remover' = "sending"
  /\ health' = NoHealth /\ flip' = [flip EXCEPT !["remover"] = NoFlip]
  /\ crossed' = (crossed \/ section \in {"publish", "clearing"})
  /\ UNCHANGED << section, eval, blind, stopping, rounds, runs, history >>

\* remove_ipv4_wan_route: clear_link_health by the caller.
RouteLost ==
  /\ remover = "idle" /\ losses < MaxRouteLosses
  /\ losses' = losses + 1 /\ remover' = "sending"
  /\ health' = NoHealth /\ flip' = [flip EXCEPT !["remover"] = Flip(StoredHealth, "Unknown")]
  /\ crossed' = (crossed \/ section \in {"publish", "clearing"})
  /\ UNCHANGED << section, eval, blind, stopping, rounds, runs, history >>

RouteLostSent ==
  /\ remover = "sending"
  /\ Publish("remover") /\ remover' = "idle"
  /\ UNCHANGED << section, eval, blind, stopping, health, crossed, rounds, runs, losses >>

HcNext ==
  \/ Start \/ StartFails \/ InitialPush \/ Sent \/ Tick
  \/ \E total \in 1 .. Targets, up \in 0 .. Targets : Evidence(total, up)
  \/ PushRound \/ Blind \/ AskStop \/ SeesStop \/ ClearEntry \/ Ends
  \/ RouteLost \/ RouteLostSent

HcSpec == HcInit /\ [][HcNext]_hcVars

(***************************************************************************)
(* Properties                                                              *)
(***************************************************************************)
\* Types of the section, the evaluator and the table.
HcTypeOK ==
  /\ section \in {"off", "init", "wait", "probe", "push", "publish", "clear", "clearing"}
  /\ eval \in [state : States, failures : 0 .. MaxRounds, successes : 0 .. MaxRounds, seen : 0 .. MaxRounds]
  /\ blind \in 0 .. HEALTH_BLIND_ROUNDS /\ stopping \in BOOLEAN
  /\ health \in States \cup {NoHealth}
  /\ flip \in [section : [from : States \cup {NoHealth}, to : States \cup {NoHealth}],
               remover : [from : States \cup {NoHealth}, to : States \cup {NoHealth}]]
  /\ remover \in {"idle", "sending"} /\ heard \in States /\ chained \in BOOLEAN /\ crossed \in BOOLEAN
  /\ rounds \in Seq(BOOLEAN) /\ Len(rounds) <= MaxRounds
  /\ runs \in 0 .. MaxRuns /\ losses \in 0 .. MaxRouteLosses

Window(i, n, b) == i >= n /\ \A k \in (i - n + 1) .. i : rounds[k] = b
\* Rounds that complete a run of failures; the first round of a run is forgiven.
Breaks == {i \in 1 .. Len(rounds) : Window(i, AtLeastOne(failure_threshold), FALSE)
                                      /\ i - AtLeastOne(failure_threshold) + 1 > HEALTH_WARMUP_ROUNDS}
Recovered(b) == \E i \in b + 1 .. Len(rounds) : Window(i, AtLeastOne(recovery_threshold), TRUE)
                                                  /\ i - AtLeastOne(recovery_threshold) + 1 > b

\* The evaluator's counters compute what the module says they do: Unhealthy since
\* the last failure_threshold failed rounds in a row (the first round of a run is
\* forgiven) until recovery_threshold successes in a row, Healthy after any
\* success otherwise, and rounds that could not probe change nothing.
VerdictIsDebounced ==
  section \notin {"off", "init"} =>
    eval.state =
      IF \E b \in Breaks : ~Recovered(b) THEN "Unhealthy"
      ELSE IF \E i \in 1 .. Len(rounds) : rounds[i] THEN "Healthy" ELSE "Unknown"

\* When the section has ended, whatever came in between, the table holds no
\* verdict of the link.
NoVerdictLeft == section = "off" => health = NoHealth

\* What subscribers add up from the flip events is the stored state, and each
\* event starts where the previous one ended, unless the events of the section
\* and of a route's removal crossed on their way.
EventsTell ==
  ~crossed =>
    /\ chained
    /\ flip["section"] = NoFlip /\ flip["remover"] = NoFlip => heard = StoredHealth

\* The status board, its events and the section agree: no verdict outlives the
\* section that gave it, and a subscriber that adds up the flip events knows
\* the stored state, unless the section's event and the removal's crossed.
VerdictsTold == HcTypeOK /\ NoVerdictLeft /\ EventsTell
=============================================================================
