-------------------------- MODULE WanRouting_proofs --------------------------
(***************************************************************************)
(* Proofs about the two services behind a WAN link that share no state:    *)
(* the health check (HealthCheck), for any thresholds and any number of    *)
(* rounds, and the route state with the kernel's default route             *)
(* (WanRoutes), for any number of owners and callers.                      *)
(***************************************************************************)
EXTENDS WanRoutes, HealthCheck, FiniteSetTheorems, SequenceTheorems, TLAPS

(***************************************************************************)
(* HealthCheck: the inductive invariant.                                   *)
(***************************************************************************)
\* The counters count: every round, the successes since the last failure, the
\* failures since the last success (the first round is not one).
Counters ==
  /\ eval.seen = Len(rounds)
  /\ eval.successes <= Len(rounds)
  /\ \A k \in 1 .. Len(rounds) : k > Len(rounds) - eval.successes => rounds[k] = TRUE
  /\ eval.successes < Len(rounds) => rounds[Len(rounds) - eval.successes] = FALSE
  /\ eval.failures <= Len(rounds) /\ (eval.failures > 0 => eval.failures < Len(rounds))
  /\ \A k \in 1 .. Len(rounds) : k > Len(rounds) - eval.failures => rounds[k] = FALSE
  /\ Len(rounds) - eval.failures > 1 => rounds[Len(rounds) - eval.failures] = TRUE

\* What the evaluator says, in terms of the rounds themselves.
Verdict ==
  IF \E b \in Breaks : ~Recovered(b) THEN "Unhealthy"
  ELSE IF \E i \in 1 .. Len(rounds) : rounds[i] THEN "Healthy" ELSE "Unknown"

\* Where the section stands: a round begins only below the bound, the third
\* blind one ends the run, and outside a run the table has no entry.
Rounds ==
  /\ section = "probe" => Len(rounds) < MaxRounds
  /\ section \notin {"off", "clear", "clearing"} => blind < HEALTH_BLIND_ROUNDS
  /\ section \in {"off", "init", "clearing"} => health = NoHealth

\* The event on its way leads from what subscribers know to what is stored.
Leads(e) == IF e = NoFlip THEN heard = StoredHealth ELSE e.from = heard /\ e.to = StoredHealth

Told ==
  /\ \A w \in {"section", "remover"} : flip[w] = NoFlip \/ flip[w].to \in States
  /\ section \notin {"publish", "clearing"} => flip["section"] = NoFlip
  /\ remover # "sending" => flip["remover"] = NoFlip
  /\ ~crossed => /\ chained
                 /\ remover = "sending" => section \notin {"publish", "clearing"} /\ Leads(flip["remover"])
                 /\ remover # "sending" => Leads(flip["section"])

HcIInv == HcTypeOK /\ Counters /\ eval.state = Verdict /\ Rounds /\ Told

(***************************************************************************)
(* HealthCheck: what one more round does.                                  *)
(***************************************************************************)
LEMMA Thresholds ==
  /\ AtLeastOne(failure_threshold) \in Nat /\ AtLeastOne(failure_threshold) >= 1
  /\ AtLeastOne(recovery_threshold) \in Nat /\ AtLeastOne(recovery_threshold) >= 1
  BY HealthConstants DEF AtLeastOne

\* The evaluator after a round, field by field.
LEMMA RoundApplied ==
  ASSUME NEW ev \in [state : States, failures : Nat, successes : Nat, seen : Nat], NEW ok \in BOOLEAN
  PROVE  LET e == apply_round(ev, ok) IN
         /\ e \in [state : States, failures : Nat, successes : Nat, seen : Nat]
         /\ e.seen = ev.seen + 1
         /\ ok => /\ e.failures = 0 /\ e.successes = ev.successes + 1
                  /\ e.state = IF ev.state = "Unhealthy" /\ ev.successes + 1 < AtLeastOne(recovery_threshold)
                               THEN "Unhealthy" ELSE "Healthy"
         /\ ~ok => /\ e.successes = 0
                   /\ e.failures = IF ev.seen = 0 THEN ev.failures ELSE ev.failures + 1
                   /\ e.state = IF ev.seen > 0 /\ e.failures >= AtLeastOne(failure_threshold)
                                THEN "Unhealthy" ELSE ev.state
  <1>1. CASE ok
    BY <1>1 DEF apply_round, States
  <1>2. CASE ~ok
    <2> DEFINE fails == IF ev.seen < HEALTH_WARMUP_ROUNDS THEN ev.failures ELSE ev.failures + 1
               st == IF ev.seen >= HEALTH_WARMUP_ROUNDS /\ fails >= AtLeastOne(failure_threshold)
                     THEN "Unhealthy" ELSE ev.state
    <2>1. apply_round(ev, ok) = [state |-> st, failures |-> fails, successes |-> 0, seen |-> ev.seen + 1]
      BY <1>2 DEF apply_round
    <2>2. fails \in Nat /\ fails = (IF ev.seen = 0 THEN ev.failures ELSE ev.failures + 1)
      BY DEF HEALTH_WARMUP_ROUNDS
    <2>3. st \in States /\ st = IF ev.seen > 0 /\ fails >= AtLeastOne(failure_threshold) THEN "Unhealthy" ELSE ev.state
      BY DEF HEALTH_WARMUP_ROUNDS, States
    <2> HIDE DEF fails, st
    <2> QED
      BY <1>2, <2>1, <2>2, <2>3
  <1> QED
    BY <1>1, <1>2

\* The rounds and the counters after one more round.
LEMMA OneMoreRound ==
  ASSUME HcTypeOK, Counters, NEW ok \in BOOLEAN,
         rounds' = Append(rounds, ok), eval' = apply_round(eval, ok)
  PROVE  /\ rounds' \in Seq(BOOLEAN) /\ Len(rounds') = Len(rounds) + 1 /\ rounds'[Len(rounds) + 1] = ok
         /\ \A k \in 1 .. Len(rounds) : rounds'[k] = rounds[k]
         /\ Len(rounds) \in Nat /\ \A k \in 1 .. Len(rounds) : rounds[k] \in BOOLEAN
         /\ Counters'
  <1>1. /\ rounds \in Seq(BOOLEAN) /\ Len(rounds) \in Nat
        /\ eval \in [state : States, failures : Nat, successes : Nat, seen : Nat]
    BY HealthConstants DEF HcTypeOK
  <1>2. /\ rounds' \in Seq(BOOLEAN) /\ Len(rounds') = Len(rounds) + 1 /\ rounds'[Len(rounds) + 1] = ok
        /\ \A k \in 1 .. Len(rounds) : rounds'[k] = rounds[k]
        /\ \A k \in 1 .. Len(rounds) : rounds[k] \in BOOLEAN
    BY <1>1, AppendProperties, ElementOfSeq
  <1>3. eval'.seen = Len(rounds')
    BY <1>1, <1>2, RoundApplied DEF Counters
  <1> DEFINE n == Len(rounds)
  <1>4. n \in Nat /\ Len(rounds') = n + 1
    BY <1>1, <1>2
  <1>5. CASE ok
    <2>1. eval'.failures = 0 /\ eval'.successes = eval.successes + 1
      BY <1>1, <1>5, RoundApplied
    <2> QED
      BY <2>1, <1>1, <1>2, <1>3, <1>5 DEF Counters
  <1>6. CASE ~ok
    <2>0. eval.seen = n
      BY DEF Counters
    <2>1. eval'.successes = 0 /\ eval'.failures = IF n = 0 THEN eval.failures ELSE eval.failures + 1
      BY <2>0, <1>1, <1>6, RoundApplied
    <2>2. n = 0 => eval.failures = 0
      BY <1>1 DEF Counters
    <2> QED
      BY <2>1, <2>2, <1>1, <1>2, <1>3, <1>6 DEF Counters
  <1> QED
    BY <1>1, <1>2, <1>5, <1>6

\* Windows that end before the new round are as they were.
LEMMA OldWindows ==
  ASSUME Len(rounds) \in Nat, \A k \in 1 .. Len(rounds) : rounds'[k] = rounds[k],
         NEW i \in 1 .. Len(rounds), NEW w \in Nat, w >= 1, NEW b
  PROVE  Window(i, w, b)' <=> Window(i, w, b)
  BY DEF Window

\* The window that ends with the new round, in terms of the counters.
LEMMA NewWindow ==
  ASSUME HcTypeOK, Counters, NEW ok \in BOOLEAN,
         rounds' = Append(rounds, ok), eval' = apply_round(eval, ok),
         NEW n \in Nat, n = Len(rounds) + 1, NEW w \in Nat, w >= 1
  PROVE  /\ Window(n, w, TRUE)' <=> eval'.successes >= w
         /\ (Window(n, w, FALSE)' /\ n - w + 1 > HEALTH_WARMUP_ROUNDS) <=> eval'.failures >= w
  <1>1. /\ Counters' /\ Len(rounds') = n /\ n >= 1 /\ \A k \in 1 .. n : rounds'[k] \in BOOLEAN
    BY OneMoreRound
  <1>2. eval'.failures \in Nat /\ eval'.successes \in Nat
    <2>1. eval \in [state : States, failures : Nat, successes : Nat, seen : Nat]
      BY HealthConstants DEF HcTypeOK
    <2> QED
      BY <2>1, RoundApplied
  <1>3. Window(n, w, TRUE)' <=> eval'.successes >= w
    <2>1. ASSUME eval'.successes >= w PROVE Window(n, w, TRUE)'
      BY <2>1, <1>1, <1>2 DEF Window, Counters
    <2>2. ASSUME ~(eval'.successes >= w), Window(n, w, TRUE)' PROVE FALSE
      <3>1. n >= w /\ \A k \in (n - w + 1) .. n : rounds'[k] = TRUE
        BY <2>2 DEF Window
      <3>2. n - eval'.successes \in (n - w + 1) .. n /\ eval'.successes < n
        BY <2>2, <3>1, <1>1, <1>2
      <3>3. rounds'[n - eval'.successes] = FALSE
        BY <3>2, <1>1 DEF Counters
      <3> QED
        BY <3>1, <3>2, <3>3
    <2> QED
      BY <2>1, <2>2
  <1>4. (Window(n, w, FALSE)' /\ n - w + 1 > HEALTH_WARMUP_ROUNDS) <=> eval'.failures >= w
    <2>1. ASSUME eval'.failures >= w PROVE Window(n, w, FALSE)' /\ n - w + 1 > HEALTH_WARMUP_ROUNDS
      BY <2>1, <1>1, <1>2 DEF Window, Counters, HEALTH_WARMUP_ROUNDS
    <2>2. ASSUME ~(eval'.failures >= w), Window(n, w, FALSE)', n - w + 1 > HEALTH_WARMUP_ROUNDS PROVE FALSE
      <3>1. n >= w /\ \A k \in (n - w + 1) .. n : rounds'[k] = FALSE
        BY <2>2 DEF Window
      <3>2. n - eval'.failures \in (n - w + 1) .. n /\ n - eval'.failures > 1
        BY <2>2, <3>1, <1>1, <1>2 DEF HEALTH_WARMUP_ROUNDS
      <3>3. rounds'[n - eval'.failures] = TRUE
        BY <3>2, <1>1 DEF Counters
      <3> QED
        BY <3>1, <3>2, <3>3
    <2> QED
      BY <2>1, <2>2
  <1> QED
    BY <1>3, <1>4

\* The evaluator's verdict stays the one the rounds give.
LEMMA VerdictFollows ==
  ASSUME HcTypeOK, Counters, eval.state = Verdict, NEW ok \in BOOLEAN,
         rounds' = Append(rounds, ok), eval' = apply_round(eval, ok)
  PROVE  eval'.state = Verdict'
  <1> PICK n \in Nat : n = Len(rounds) + 1
    BY DEF HcTypeOK
  <1> DEFINE ft == AtLeastOne(failure_threshold)
             rt == AtLeastOne(recovery_threshold)
             Down == \E b \in Breaks : ~Recovered(b)
  <1>0. ft \in Nat /\ ft >= 1 /\ rt \in Nat /\ rt >= 1
    BY Thresholds
  <1>1. /\ Counters' /\ Len(rounds') = n /\ Len(rounds) \in Nat /\ n \in Nat /\ n >= 1 /\ rounds'[n] = ok
        /\ \A k \in 1 .. Len(rounds) : rounds'[k] = rounds[k] /\ rounds[k] \in BOOLEAN
    BY OneMoreRound
  <1>2. /\ eval \in [state : States, failures : Nat, successes : Nat, seen : Nat] /\ eval.seen = Len(rounds)
        /\ eval' \in [state : States, failures : Nat, successes : Nat, seen : Nat]
    BY HealthConstants, RoundApplied DEF HcTypeOK, Counters
  <1> HIDE DEF ft, rt
  <1>3. Breaks' = Breaks \cup (IF eval'.failures >= ft THEN {n} ELSE {})
    <2>1. ASSUME NEW i \in 1 .. Len(rounds) PROVE i \in Breaks' <=> i \in Breaks
      <3>1. Window(i, ft, FALSE)' <=> Window(i, ft, FALSE)
        BY <1>0, <1>1, OldWindows
      <3>2. i \in Breaks <=> Window(i, ft, FALSE) /\ i - ft + 1 > HEALTH_WARMUP_ROUNDS
        BY Zenon DEF Breaks, ft
      <3>3. i \in Breaks' <=> i \in 1 .. Len(rounds') /\ Window(i, ft, FALSE)' /\ i - ft + 1 > HEALTH_WARMUP_ROUNDS
        BY Zenon DEF Breaks, ft
      <3>4. i \in 1 .. Len(rounds')
        BY <1>1
      <3> QED
        BY <3>1, <3>2, <3>3, <3>4, Zenon
    <2>2. n \in Breaks' <=> eval'.failures >= ft
      <3>1. (Window(n, ft, FALSE)' /\ n - ft + 1 > HEALTH_WARMUP_ROUNDS) <=> eval'.failures >= ft
        BY <1>0, NewWindow
      <3>2. n \in Breaks' <=> n \in 1 .. Len(rounds') /\ Window(n, ft, FALSE)' /\ n - ft + 1 > HEALTH_WARMUP_ROUNDS
        BY Zenon DEF Breaks, ft
      <3>3. n \in 1 .. Len(rounds')
        BY <1>1
      <3> QED
        BY <3>1, <3>2, <3>3, Zenon
    <2>3. Breaks' \subseteq 1 .. n /\ Breaks \subseteq 1 .. Len(rounds)
      BY <1>1 DEF Breaks
    <2> QED
      <3>1. 1 .. n = (1 .. Len(rounds)) \cup {n} /\ n \notin 1 .. Len(rounds)
        BY <1>1
      <3>2. CASE eval'.failures >= ft
        BY <3>1, <3>2, <2>1, <2>2, <2>3, Zenon
      <3>3. CASE ~(eval'.failures >= ft)
        BY <3>1, <3>3, <2>1, <2>2, <2>3, Zenon
      <3> QED
        BY <3>2, <3>3
  <1>4. ASSUME NEW b \in Breaks
        PROVE  Recovered(b)' <=> Recovered(b) \/ eval'.successes >= rt
    <2>1. b \in 1 .. Len(rounds) /\ rounds[b] = FALSE
      BY <1>0, <1>1 DEF Breaks, Window, ft
    <2>2. Recovered(b)' <=> \/ \E i \in b + 1 .. Len(rounds) : Window(i, rt, TRUE)' /\ i - rt + 1 > b
                            \/ Window(n, rt, TRUE)' /\ n - rt + 1 > b
      <3>1. b + 1 .. Len(rounds') = (b + 1 .. Len(rounds)) \cup {n}
        BY <2>1, <1>1
      <3> QED
        BY <3>1 DEF Recovered, rt
    <2>3. ASSUME NEW i \in b + 1 .. Len(rounds) PROVE Window(i, rt, TRUE)' <=> Window(i, rt, TRUE)
      <3>1. i \in 1 .. Len(rounds)
        BY <2>1, <1>1
      <3> QED
        BY <3>1, <1>0, <1>1, OldWindows
    <2>4. Window(n, rt, TRUE)' <=> eval'.successes >= rt
      BY <1>0, NewWindow
    <2>5. Window(n, rt, TRUE)' => n - rt + 1 > b
      <3>1. rounds'[b] = FALSE
        BY <2>1, <1>1
      <3> QED
        BY <2>1, <3>1, <1>0, <1>1 DEF Window
    <2> QED
      BY <2>2, <2>3, <2>4, <2>5 DEF Recovered, rt
  <1>5. ~Recovered(n)'
    <2>1. n + 1 .. Len(rounds') = {}
      BY <1>1
    <2> QED
      BY <2>1 DEF Recovered
  <1>6. Verdict' = IF Down' THEN "Unhealthy" ELSE IF \E i \in 1 .. Len(rounds') : rounds'[i] THEN "Healthy" ELSE "Unknown"
    BY DEF Verdict
  <1>7. eval.state = IF Down THEN "Unhealthy" ELSE IF \E i \in 1 .. Len(rounds) : rounds[i] THEN "Healthy" ELSE "Unknown"
    BY DEF Verdict
  <1>8. CASE ok
    <2>1. eval'.failures = 0 /\ eval'.successes = eval.successes + 1
          /\ eval'.state = IF eval.state = "Unhealthy" /\ eval.successes + 1 < rt THEN "Unhealthy" ELSE "Healthy"
      BY <1>2, <1>8, RoundApplied DEF rt
    <2>2. Breaks' = Breaks
      BY <2>1, <1>0, <1>3
    <2>3. Down' <=> Down /\ eval.successes + 1 < rt
      BY <2>1, <2>2, <1>0, <1>2, <1>4
    <2>4. \E i \in 1 .. Len(rounds') : rounds'[i]
      BY <1>1, <1>8
    <2>5. eval.state = "Unhealthy" <=> Down
      BY <1>7
    <2> HIDE DEF Down
    <2> QED
      BY <2>1, <2>3, <2>4, <2>5, <1>6
  <1>9. CASE ~ok
    <2>1. /\ eval'.successes = 0 /\ eval'.failures = IF Len(rounds) = 0 THEN eval.failures ELSE eval.failures + 1
          /\ eval'.state = IF Len(rounds) > 0 /\ eval'.failures >= ft THEN "Unhealthy" ELSE eval.state
      BY <1>2, <1>9, RoundApplied, ZenonT(60) DEF ft
    <2>2. Len(rounds) = 0 => eval'.failures = 0
      BY <2>1, <1>1, <1>2 DEF Counters
    <2>3. Down' <=> Down \/ eval'.failures >= ft
      <3>1. \A b \in Breaks : Recovered(b)' <=> Recovered(b)
        BY <2>1, <1>0, <1>4
      <3> QED
        BY <3>1, <1>3, <1>5
    <2>4. (\E i \in 1 .. Len(rounds') : rounds'[i]) <=> \E i \in 1 .. Len(rounds) : rounds[i]
      BY <1>1, <1>9
    <2>5. eval'.state = IF eval'.failures >= ft THEN "Unhealthy" ELSE eval.state
      BY <2>1, <2>2, <1>0, <1>1
    <2> HIDE DEF Down
    <2> QED
      BY <2>3, <2>4, <2>5, <1>6, <1>7
  <1> QED
    BY <1>8, <1>9

(***************************************************************************)
(* HealthCheck: each action preserves the invariant.                       *)
(***************************************************************************)
FlipRec == [from : States \cup {NoHealth}, to : States \cup {NoHealth}]

LEMMA Flips ==
  /\ NoFlip \in FlipRec
  /\ \A a, b \in States : /\ Flip(a, b) \in FlipRec
                          /\ a = b => Flip(a, b) = NoFlip
                          /\ a # b => Flip(a, b) # NoFlip /\ Flip(a, b).from = a /\ Flip(a, b).to = b
  BY DEF FlipRec, NoFlip, Flip, States, NoHealth

\* Steps that leave the rounds alone.
LEMMA SameRounds ==
  ASSUME Counters, eval.state = Verdict, rounds' = rounds, eval' = eval
  PROVE  Counters' /\ eval'.state = Verdict'
  <1>1. Counters'
    BY DEF Counters
  <1>2. Verdict' = Verdict
    BY DEF Verdict, Breaks, Recovered, Window
  <1> QED
    BY <1>1, <1>2

\* A fresh evaluator has seen no round.
LEMMA FreshRounds ==
  ASSUME rounds' = << >>, eval' = NewEvaluator
  PROVE  Counters' /\ eval'.state = Verdict'
  <1>1. Len(rounds') = 0 /\ eval'.seen = 0 /\ eval'.successes = 0 /\ eval'.failures = 0 /\ eval'.state = "Unknown"
    BY DEF NewEvaluator
  <1>2. Counters'
    BY <1>1 DEF Counters
  <1>3. Breaks' = {} /\ 1 .. Len(rounds') = {}
    BY <1>1 DEF Breaks
  <1> QED
    BY <1>1, <1>2, <1>3 DEF Verdict

\* A writer's event goes out.
LEMMA PublishTold ==
  ASSUME HcTypeOK, Told, NEW w \in {"section", "remover"}, Publish(w), UNCHANGED << health, crossed >>
  PROVE  /\ flip'[w] = NoFlip /\ \A v \in {"section", "remover"} : v # w => flip'[v] = flip[v]
         /\ flip' \in [section : FlipRec, remover : FlipRec]
         /\ heard' \in States /\ chained' \in BOOLEAN /\ StoredHealth' = StoredHealth
         /\ Leads(flip[w]) => heard' = StoredHealth /\ chained' = chained
  <1>1. flip \in [section : FlipRec, remover : FlipRec] /\ heard \in States /\ chained \in BOOLEAN
    BY DEF HcTypeOK, FlipRec
  <1>2. flip' \in [section : FlipRec, remover : FlipRec] /\ flip'[w] = NoFlip
        /\ \A v \in {"section", "remover"} : v # w => flip'[v] = flip[v]
    BY <1>1, Flips DEF Publish
  <1>3. heard' \in States /\ chained' \in BOOLEAN
    BY <1>1 DEF Publish, Told
  <1>4. StoredHealth' = StoredHealth /\ StoredHealth \in States
    BY DEF StoredHealth, HcTypeOK, States
  <1>5. Leads(flip[w]) => heard' = StoredHealth /\ chained' = chained
    BY <1>1 DEF Leads, Publish
  <1> QED
    BY <1>2, <1>3, <1>4, <1>5

\* A verdict is stored, or the entry removed, by one of the two writers.
LEMMA StoreTold ==
  ASSUME HcTypeOK, Told, NEW w \in {"section", "remover"}, NEW v \in {"section", "remover"}, v # w,
         NEW to \in States, flip[w] = NoFlip,
         flip' = [flip EXCEPT ![w] = Flip(StoredHealth, to)], health' = to \/ (health' = NoHealth /\ to = "Unknown"),
         UNCHANGED history
  PROVE  /\ flip' \in [section : FlipRec, remover : FlipRec] /\ flip'[v] = flip[v]
         /\ flip'[w] = NoFlip \/ flip'[w].to \in States
         /\ health' \in States \cup {NoHealth}
         /\ heard = StoredHealth => Leads(flip[w])'
  <1>1. flip \in [section : FlipRec, remover : FlipRec]
    BY DEF HcTypeOK, FlipRec
  <1>2. StoredHealth \in States /\ StoredHealth' = to /\ health' \in States \cup {NoHealth}
    BY DEF StoredHealth, HcTypeOK, States, NoHealth
  <1> DEFINE e == Flip(StoredHealth, to)
  <1>3. /\ e \in FlipRec
        /\ StoredHealth = to => e = NoFlip
        /\ StoredHealth # to => e # NoFlip /\ e.from = StoredHealth /\ e.to = to
    BY <1>2, Flips
  <1> HIDE DEF e
  <1>4. flip'[w] = e /\ flip'[v] = flip[v] /\ flip' \in [section : FlipRec, remover : FlipRec]
    BY <1>1, <1>3 DEF e
  <1>5. flip'[w] = NoFlip \/ flip'[w].to \in States
    BY <1>3, <1>4
  <1>6. heard' = heard
    BY DEF history
  <1>7. heard = StoredHealth => Leads(flip[w])'
    BY <1>2, <1>3, <1>4, <1>6 DEF Leads
  <1> QED
    BY <1>2, <1>4, <1>5, <1>7

LEMMA HcNextIInv ==
  ASSUME HcIInv, [HcNext]_hcVars
  PROVE  HcIInv'
  <1>0. /\ HcTypeOK /\ Counters /\ eval.state = Verdict /\ Rounds /\ Told
        /\ flip \in [section : FlipRec, remover : FlipRec] /\ MaxRounds \in Nat /\ MaxRuns \in Nat /\ MaxRouteLosses \in Nat
    BY HealthConstants DEF HcIInv, HcTypeOK, FlipRec
  <1> DEFINE Quiet == UNCHANGED << health, flip, heard, chained, crossed, remover >>
  \* Steps that touch neither the table nor the events.
  <1>1. /\ Quiet
        /\ section' = section \/ (section' \notin {"publish", "clearing"} /\ section \notin {"publish", "clearing"})
        => Told'
    BY <1>0 DEF Told, Leads, StoredHealth
  <1>2. CASE Start
    <2>1. HcTypeOK'
      <3>1. eval' \in [state : States, failures : 0 .. MaxRounds, successes : 0 .. MaxRounds, seen : 0 .. MaxRounds]
        BY <1>0, <1>2 DEF Start, NewEvaluator, States
      <3>2. rounds' \in Seq(BOOLEAN) /\ Len(rounds') <= MaxRounds
        BY <1>0, <1>2 DEF Start
      <3> QED
        <4>1. blind' \in 0 .. HEALTH_BLIND_ROUNDS /\ runs' \in 0 .. MaxRuns
          BY <1>0, <1>2 DEF HcTypeOK, Start, HEALTH_BLIND_ROUNDS
        <4> QED
          BY <1>0, <1>2, <3>1, <3>2, <4>1 DEF HcTypeOK, Start, route, history
    <2>2. Counters' /\ eval'.state = Verdict'
      BY <1>2, FreshRounds DEF Start
    <2>3. Rounds' /\ Told'
      BY <1>0, <1>1, <1>2 DEF Start, Rounds, HEALTH_BLIND_ROUNDS, route, history
    <2> QED
      BY <2>1, <2>2, <2>3 DEF HcIInv
  <1>3. CASE StartFails \/ Tick \/ AskStop \/ SeesStop
    <2>1. eval' = eval /\ rounds' = rounds /\ Quiet /\ runs' = runs /\ losses' = losses /\ blind' = blind
      BY <1>3 DEF StartFails, Tick, AskStop, SeesStop, route, history
    <2>6. section' \in {"off", "probe", "clear", section} /\ stopping' \in BOOLEAN
      BY <1>0, <1>3 DEF HcTypeOK, StartFails, Tick, AskStop, SeesStop
    <2>7. section' = section \/ (section' \notin {"publish", "clearing"} /\ section \notin {"publish", "clearing"})
      BY <1>3 DEF StartFails, Tick, AskStop, SeesStop
    <2>2. HcTypeOK'
      BY <1>0, <2>1, <2>6 DEF HcTypeOK
    <2>3. Counters' /\ eval'.state = Verdict'
      BY <1>0, <2>1, SameRounds
    <2>4. Rounds'
      BY <1>0, <1>3, <2>1 DEF StartFails, Tick, AskStop, SeesStop, Rounds
    <2>5. Told'
      BY <1>1, <2>1, <2>7
    <2> QED
      BY <2>2, <2>3, <2>4, <2>5 DEF HcIInv
  <1>4. CASE Blind
    <2>1. eval' = eval /\ rounds' = rounds /\ Quiet
      BY <1>4 DEF Blind, route, history
    <2>2. HcTypeOK' /\ Rounds'
      BY <1>0, <1>4, <2>1 DEF HcTypeOK, Rounds, Blind, HEALTH_BLIND_ROUNDS, route, history
    <2>3. Counters' /\ eval'.state = Verdict'
      BY <1>0, <2>1, SameRounds
    <2>4. Told'
      BY <1>1, <1>4, <2>1 DEF Blind
    <2> QED
      BY <2>2, <2>3, <2>4 DEF HcIInv
  <1>5. CASE \E total \in 1 .. Targets, up \in 0 .. Targets : Evidence(total, up)
    <2> PICK total \in 1 .. Targets, up \in 0 .. Targets : Evidence(total, up)
      BY <1>5
    <2>1. RoundOk(total, up) \in BOOLEAN /\ eval' = apply_round(eval, RoundOk(total, up))
          /\ rounds' = Append(rounds, RoundOk(total, up)) /\ section = "probe" /\ section' = "push"
      BY DEF Evidence, RoundOk
    <2>2. Counters' /\ eval'.state = Verdict' /\ rounds' \in Seq(BOOLEAN) /\ Len(rounds') = Len(rounds) + 1
      BY <1>0, <2>1, OneMoreRound, VerdictFollows
    <2>3. Len(rounds) \in Nat /\ Len(rounds') <= MaxRounds
      BY <1>0, <2>1, <2>2 DEF Rounds, HcTypeOK
    <2>4. eval' \in [state : States, failures : 0 .. MaxRounds, successes : 0 .. MaxRounds, seen : 0 .. MaxRounds]
      <3>1. eval \in [state : States, failures : Nat, successes : Nat, seen : Nat]
        BY <1>0 DEF HcTypeOK
      <3>2. eval' \in [state : States, failures : Nat, successes : Nat, seen : Nat]
        BY <3>1, <2>1, RoundApplied
      <3>3. eval'.failures <= MaxRounds /\ eval'.successes <= MaxRounds /\ eval'.seen <= MaxRounds
        BY <3>2, <2>2, <2>3, <1>0 DEF Counters
      <3> QED
        BY <3>2, <3>3, <1>0
    <2>5. HcTypeOK' /\ Rounds'
      BY <1>0, <2>1, <2>2, <2>3, <2>4 DEF HcTypeOK, Rounds, Evidence, HEALTH_BLIND_ROUNDS, route, history
    <2>6. Told'
      BY <1>1, <2>1 DEF Evidence, route, history
    <2> QED
      BY <2>2, <2>5, <2>6 DEF HcIInv
  <1>6. CASE InitialPush \/ PushRound \/ ClearEntry
    <2> DEFINE to == IF section = "clear" THEN "Unknown" ELSE eval.state
    <2>1. /\ section \in {"init", "push", "clear"} /\ section' = (IF section = "clear" THEN "clearing" ELSE "publish")
          /\ health' = (IF section = "clear" THEN NoHealth ELSE eval.state)
          /\ flip' = [flip EXCEPT !["section"] = Flip(StoredHealth, to)]
          /\ crossed' = (crossed \/ remover = "sending")
          /\ UNCHANGED << eval, blind, stopping, rounds, runs, remover, losses, heard, chained >>
      BY <1>6 DEF InitialPush, PushRound, ClearEntry, PushHealth, route, history
    <2>2. to \in States
      BY <1>0 DEF HcTypeOK, States
    <2>3. /\ flip' \in [section : FlipRec, remover : FlipRec] /\ flip'["remover"] = flip["remover"]
          /\ flip'["section"] = NoFlip \/ flip'["section"].to \in States
          /\ health' \in States \cup {NoHealth}
          /\ heard = StoredHealth => Leads(flip["section"])'
      <3>1. flip["section"] = NoFlip /\ UNCHANGED history
        BY <1>0, <2>1 DEF Told, history
      <3> QED
        BY <1>0, <2>1, <2>2, <3>1, StoreTold
    <2>4. HcTypeOK'
      BY <1>0, <2>1, <2>3 DEF HcTypeOK, FlipRec
    <2>5. Counters' /\ eval'.state = Verdict'
      BY <1>0, <2>1, SameRounds
    <2>6. Rounds'
      BY <1>0, <2>1 DEF Rounds
    <2>7. Told'
      BY <1>0, <2>1, <2>3 DEF Told, Leads
    <2> QED
      BY <2>4, <2>5, <2>6, <2>7 DEF HcIInv
  <1>7. CASE Sent \/ Ends
    <2>1. /\ section \in {"publish", "clearing"} /\ section' = (IF section = "publish" THEN "wait" ELSE "off")
          /\ Publish("section") /\ UNCHANGED << eval, blind, stopping, health, crossed, rounds, runs, remover, losses >>
      BY <1>7 DEF Sent, Ends, route
    <2>2. /\ flip'["section"] = NoFlip /\ flip'["remover"] = flip["remover"]
          /\ flip' \in [section : FlipRec, remover : FlipRec]
          /\ heard' \in States /\ chained' \in BOOLEAN /\ StoredHealth' = StoredHealth
          /\ Leads(flip["section"]) => heard' = StoredHealth /\ chained' = chained
      BY <1>0, <2>1, PublishTold
    <2>3. HcTypeOK'
      BY <1>0, <2>1, <2>2 DEF HcTypeOK, FlipRec
    <2>4. Counters' /\ eval'.state = Verdict'
      BY <1>0, <2>1, SameRounds
    <2>5. Rounds'
      BY <1>0, <2>1 DEF Rounds
    <2>6. Told'
      BY <1>0, <2>1, <2>2 DEF Told, Leads
    <2> QED
      BY <2>3, <2>4, <2>5, <2>6 DEF HcIInv
  <1>8. CASE RouteLost
    <2>1. /\ remover = "idle" /\ losses < MaxRouteLosses /\ losses' = losses + 1 /\ remover' = "sending" /\ health' = NoHealth
          /\ flip' = [flip EXCEPT !["remover"] = Flip(StoredHealth, "Unknown")]
          /\ crossed' = (crossed \/ section \in {"publish", "clearing"})
          /\ UNCHANGED << section, eval, blind, stopping, rounds, runs, heard, chained >>
      BY <1>8 DEF RouteLost, history
    <2>2. /\ flip' \in [section : FlipRec, remover : FlipRec] /\ flip'["section"] = flip["section"]
          /\ flip'["remover"] = NoFlip \/ flip'["remover"].to \in States
          /\ heard = StoredHealth => Leads(flip["remover"])'
      <3>1. flip["remover"] = NoFlip /\ UNCHANGED history
        BY <1>0, <2>1 DEF Told, history
      <3> QED
        BY <1>0, <2>1, <3>1, StoreTold DEF States
    <2>3. HcTypeOK'
      BY <1>0, <2>1, <2>2 DEF HcTypeOK, FlipRec
    <2>4. Counters' /\ eval'.state = Verdict'
      BY <1>0, <2>1, SameRounds
    <2>5. Rounds'
      BY <1>0, <2>1 DEF Rounds
    <2>6. Told'
      BY <1>0, <2>1, <2>2 DEF Told, Leads
    <2> QED
      BY <2>3, <2>4, <2>5, <2>6 DEF HcIInv
  <1>9. CASE RouteLostSent
    <2>1. /\ remover = "sending" /\ remover' = "idle"
          /\ Publish("remover") /\ UNCHANGED << section, eval, blind, stopping, health, crossed, rounds, runs, losses >>
      BY <1>9 DEF RouteLostSent
    <2>2. /\ flip'["remover"] = NoFlip /\ flip'["section"] = flip["section"]
          /\ flip' \in [section : FlipRec, remover : FlipRec]
          /\ heard' \in States /\ chained' \in BOOLEAN /\ StoredHealth' = StoredHealth
          /\ Leads(flip["remover"]) => heard' = StoredHealth /\ chained' = chained
      BY <1>0, <2>1, PublishTold
    <2>3. HcTypeOK'
      BY <1>0, <2>1, <2>2 DEF HcTypeOK, FlipRec
    <2>4. Counters' /\ eval'.state = Verdict'
      BY <1>0, <2>1, SameRounds
    <2>5. Rounds'
      BY <1>0, <2>1 DEF Rounds
    <2>6. Told'
      BY <1>0, <2>1, <2>2 DEF Told, Leads
    <2> QED
      BY <2>3, <2>4, <2>5, <2>6 DEF HcIInv
  <1>10. CASE UNCHANGED hcVars
    <2>1. eval' = eval /\ rounds' = rounds /\ Quiet /\ section' = section
      BY <1>10 DEF hcVars
    <2>2. HcTypeOK' /\ Rounds'
      BY <1>0, <1>10, <2>1 DEF HcTypeOK, Rounds, hcVars
    <2>3. Counters' /\ eval'.state = Verdict'
      BY <1>0, <2>1, SameRounds
    <2>4. Told'
      BY <1>1, <2>1
    <2> QED
      BY <2>2, <2>3, <2>4 DEF HcIInv
  <1> QED
    BY <1>2, <1>3, <1>4, <1>5, <1>6, <1>7, <1>8, <1>9, <1>10 DEF HcNext

LEMMA HcInitIInv ==
  ASSUME HcInit
  PROVE  HcIInv
  <1>1. HcTypeOK
    <2>1. eval \in [state : States, failures : 0 .. MaxRounds, successes : 0 .. MaxRounds, seen : 0 .. MaxRounds]
      BY HealthConstants DEF HcInit, NewEvaluator, States
    <2>2. rounds \in Seq(BOOLEAN) /\ Len(rounds) <= MaxRounds
      BY HealthConstants DEF HcInit
    <2>3. flip \in [section : FlipRec, remover : FlipRec]
      BY Flips DEF HcInit
    <2> QED
      <3>1. blind \in 0 .. HEALTH_BLIND_ROUNDS /\ runs \in 0 .. MaxRuns /\ losses \in 0 .. MaxRouteLosses
        BY HealthConstants DEF HcInit, HEALTH_BLIND_ROUNDS
      <3> QED
        BY <2>1, <2>2, <2>3, <3>1 DEF HcInit, HcTypeOK, States, FlipRec
  <1>2. Len(rounds) = 0 /\ Counters
    BY DEF HcInit, Counters, NewEvaluator
  <1>3. eval.state = Verdict
    <2>1. Breaks = {} /\ 1 .. Len(rounds) = {} /\ eval.state = "Unknown"
      BY <1>2 DEF Breaks, HcInit, NewEvaluator
    <2> QED
      BY <2>1 DEF Verdict
  <1>4. Rounds /\ Told
    BY DEF HcInit, Rounds, Told, Leads, StoredHealth, HEALTH_BLIND_ROUNDS, NoHealth
  <1> QED
    BY <1>1, <1>2, <1>3, <1>4 DEF HcIInv

LEMMA HcIInvHolds == HcSpec => []HcIInv
  <1>1. HcInit => HcIInv
    BY HcInitIInv
  <1>2. HcIInv /\ [HcNext]_hcVars => HcIInv'
    BY HcNextIInv
  <1> QED
    BY <1>1, <1>2, PTL DEF HcSpec

\* The evaluator's counters compute the debounced verdict of all the rounds of a
\* run, for any thresholds and any number of rounds.
THEOREM HcVerdictIsDebounced == HcSpec => []VerdictIsDebounced
  <1>1. HcIInv => VerdictIsDebounced
    BY DEF HcIInv, Verdict, VerdictIsDebounced
  <1> QED
    BY <1>1, HcIInvHolds, PTL

\* No verdict outlives its section, and the flip events add up to the stored
\* state unless the two writers' events crossed, for any number of runs and of
\* removals of the route.
THEOREM HcVerdictsTold == HcSpec => []VerdictsTold
  <1>1. ASSUME HcIInv PROVE VerdictsTold
    <2>1. HcTypeOK /\ NoVerdictLeft
      BY <1>1 DEF HcIInv, Rounds, NoVerdictLeft
    <2>2. EventsTell
      BY <1>1 DEF HcIInv, Told, Leads, EventsTell
    <2> QED
      BY <2>1, <2>2 DEF VerdictsTold
  <1> QED
    BY <1>1, HcIInvHolds, PTL

(***************************************************************************)
(* WanRoutes: the inductive invariant.                                     *)
(***************************************************************************)
\* A call has removed Docker's IPv4 routes and has not begun its refresh.
DockerOwes(c) == call[c].pc = "docker6" /\ call[c].events > 0
OwesPcs(f) == IF f = "v4" THEN {"read4", "write4"} ELSE {"read4", "write4", "read6", "write6"}
WritePc(f) == IF f = "v4" THEN "write4" ELSE "write6"

\* What the refresh may choose.
Fits(r, f) == IF Defaults(wanRoute, f) = {} THEN r = NoRoute ELSE r \in Defaults(wanRoute, f)

\* As long as refreshes did not overlap there is one at a time, the route it
\* holds is still a choice, and a slot that does not fit will be written.
Slots ==
  ~overlap =>
    /\ \A c, d \in Callers : Refreshing(c) /\ Refreshing(d) => c = d
    /\ \A f \in Fams, c \in Callers :
         call[c].pc = WritePc(f) => Fits(call[c].seen, f) \/ \E d \in Callers : DockerOwes(d)
    /\ \A f \in Fams :
         Fits(defSlot[f], f) \/ \E c \in Callers : DockerOwes(c) \/ call[c].pc \in OwesPcs(f)

\* The doorbell rang, or will.
Rung == bell \/ \E c \in Callers : DockerOwes(c) \/ Refreshing(c)

\* The loop knows the nexthops of the table, or it will be woken.
LoopKnows ==
  /\ loop.pc = "wait" /\ loop.cache.known => loop.cache.hops = kernel_default_nexthops(wanRoute) \/ Rung
  /\ loop.pc = "sync" => loop.hops = kernel_default_nexthops(wanRoute) \/ Rung

\* Calls: removed routes are counted, at most one per owner in each table.
Counted == \A c \in Callers : call[c].pc = "docker6" => call[c].events <= Cardinality(Owners)

WanIInv == WanTypeOK /\ Counted /\ Slots /\ LoopKnows /\ CacheIsKernel

(***************************************************************************)
(* WanRoutes: facts about the tables and the calls.                        *)
(***************************************************************************)
LEMMA RouteFacts ==
  /\ NoRoute.def = FALSE /\ NoRoute.owner = NoOwner
  /\ \A o \in Owners : RoutesOf(o) \subseteq Routes /\ \A r \in RoutesOf(o) : r.owner = o
  /\ \A r \in Routes \cup {NoRoute} : r.def \in BOOLEAN
  <1>1. NoRoute.def = FALSE /\ NoRoute.owner = NoOwner
    BY DEF NoRoute, Route
  <1>2. \A o \in Owners : RoutesOf(o) \subseteq Routes /\ \A r \in RoutesOf(o) : r.owner = o /\ r.def \in BOOLEAN
    BY DEF Route, RoutesOf, Routes
  <1>3. \A r \in Routes : \E o \in Owners : r \in RoutesOf(o)
    BY DEF Routes
  <1> QED
    BY <1>1, <1>2, <1>3

\* The default routes of a table are routes.
LEMMA DefaultsAreRoutes ==
  ASSUME WanTypeOK, NEW f \in Fams
  PROVE  Defaults(wanRoute, f) \subseteq Routes /\ kernel_default_nexthops(wanRoute) \subseteq Routes
  BY RouteFacts DEF WanTypeOK, Defaults, kernel_default_nexthops, Fams

\* Setting a route that is no default, in place of one that was none either,
\* leaves the default routes as they are.
LEMMA DefaultsStay ==
  ASSUME WanTypeOK, NEW f \in Fams, NEW o \in Owners, NEW r, r.def = FALSE, wanRoute[f][o].def = FALSE,
         wanRoute' = SetRoute(wanRoute, f, o, r), NEW g \in Fams
  PROVE  Defaults(wanRoute, g)' = Defaults(wanRoute, g)
  <1>1. /\ wanRoute'[f][o] = r /\ \A p \in Owners : p # o => wanRoute'[f][p] = wanRoute[f][p]
        /\ g # f => wanRoute'[g] = wanRoute[g]
    BY DEF WanTypeOK, SetRoute
  <1>2. {p \in Owners : wanRoute'[g][p].def} = {p \in Owners : wanRoute[g][p].def}
    BY <1>1
  <1>3. \A p \in Owners : wanRoute[g][p].def => wanRoute'[g][p] = wanRoute[g][p]
    BY <1>1
  <1> QED
    BY <1>2, <1>3 DEF Defaults

\* The table after a route was set is a table.
LEMMA SetRouteType ==
  ASSUME WanTypeOK, NEW f \in Fams, NEW o \in Owners, NEW r \in RoutesOf(o) \cup {NoRoute},
         wanRoute' = SetRoute(wanRoute, f, o, r)
  PROVE  /\ wanRoute' \in [Fams -> [Owners -> Routes \cup {NoRoute}]]
         /\ \A g \in Fams, p \in Owners : wanRoute'[g][p].owner \in {p, NoOwner}
  <1>1. r \in Routes \cup {NoRoute} /\ r.owner \in {o, NoOwner}
    BY RouteFacts
  <1>2. [wanRoute[f] EXCEPT ![o] = r] \in [Owners -> Routes \cup {NoRoute}]
    BY <1>1 DEF WanTypeOK
  <1>3. wanRoute' \in [Fams -> [Owners -> Routes \cup {NoRoute}]]
    BY <1>2 DEF WanTypeOK, SetRoute
  <1>4. \A g \in Fams, p \in Owners : (wanRoute'[g][p] = r /\ p = o) \/ wanRoute'[g][p] = wanRoute[g][p]
    BY DEF WanTypeOK, SetRoute
  <1> QED
    BY <1>1, <1>3, <1>4 DEF WanTypeOK

\* Docker's routes can be counted, and removing none leaves the table as it is.
LEMMA DockerCounted ==
  ASSUME WanTypeOK, NEW f \in Fams
  PROVE  /\ Cardinality(Owners) \in Nat
         /\ Cardinality(DockerRoutes(f)) \in Nat /\ Cardinality(DockerRoutes(f)) <= Cardinality(Owners)
         /\ Cardinality(DockerRoutes(f)) = 0 => WithoutDocker(f) = wanRoute
         /\ WithoutDocker(f) \in [Fams -> [Owners -> Routes \cup {NoRoute}]]
         /\ \A g \in Fams, p \in Owners : WithoutDocker(f)[g][p].owner \in {p, NoOwner}
  <1>1. IsFiniteSet(Owners) /\ DockerRoutes(f) \subseteq Owners
    BY WanRoutesConstants DEF DockerRoutes
  <1>2. /\ IsFiniteSet(DockerRoutes(f)) /\ Cardinality(DockerRoutes(f)) <= Cardinality(Owners)
    BY <1>1, FS_Subset
  <1>3. Cardinality(DockerRoutes(f)) \in Nat /\ Cardinality(Owners) \in Nat
    BY <1>1, <1>2, FS_CardinalityType
  <1> DEFINE row == [o \in Owners |-> IF o \in Docker THEN NoRoute ELSE wanRoute[f][o]]
  <1>4. row \in [Owners -> Routes \cup {NoRoute}] /\ WithoutDocker(f) = [wanRoute EXCEPT ![f] = row]
    BY DEF WithoutDocker, WanTypeOK
  <1>5. ASSUME Cardinality(DockerRoutes(f)) = 0 PROVE WithoutDocker(f) = wanRoute
    <2>1. DockerRoutes(f) = {}
      BY <1>2, <1>5, FS_EmptySet
    <2>2. row = wanRoute[f]
      BY <2>1, WanRoutesConstants DEF DockerRoutes, WanTypeOK
    <2> QED
      BY <1>4, <2>2 DEF WanTypeOK
  <1>6. \A p \in Owners : row[p].owner \in {p, NoOwner}
    BY RouteFacts DEF WanTypeOK
  <1> HIDE DEF row
  <1>7. WithoutDocker(f) \in [Fams -> [Owners -> Routes \cup {NoRoute}]]
        /\ \A g \in Fams, p \in Owners : WithoutDocker(f)[g][p].owner \in {p, NoOwner}
    BY <1>4, <1>6 DEF WanTypeOK
  <1> QED
    BY <1>2, <1>3, <1>5, <1>7

(***************************************************************************)
(* WanRoutes: how a caller's step bears on the slots and the loop.         *)
(***************************************************************************)
\* The caller changed a table and is to refresh.
LEMMA RefreshBegins ==
  ASSUME NEW c \in Callers, call'[c].pc = "read4", \A d \in Callers : d # c => call'[d] = call[d],
         overlap' = (overlap \/ \E b \in Callers \ {c} : Refreshing(b))
  PROVE  Slots' /\ Rung'
  <1>1. Rung'
    BY DEF Rung, Refreshing
  <1>2. ASSUME ~overlap' PROVE \A d \in Callers : Refreshing(d)' => d = c
    BY <1>2 DEF Refreshing
  <1>3. ASSUME ~overlap' PROVE \A f \in Fams, d \in Callers : call'[d].pc # WritePc(f)
    BY <1>2, <1>3 DEF Refreshing, WritePc
  <1>4. \A f \in Fams : call'[c].pc \in OwesPcs(f)
    BY DEF OwesPcs
  <1> QED
    BY <1>1, <1>2, <1>3, <1>4 DEF Slots

\* The caller has removed Docker's IPv4 routes.
LEMMA DockerBegins ==
  ASSUME Slots, NEW c \in Callers, ~Refreshing(c), DockerOwes(c)',
         \A d \in Callers : d # c => call'[d] = call[d], overlap' = overlap
  PROVE  Slots' /\ Rung'
  <1>1. Rung'
    BY DEF Rung
  <1>2. \A d \in Callers : Refreshing(d)' => Refreshing(d)
    BY DEF Refreshing, DockerOwes
  <1> QED
    BY <1>1, <1>2 DEF Slots

\* The caller has nothing to do with a refresh, before and after.
LEMMA NoRefresh ==
  ASSUME Slots, NEW c \in Callers, ~Refreshing(c), ~DockerOwes(c), ~Refreshing(c)', ~DockerOwes(c)',
         \A d \in Callers : d # c => call'[d] = call[d], UNCHANGED << overlap, defSlot, bell >>,
         \A f \in Fams : Defaults(wanRoute, f)' = Defaults(wanRoute, f)
  PROVE  Slots' /\ (Rung => Rung')
  <1>1. \A d \in Callers : (Refreshing(d)' <=> Refreshing(d)) /\ (DockerOwes(d)' <=> DockerOwes(d))
    BY DEF Refreshing, DockerOwes
  <1>2. \A d \in Callers, f \in Fams : /\ call'[d].pc \in OwesPcs(f) <=> call[d].pc \in OwesPcs(f)
                                       /\ call'[d].pc = WritePc(f) <=> call[d].pc = WritePc(f)
                                       /\ call'[d].pc = WritePc(f) => call'[d].seen = call[d].seen
    BY DEF Refreshing, OwesPcs, WritePc
  <1>3. \A r, f : f \in Fams => (Fits(r, f)' <=> Fits(r, f))
    BY DEF Fits
  <1>4. Rung => Rung'
    BY <1>1 DEF Rung
  <1>5. Slots'
    <2> SUFFICES ASSUME ~overlap
                 PROVE  /\ \A b, d \in Callers : Refreshing(b)' /\ Refreshing(d)' => b = d
                        /\ \A f \in Fams, b \in Callers :
                             call'[b].pc = WritePc(f) => Fits(call[b].seen, f)' \/ \E d \in Callers : DockerOwes(d)'
                        /\ \A f \in Fams :
                             Fits(defSlot[f], f)' \/ \E b \in Callers : DockerOwes(b)' \/ call'[b].pc \in OwesPcs(f)
      BY DEF Slots
    <2>1. \A b, d \in Callers : Refreshing(b)' /\ Refreshing(d)' => b = d
      BY <1>1 DEF Slots
    <2>2. ASSUME NEW f \in Fams, NEW b \in Callers, call'[b].pc = WritePc(f)
          PROVE  Fits(call[b].seen, f)' \/ \E d \in Callers : DockerOwes(d)'
      <3>1. Fits(call[b].seen, f) \/ \E d \in Callers : DockerOwes(d)
        BY <1>2, <2>2 DEF Slots
      <3>2. call'[b].seen = call[b].seen
        BY <1>2, <2>2
      <3> QED
        BY <1>1, <3>1, <3>2 DEF Fits
    <2>3. ASSUME NEW f \in Fams
          PROVE  Fits(defSlot[f], f)' \/ \E b \in Callers : DockerOwes(b)' \/ call'[b].pc \in OwesPcs(f)
      <3>1. Fits(defSlot[f], f) \/ \E b \in Callers : DockerOwes(b) \/ call[b].pc \in OwesPcs(f)
        BY DEF Slots
      <3>2. Fits(defSlot[f], f)' <=> Fits(defSlot[f], f)
        BY DEF Fits
      <3> QED
        BY <1>1, <1>2, <3>1, <3>2
    <2> QED
      BY <2>1, <2>2, <2>3
  <1> QED
    BY <1>4, <1>5

\* The refresh reads the default routes of one family.
LEMMA ReadKeepsSlots ==
  ASSUME Slots, NEW c \in Callers, NEW f \in Fams,
         call[c].pc = (IF f = "v4" THEN "read4" ELSE "read6"), call'[c].pc = WritePc(f), Fits(call'[c].seen, f),
         \A d \in Callers : d # c => call'[d] = call[d], UNCHANGED << wanRoute, overlap, defSlot, bell >>
  PROVE  Slots' /\ Rung'
  <1>1. Rung'
    BY DEF Rung, Refreshing, WritePc
  <1>2. \A d \in Callers : (Refreshing(d)' <=> Refreshing(d)) /\ (DockerOwes(d)' <=> DockerOwes(d))
    BY DEF Refreshing, DockerOwes, WritePc
  <1>3. \A d \in Callers, g \in Fams : call[d].pc \in OwesPcs(g) => call'[d].pc \in OwesPcs(g)
    BY DEF OwesPcs, WritePc, Fams
  <1>4. \A r, g : Fits(r, g)' <=> Fits(r, g)
    BY DEF Fits
  <1>5. ASSUME ~overlap, NEW g \in Fams, NEW b \in Callers, call'[b].pc = WritePc(g)
        PROVE  Fits(call[b].seen, g)' \/ \E d \in Callers : DockerOwes(d)'
    <2>1. CASE b = c
      <3>1. g = f
        BY <1>5, <2>1 DEF WritePc, Fams
      <3> QED
        BY <2>1, <3>1 DEF Fits
    <2>2. CASE b # c
      <3>1. call'[b] = call[b] /\ call[b].pc = WritePc(g)
        BY <1>5, <2>2
      <3>2. Fits(call[b].seen, g) \/ \E d \in Callers : DockerOwes(d)
        BY <1>5, <3>1 DEF Slots
      <3> QED
        BY <1>2, <3>1, <3>2 DEF Fits
    <2> QED
      BY <2>1, <2>2
  <1>6. ASSUME ~overlap, NEW g \in Fams
        PROVE  Fits(defSlot[g], g)' \/ \E b \in Callers : DockerOwes(b)' \/ call'[b].pc \in OwesPcs(g)
    <2>1. Fits(defSlot[g], g) \/ \E b \in Callers : DockerOwes(b) \/ call[b].pc \in OwesPcs(g)
      BY <1>6 DEF Slots
    <2>2. Fits(defSlot[g], g)' <=> Fits(defSlot[g], g)
      BY DEF Fits
    <2> QED
      BY <1>2, <1>3, <2>1, <2>2
  <1> QED
    BY <1>1, <1>2, <1>5, <1>6 DEF Slots

\* The refresh writes the slot of one family, and rings after the second.
LEMMA WriteKeepsSlots ==
  ASSUME WanTypeOK, Slots, NEW c \in Callers, NEW f \in Fams, call[c].pc = WritePc(f),
         defSlot' = [defSlot EXCEPT ![f] = call[c].seen],
         f = "v4" => call'[c].pc = "read6" /\ bell' = bell,
         f = "v6" => call'[c].pc \in {"clear", "notify"} /\ bell' = TRUE,
         \A d \in Callers : d # c => call'[d] = call[d], UNCHANGED << wanRoute, overlap >>
  PROVE  Slots' /\ Rung'
  <1>1. Rung'
    BY DEF Rung, Refreshing, Fams
  <1>2. \A d \in Callers : (Refreshing(d)' => Refreshing(d)) /\ (DockerOwes(d)' <=> DockerOwes(d))
    BY DEF Refreshing, DockerOwes, WritePc, Fams
  <1>3. ASSUME ~overlap, NEW g \in Fams, NEW b \in Callers, call'[b].pc = WritePc(g)
        PROVE  Fits(call[b].seen, g)' \/ \E d \in Callers : DockerOwes(d)'
    <2>1. b # c
      BY <1>3 DEF WritePc, Fams
    <2>2. call'[b] = call[b] /\ call[b].pc = WritePc(g)
      BY <1>3, <2>1
    <2>3. Fits(call[b].seen, g) \/ \E d \in Callers : DockerOwes(d)
      BY <1>3, <2>2 DEF Slots
    <2> QED
      BY <1>2, <2>2, <2>3 DEF Fits
  <1>4. ASSUME ~overlap, NEW g \in Fams
        PROVE  Fits(defSlot[g], g)' \/ \E b \in Callers : DockerOwes(b)' \/ call'[b].pc \in OwesPcs(g)
    <2>1. CASE g = f
      <3>1. Fits(call[c].seen, f) \/ \E d \in Callers : DockerOwes(d)
        BY <1>4 DEF Slots
      <3>2. defSlot'[f] = call[c].seen
        BY DEF WanTypeOK
      <3> QED
        BY <1>2, <2>1, <3>1, <3>2 DEF Fits
    <2>2. CASE g # f
      <3>1. Fits(defSlot[g], g) \/ \E b \in Callers : DockerOwes(b) \/ call[b].pc \in OwesPcs(g)
        BY <1>4 DEF Slots
      <3>2. Fits(defSlot[g], g)' <=> Fits(defSlot[g], g)
        BY <2>2 DEF Fits, WanTypeOK
      <3>3. \A b \in Callers : call[b].pc \in OwesPcs(g) => call'[b].pc \in OwesPcs(g)
        BY <2>2 DEF OwesPcs, WritePc, Fams
      <3> QED
        BY <1>2, <3>1, <3>2, <3>3
    <2> QED
      BY <2>1, <2>2
  <1>5. ASSUME ~overlap PROVE \A b, d \in Callers : Refreshing(b)' /\ Refreshing(d)' => b = d
    BY <1>2, <1>5 DEF Slots
  <1> QED
    BY <1>1, <1>3, <1>4, <1>5 DEF Slots

\* A step of the service's callers keeps the loop informed: the nexthops are the
\* same, or it is or will be woken.
LEMMA LoopStaysInformed ==
  ASSUME LoopKnows, loop' = loop,
         Rung' \/ (/\ Rung => Rung'
                   /\ kernel_default_nexthops(wanRoute)' = kernel_default_nexthops(wanRoute))
  PROVE  LoopKnows'
  BY DEF LoopKnows

\* The nexthops are a choice from the default routes.
LEMMA SameNexthops ==
  ASSUME \A f \in Fams : Defaults(wanRoute, f)' = Defaults(wanRoute, f)
  PROVE  kernel_default_nexthops(wanRoute)' = kernel_default_nexthops(wanRoute)
  BY DEF kernel_default_nexthops, Fams

\* What a call does after its change.
LEMMA FollowPreserves ==
  ASSUME WanTypeOK, Slots, LoopKnows, NEW c \in Callers, ~Refreshing(c),
         NEW refresh \in BOOLEAN, NEW clear \in Owners \cup {NoOwner}, NEW events \in 0 .. 2 * Cardinality(Owners),
         Follow(c, refresh, clear, events), UNCHANGED << defSlot, bell, loop >>,
         ~refresh => ~DockerOwes(c) /\ \A f \in Fams : Defaults(wanRoute, f)' = Defaults(wanRoute, f)
  PROVE  call' \in [Callers -> RouteCalls] /\ overlap' \in BOOLEAN /\ Slots' /\ LoopKnows'
         /\ (Counted => Counted')
  <1> DEFINE pc == IF refresh THEN "read4" ELSE IF clear # NoOwner THEN "clear" ELSE IF events > 0 THEN "notify" ELSE "idle"
             t == [pc |-> pc, seen |-> NoRoute, clear |-> clear, events |-> events]
  <1>1. call' = [call EXCEPT ![c] = t] /\ overlap' = (overlap \/ (refresh /\ \E b \in Callers \ {c} : Refreshing(b)))
    BY DEF Follow
  <1>2. pc \in {"read4", "clear", "notify", "idle"} /\ (refresh <=> pc = "read4")
    BY DEF WanTypeOK
  <1> HIDE DEF pc
  <1>3. t \in RouteCalls /\ t.pc = pc
    BY <1>2 DEF RouteCalls, CallPcs
  <1> HIDE DEF t
  <1>4. /\ call'[c] = t /\ \A d \in Callers : d # c => call'[d] = call[d]
        /\ call' \in [Callers -> RouteCalls]
    BY <1>1, <1>3 DEF WanTypeOK
  <1>5. Counted => Counted'
    BY <1>2, <1>3, <1>4 DEF Counted
  <1>6. CASE refresh
    <2>1. Slots' /\ Rung'
      BY <1>1, <1>2, <1>3, <1>4, <1>6, RefreshBegins
    <2>2. overlap' \in BOOLEAN
      BY <1>1 DEF WanTypeOK, Refreshing
    <2> QED
      BY <1>4, <1>5, <2>1, <2>2, LoopStaysInformed
  <1>7. CASE ~refresh
    <2>1. overlap' = overlap
      BY <1>1, <1>7 DEF WanTypeOK
    <2>2. ~Refreshing(c)' /\ ~DockerOwes(c)'
      BY <1>2, <1>3, <1>4, <1>7 DEF Refreshing, DockerOwes
    <2>3. Slots' /\ (Rung => Rung')
      BY <1>4, <1>7, <2>1, <2>2, NoRefresh
    <2>4. kernel_default_nexthops(wanRoute)' = kernel_default_nexthops(wanRoute)
      BY <1>7, SameNexthops
    <2> QED
      BY <1>4, <1>5, <2>1, <2>3, <2>4, LoopStaysInformed DEF WanTypeOK
  <1> QED
    BY <1>6, <1>7

\* A call moves on without changing a table.
LEMMA GotoFacts ==
  ASSUME WanTypeOK, NEW c \in Callers, NEW pc \in CallPcs, NEW r \in Routes \cup {NoRoute}, GotoSeen(c, pc, r)
  PROVE  /\ call' \in [Callers -> RouteCalls] /\ call'[c].pc = pc /\ call'[c].seen = r
         /\ call'[c].events = call[c].events
         /\ \A d \in Callers : d # c => call'[d] = call[d]
  <1> DEFINE t == [pc |-> pc, seen |-> r, clear |-> call[c].clear, events |-> call[c].events]
  <1>1. call[c] \in RouteCalls
    BY DEF WanTypeOK
  <1>2. t \in RouteCalls /\ t.pc = pc /\ t.seen = r /\ t.events = call[c].events
    BY <1>1 DEF RouteCalls
  <1> HIDE DEF t
  <1>3. call' = [call EXCEPT ![c] = t]
    BY DEF GotoSeen, t
  <1> QED
    BY <1>2, <1>3 DEF WanTypeOK

(***************************************************************************)
(* WanRoutes: each action preserves the invariant.                         *)
(***************************************************************************)
LEMMA InsertPreserves ==
  ASSUME WanIInv, NEW c \in Callers, NEW f \in Fams, NEW o \in Owners, NEW r \in RoutesOf(o), Insert(c, f, o, r)
  PROVE  WanIInv'
  <1>0. WanTypeOK /\ Counted /\ Slots /\ LoopKnows /\ CacheIsKernel
    BY DEF WanIInv
  <1>1. /\ call[c].pc = "idle" /\ routeOps < MaxRouteOps /\ routeOps' = routeOps + 1
        /\ wanRoute' = SetRoute(wanRoute, f, o, r) /\ Follow(c, r.def \/ wanRoute[f][o].def, NoOwner, 1)
        /\ UNCHANGED << defSlot, bell, loop, kernel, verdicts, sent, syncFails >>
    BY DEF Insert
  <1>2. r.def \in BOOLEAN /\ wanRoute[f][o].def \in BOOLEAN
    BY <1>0, RouteFacts DEF WanTypeOK
  <1>3. /\ wanRoute' \in [Fams -> [Owners -> Routes \cup {NoRoute}]]
        /\ \A g \in Fams, p \in Owners : wanRoute'[g][p].owner \in {p, NoOwner}
    BY <1>0, <1>1, SetRouteType
  <1>4. 1 \in 0 .. 2 * Cardinality(Owners)
    <2>1. Cardinality({o}) = 1 /\ {o} \subseteq Owners /\ IsFiniteSet(Owners)
      BY FS_Singleton, WanRoutesConstants
    <2>2. Cardinality(Owners) \in Nat /\ 1 <= Cardinality(Owners)
      BY <2>1, FS_Subset, FS_CardinalityType
    <2> QED
      BY <2>2
  <1>5. ~Refreshing(c) /\ ~DockerOwes(c)
    BY <1>1 DEF Refreshing, DockerOwes
  <1>6. ASSUME ~(r.def \/ wanRoute[f][o].def) PROVE \A g \in Fams : Defaults(wanRoute, g)' = Defaults(wanRoute, g)
    BY <1>0, <1>1, <1>2, <1>6, DefaultsStay
  <1>7. call' \in [Callers -> RouteCalls] /\ overlap' \in BOOLEAN /\ Slots' /\ LoopKnows' /\ Counted'
    BY <1>0, <1>1, <1>2, <1>4, <1>5, <1>6, FollowPreserves
  <1>8. WanTypeOK'
    BY <1>0, <1>1, <1>3, <1>7, WanRoutesConstants DEF WanTypeOK
  <1>9. CacheIsKernel'
    BY <1>0, <1>1 DEF CacheIsKernel
  <1> QED
    BY <1>7, <1>8, <1>9 DEF WanIInv

LEMMA RemovePreserves ==
  ASSUME WanIInv, NEW c \in Callers, NEW f \in Fams, NEW o \in Owners, Remove(c, f, o)
  PROVE  WanIInv'
  <1> DEFINE clear == IF f = "v4" /\ o \notin Docker THEN o ELSE NoOwner
             events == IF wanRoute[f][o] = NoRoute THEN 0 ELSE 1
  <1>0. WanTypeOK /\ Counted /\ Slots /\ LoopKnows /\ CacheIsKernel
    BY DEF WanIInv
  <1>1. /\ call[c].pc = "idle" /\ routeOps < MaxRouteOps /\ routeOps' = routeOps + 1
        /\ wanRoute' = SetRoute(wanRoute, f, o, NoRoute) /\ Follow(c, wanRoute[f][o].def, clear, events)
        /\ UNCHANGED << defSlot, bell, loop, kernel, verdicts, sent, syncFails >>
    BY DEF Remove
  <1>2. wanRoute[f][o].def \in BOOLEAN /\ clear \in Owners \cup {NoOwner}
    BY <1>0, RouteFacts DEF WanTypeOK
  <1>3. /\ wanRoute' \in [Fams -> [Owners -> Routes \cup {NoRoute}]]
        /\ \A g \in Fams, p \in Owners : wanRoute'[g][p].owner \in {p, NoOwner}
    BY <1>0, <1>1, SetRouteType
  <1>4. events \in 0 .. 2 * Cardinality(Owners)
    <2>1. Cardinality({o}) = 1 /\ {o} \subseteq Owners /\ IsFiniteSet(Owners)
      BY FS_Singleton, WanRoutesConstants
    <2>2. Cardinality(Owners) \in Nat /\ 1 <= Cardinality(Owners)
      BY <2>1, FS_Subset, FS_CardinalityType
    <2> QED
      BY <2>2
  <1> HIDE DEF clear, events
  <1>5. ~Refreshing(c) /\ ~DockerOwes(c)
    BY <1>1 DEF Refreshing, DockerOwes
  <1>6. ASSUME ~wanRoute[f][o].def PROVE \A g \in Fams : Defaults(wanRoute, g)' = Defaults(wanRoute, g)
    BY <1>0, <1>1, <1>2, <1>6, DefaultsStay, RouteFacts
  <1>7. call' \in [Callers -> RouteCalls] /\ overlap' \in BOOLEAN /\ Slots' /\ LoopKnows' /\ Counted'
    BY <1>0, <1>1, <1>2, <1>4, <1>5, <1>6, FollowPreserves
  <1>8. WanTypeOK'
    BY <1>0, <1>1, <1>3, <1>7, WanRoutesConstants DEF WanTypeOK
  <1>9. CacheIsKernel'
    BY <1>0, <1>1 DEF CacheIsKernel
  <1> QED
    BY <1>7, <1>8, <1>9 DEF WanIInv

LEMMA RemoveDockerPreserves ==
  ASSUME WanIInv, NEW c \in Callers, RemoveDocker(c)
  PROVE  WanIInv'
  <1> DEFINE n == Cardinality(DockerRoutes("v4"))
             t == [pc |-> "docker6", seen |-> NoRoute, clear |-> NoOwner, events |-> n]
  <1>0. WanTypeOK /\ Counted /\ Slots /\ LoopKnows /\ CacheIsKernel /\ "v4" \in Fams
    BY DEF WanIInv, Fams
  <1>1. /\ call[c].pc = "idle" /\ routeOps < MaxRouteOps /\ routeOps' = routeOps + 1
        /\ wanRoute' = WithoutDocker("v4") /\ call' = [call EXCEPT ![c] = t]
        /\ UNCHANGED << defSlot, bell, loop, kernel, verdicts, sent, overlap, syncFails >>
    BY DEF RemoveDocker
  <1>2. n \in Nat /\ n <= Cardinality(Owners) /\ Cardinality(Owners) \in Nat /\ (n = 0 => wanRoute' = wanRoute)
    BY <1>0, <1>1, DockerCounted
  <1>3. /\ wanRoute' \in [Fams -> [Owners -> Routes \cup {NoRoute}]]
        /\ \A g \in Fams, p \in Owners : wanRoute'[g][p].owner \in {p, NoOwner}
    BY <1>0, <1>1, DockerCounted
  <1> HIDE DEF n
  <1>4. t \in RouteCalls /\ t.pc = "docker6" /\ t.events = n
    BY <1>2 DEF RouteCalls, CallPcs
  <1> HIDE DEF t
  <1>5. /\ call' \in [Callers -> RouteCalls] /\ call'[c] = t /\ \A d \in Callers : d # c => call'[d] = call[d]
    BY <1>0, <1>1, <1>4 DEF WanTypeOK
  <1>6. WanTypeOK'
    BY <1>0, <1>1, <1>3, <1>5, WanRoutesConstants DEF WanTypeOK
  <1>7. Counted'
    BY <1>0, <1>2, <1>4, <1>5 DEF Counted
  <1>8. ~Refreshing(c) /\ ~DockerOwes(c) /\ ~Refreshing(c)'
    BY <1>1, <1>4, <1>5 DEF Refreshing, DockerOwes
  <1>9. Slots' /\ LoopKnows'
    <2>1. CASE n > 0
      <3>1. DockerOwes(c)'
        BY <2>1, <1>4, <1>5 DEF DockerOwes
      <3>2. Slots' /\ Rung'
        BY <3>1, <1>0, <1>1, <1>5, <1>8, DockerBegins
      <3> QED
        BY <3>2, <1>0, <1>1, LoopStaysInformed
    <2>2. CASE n = 0
      <3>1. ~DockerOwes(c)' /\ wanRoute' = wanRoute
        BY <2>2, <1>2, <1>4, <1>5 DEF DockerOwes
      <3>2. \A f \in Fams : Defaults(wanRoute, f)' = Defaults(wanRoute, f)
        BY <3>1
      <3>3. Slots' /\ (Rung => Rung')
        BY <3>1, <3>2, <1>0, <1>1, <1>5, <1>8, NoRefresh
      <3> QED
        BY <3>2, <3>3, <1>0, <1>1, SameNexthops, LoopStaysInformed
    <2> QED
      BY <2>1, <2>2, <1>2
  <1>10. CacheIsKernel'
    BY <1>0, <1>1 DEF CacheIsKernel
  <1> QED
    BY <1>6, <1>7, <1>9, <1>10 DEF WanIInv

LEMMA RemoveDocker6Preserves ==
  ASSUME WanIInv, NEW c \in Callers, RemoveDocker6(c)
  PROVE  WanIInv'
  <1> DEFINE m == Cardinality(DockerRoutes("v6"))
             n == call[c].events + m
  <1>0. WanTypeOK /\ Counted /\ Slots /\ LoopKnows /\ CacheIsKernel /\ "v6" \in Fams
    BY DEF WanIInv, Fams
  <1>1. /\ call[c].pc = "docker6" /\ wanRoute' = WithoutDocker("v6") /\ Follow(c, n > 0, NoOwner, n)
        /\ UNCHANGED << defSlot, bell, loop, kernel, verdicts, sent, routeOps, syncFails >>
    BY DEF RemoveDocker6
  <1>2. m \in Nat /\ m <= Cardinality(Owners) /\ Cardinality(Owners) \in Nat /\ (m = 0 => wanRoute' = wanRoute)
    BY <1>0, <1>1, DockerCounted
  <1>3. /\ wanRoute' \in [Fams -> [Owners -> Routes \cup {NoRoute}]]
        /\ \A g \in Fams, p \in Owners : wanRoute'[g][p].owner \in {p, NoOwner}
    BY <1>0, <1>1, DockerCounted
  <1> HIDE DEF m
  <1>4. call[c].events \in Nat /\ call[c].events <= Cardinality(Owners)
    BY <1>0, <1>1 DEF WanTypeOK, RouteCalls, Counted
  <1>5. n \in 0 .. 2 * Cardinality(Owners) /\ (n > 0) \in BOOLEAN
    BY <1>2, <1>4
  <1>6. ~Refreshing(c)
    BY <1>1 DEF Refreshing
  <1>7. ASSUME ~(n > 0) PROVE ~DockerOwes(c) /\ \A f \in Fams : Defaults(wanRoute, f)' = Defaults(wanRoute, f)
    <2>1. m = 0 /\ call[c].events = 0
      BY <1>2, <1>4, <1>7
    <2>2. wanRoute' = wanRoute
      BY <2>1, <1>2
    <2> QED
      BY <2>1, <2>2 DEF DockerOwes
  <1> HIDE DEF n
  <1>8. call' \in [Callers -> RouteCalls] /\ overlap' \in BOOLEAN /\ Slots' /\ LoopKnows' /\ Counted'
    BY <1>0, <1>1, <1>5, <1>6, <1>7, FollowPreserves
  <1>9. WanTypeOK'
    BY <1>0, <1>1, <1>3, <1>8 DEF WanTypeOK
  <1>10. CacheIsKernel'
    BY <1>0, <1>1 DEF CacheIsKernel
  <1> QED
    BY <1>8, <1>9, <1>10 DEF WanIInv

LEMMA RefreshPreserves ==
  ASSUME WanIInv, NEW c \in Callers, ReadDefault(c) \/ WriteSlot4(c) \/ WriteSlot6(c)
  PROVE  WanIInv'
  <1>0. WanTypeOK /\ Counted /\ Slots /\ LoopKnows /\ CacheIsKernel /\ call[c] \in RouteCalls
        /\ "v4" \in Fams /\ "v6" \in Fams
    BY DEF WanIInv, WanTypeOK, Fams
  <1>1. UNCHANGED << wanRoute, loop, kernel, verdicts, sent, overlap, routeOps, syncFails >>
    BY DEF ReadDefault, WriteSlot4, WriteSlot6
  <1>2. CacheIsKernel'
    BY <1>0, <1>1 DEF CacheIsKernel
  <1>3. call[c].seen \in Routes \cup {NoRoute}
    BY <1>0 DEF RouteCalls
  <1>4. CASE ReadDefault(c)
    <2> DEFINE f == IF call[c].pc = "read4" THEN "v4" ELSE "v6"
               wpc == IF f = "v4" THEN "write4" ELSE "write6"
    <2>1. PICK r \in IF Defaults(wanRoute, f) = {} THEN {NoRoute} ELSE Defaults(wanRoute, f) : GotoSeen(c, wpc, r)
      BY <1>4 DEF ReadDefault
    <2>2. PICK g \in Fams : g = f
      BY DEF Fams
    <2>3. Fits(r, g) /\ r \in Routes \cup {NoRoute}
      BY <1>0, <2>1, <2>2, DefaultsAreRoutes DEF Fits
    <2>4. wpc \in CallPcs /\ wpc = WritePc(g) /\ call[c].pc = (IF g = "v4" THEN "read4" ELSE "read6")
      BY <1>4, <2>2 DEF CallPcs, WritePc, ReadDefault
    <2>5. UNCHANGED << wanRoute, overlap, defSlot, bell >>
      BY <1>4 DEF ReadDefault
    <2>6. /\ call' \in [Callers -> RouteCalls] /\ call'[c].pc = WritePc(g) /\ call'[c].seen = r
          /\ \A d \in Callers : d # c => call'[d] = call[d]
      BY <1>0, <2>1, <2>3, <2>4, GotoFacts
    <2> HIDE DEF f, wpc
    <2>7. Slots' /\ Rung'
      BY <1>0, <2>3, <2>4, <2>5, <2>6, ReadKeepsSlots
    <2>8. LoopKnows'
      BY <1>0, <1>1, <2>7, LoopStaysInformed
    <2>9. WanTypeOK' /\ Counted'
      BY <1>0, <1>1, <2>5, <2>6 DEF WanTypeOK, Counted, WritePc
    <2> QED
      BY <1>2, <2>7, <2>8, <2>9 DEF WanIInv
  <1>5. CASE WriteSlot4(c)
    <2>1. /\ call[c].pc = WritePc("v4") /\ defSlot' = [defSlot EXCEPT !["v4"] = call[c].seen]
          /\ GotoSeen(c, "read6", call[c].seen) /\ bell' = bell
      BY <1>5 DEF WriteSlot4, WritePc, Goto
    <2>2. /\ call' \in [Callers -> RouteCalls] /\ call'[c].pc = "read6"
          /\ \A d \in Callers : d # c => call'[d] = call[d]
      BY <1>0, <1>3, <2>1, GotoFacts DEF CallPcs
    <2>3. Slots' /\ Rung'
      BY <1>0, <1>1, <2>1, <2>2, WriteKeepsSlots
    <2>4. LoopKnows'
      BY <1>0, <1>1, <2>3, LoopStaysInformed
    <2>5. WanTypeOK' /\ Counted'
      BY <1>0, <1>1, <1>3, <2>1, <2>2 DEF WanTypeOK, Counted
    <2> QED
      BY <1>2, <2>3, <2>4, <2>5 DEF WanIInv
  <1>6. CASE WriteSlot6(c)
    <2> DEFINE pc == IF call[c].clear # NoOwner THEN "clear" ELSE "notify"
    <2>1. /\ call[c].pc = WritePc("v6") /\ defSlot' = [defSlot EXCEPT !["v6"] = call[c].seen]
          /\ GotoSeen(c, pc, call[c].seen) /\ bell' = TRUE
      BY <1>6 DEF WriteSlot6, WritePc, Goto, Ring
    <2>2. /\ call' \in [Callers -> RouteCalls] /\ call'[c].pc \in {"clear", "notify"}
          /\ \A d \in Callers : d # c => call'[d] = call[d]
      BY <1>0, <1>3, <2>1, GotoFacts DEF CallPcs
    <2>3. Slots' /\ Rung'
      BY <1>0, <1>1, <2>1, <2>2, WriteKeepsSlots
    <2>4. LoopKnows'
      BY <1>0, <1>1, <2>3, LoopStaysInformed
    <2>5. WanTypeOK' /\ Counted'
      BY <1>0, <1>1, <1>3, <2>1, <2>2 DEF WanTypeOK, Counted
    <2> QED
      BY <1>2, <2>3, <2>4, <2>5 DEF WanIInv
  <1> QED
    BY <1>4, <1>5, <1>6

LEMMA EndPreserves ==
  ASSUME WanIInv, NEW c \in Callers, ClearHealth(c) \/ Notify(c)
  PROVE  WanIInv'
  <1>0. WanTypeOK /\ Counted /\ Slots /\ LoopKnows /\ CacheIsKernel /\ call[c] \in RouteCalls
    BY DEF WanIInv, WanTypeOK
  <1>1. /\ UNCHANGED << wanRoute, defSlot, bell, loop, kernel, overlap, routeOps, syncFails >>
        /\ call[c].pc \in {"clear", "notify"} /\ verdicts' \subseteq verdicts
    BY DEF ClearHealth, Notify
  <1>2. sent' \in Nat
    BY <1>0, WanRoutesConstants, FS_CardinalityType DEF ClearHealth, Notify, WanTypeOK, RouteCalls
  <1>3. /\ call' \in [Callers -> RouteCalls] /\ call'[c].pc \in {"idle", "notify"}
        /\ \A d \in Callers : d # c => call'[d] = call[d]
    <2>1. CASE ClearHealth(c)
      <3> DEFINE pc == IF call[c].events > 0 THEN "notify" ELSE "idle"
      <3>1. GotoSeen(c, pc, call[c].seen) /\ call[c].seen \in Routes \cup {NoRoute} /\ pc \in CallPcs
        BY <2>1, <1>0 DEF ClearHealth, Goto, RouteCalls, CallPcs
      <3> QED
        BY <3>1, <1>0, GotoFacts
    <2>2. CASE Notify(c)
      <3>1. NoCall \in RouteCalls /\ NoCall.pc = "idle"
        BY WanRoutesConstants, FS_CardinalityType DEF NoCall, RouteCalls, CallPcs
      <3> QED
        BY <2>2, <3>1, <1>0 DEF Notify, WanTypeOK
    <2> QED
      BY <2>1, <2>2
  <1>4. ~Refreshing(c) /\ ~DockerOwes(c) /\ ~Refreshing(c)' /\ ~DockerOwes(c)'
    BY <1>1, <1>3 DEF Refreshing, DockerOwes
  <1>5. \A f \in Fams : Defaults(wanRoute, f)' = Defaults(wanRoute, f)
    BY <1>1
  <1>6. Slots' /\ (Rung => Rung')
    BY <1>0, <1>1, <1>3, <1>4, <1>5, NoRefresh
  <1>7. LoopKnows'
    BY <1>0, <1>1, <1>5, <1>6, SameNexthops, LoopStaysInformed
  <1>8. WanTypeOK' /\ Counted'
    BY <1>0, <1>1, <1>2, <1>3 DEF WanTypeOK, Counted
  <1>9. CacheIsKernel'
    BY <1>0, <1>1 DEF CacheIsKernel
  <1> QED
    BY <1>6, <1>7, <1>8, <1>9 DEF WanIInv

LEMMA LoopPreserves ==
  ASSUME WanIInv, LoopStep \/ LoopSyncFails \/ (\E o \in Owners : UpdateHealth(o)) \/ UNCHANGED wanVars
  PROVE  WanIInv'
  <1>0. WanTypeOK /\ Counted /\ Slots /\ LoopKnows /\ CacheIsKernel
    BY DEF WanIInv
  <1>1. UNCHANGED << wanRoute, defSlot, call, sent, overlap, routeOps >>
    BY DEF LoopStep, LoopWakes, LoopReads, LoopSyncs, LoopSyncFails, UpdateHealth, wanVars
  <1>2. Slots' /\ Counted'
    <2>1. Counted'
      BY <1>0, <1>1 DEF Counted
    <2>2. \A c \in Callers : (Refreshing(c)' <=> Refreshing(c)) /\ (DockerOwes(c)' <=> DockerOwes(c))
      BY <1>1 DEF Refreshing, DockerOwes
    <2> QED
      BY <1>0, <1>1, <2>1, <2>2 DEF Slots, Fits
  <1>3. kernel_default_nexthops(wanRoute)' = kernel_default_nexthops(wanRoute)
        /\ kernel_default_nexthops(wanRoute) \subseteq Routes
    BY <1>0, <1>1, DefaultsAreRoutes DEF Fams
  <1>4. bell' = bell => (Rung' <=> Rung)
    BY <1>1 DEF Rung, DockerOwes, Refreshing
  <1>5. loop \in [pc : {"wait", "read", "sync"}, hops : SUBSET Routes, cache : [known : BOOLEAN, hops : SUBSET Routes]]
        /\ kernel \in SUBSET Routes /\ bell \in BOOLEAN
    BY <1>0 DEF WanTypeOK
  <1>6. CASE LoopWakes
    <2>1. loop'.pc = "read" /\ loop'.cache = loop.cache /\ bell' \in BOOLEAN /\ UNCHANGED << kernel, verdicts, syncFails >>
          /\ loop' \in [pc : {"wait", "read", "sync"}, hops : SUBSET Routes, cache : [known : BOOLEAN, hops : SUBSET Routes]]
      BY <1>5, <1>6 DEF LoopWakes
    <2>2. WanTypeOK'
      BY <1>0, <1>1, <2>1 DEF WanTypeOK
    <2>3. LoopKnows' /\ CacheIsKernel'
      BY <1>0, <2>1 DEF LoopKnows, CacheIsKernel
    <2> QED
      BY <1>2, <2>2, <2>3 DEF WanIInv
  <1>7. CASE LoopReads
    <2>1. /\ loop'.pc = "sync" /\ loop'.hops = kernel_default_nexthops(wanRoute) /\ loop'.cache = loop.cache
          /\ UNCHANGED << bell, kernel, verdicts, syncFails >>
          /\ loop' \in [pc : {"wait", "read", "sync"}, hops : SUBSET Routes, cache : [known : BOOLEAN, hops : SUBSET Routes]]
      BY <1>3, <1>5, <1>7 DEF LoopReads
    <2>2. WanTypeOK'
      BY <1>0, <1>1, <2>1 DEF WanTypeOK
    <2>3. LoopKnows' /\ CacheIsKernel'
      BY <1>0, <1>3, <2>1 DEF LoopKnows, CacheIsKernel
    <2> QED
      BY <1>2, <2>2, <2>3 DEF WanIInv
  <1>8. CASE LoopSyncs
    <2>1. /\ loop.pc = "sync" /\ loop' = Waits(Known(loop.hops)) /\ UNCHANGED << bell, verdicts, syncFails >>
          /\ kernel' = IF loop.cache = Known(loop.hops) \/ loop.hops = {} THEN kernel ELSE loop.hops
      BY <1>8 DEF LoopSyncs
    <2>2. /\ loop'.pc = "wait" /\ loop'.cache.known = TRUE /\ loop'.cache.hops = loop.hops
          /\ loop' \in [pc : {"wait", "read", "sync"}, hops : SUBSET Routes, cache : [known : BOOLEAN, hops : SUBSET Routes]]
      BY <2>1, <1>5 DEF Waits, Known
    <2>3. WanTypeOK'
      BY <1>0, <1>1, <1>5, <2>1, <2>2 DEF WanTypeOK
    <2>4. LoopKnows'
      BY <1>0, <1>3, <1>4, <2>1, <2>2 DEF LoopKnows
    <2>5. CacheIsKernel'
      <3>1. CASE loop.cache = Known(loop.hops)
        BY <1>0, <2>1, <2>2, <3>1 DEF CacheIsKernel, Known
      <3>2. CASE loop.cache # Known(loop.hops)
        BY <2>1, <2>2, <3>2 DEF CacheIsKernel
      <3> QED
        BY <3>1, <3>2
    <2> QED
      BY <1>2, <2>3, <2>4, <2>5 DEF WanIInv
  <1>9. CASE LoopSyncFails
    <2>1. /\ loop' = Waits(Unread) /\ UNCHANGED << bell, kernel, verdicts >>
          /\ syncFails < MaxSyncFails /\ syncFails' = syncFails + 1
      BY <1>9 DEF LoopSyncFails, FailedCache
    <2>2. /\ loop'.pc = "wait" /\ loop'.cache.known = FALSE
          /\ loop' \in [pc : {"wait", "read", "sync"}, hops : SUBSET Routes, cache : [known : BOOLEAN, hops : SUBSET Routes]]
      BY <2>1, <1>5 DEF Waits, Unread
    <2>3. WanTypeOK'
      BY <1>0, <1>1, <2>1, <2>2, WanRoutesConstants DEF WanTypeOK
    <2>4. LoopKnows' /\ CacheIsKernel'
      BY <2>2 DEF LoopKnows, CacheIsKernel
    <2> QED
      BY <1>2, <2>3, <2>4 DEF WanIInv
  <1>10. CASE (\E o \in Owners : UpdateHealth(o)) \/ UNCHANGED wanVars
    <2>1. UNCHANGED << bell, loop, kernel, syncFails >> /\ verdicts' \in SUBSET (Owners \ Docker)
      BY <1>0, <1>10 DEF UpdateHealth, wanVars, WanTypeOK
    <2>2. WanTypeOK'
      BY <1>0, <1>1, <2>1 DEF WanTypeOK
    <2>3. LoopKnows' /\ CacheIsKernel'
      BY <1>0, <1>3, <1>4, <2>1 DEF LoopKnows, CacheIsKernel
    <2> QED
      BY <1>2, <2>2, <2>3 DEF WanIInv
  <1> QED
    BY <1>6, <1>7, <1>8, <1>9, <1>10 DEF LoopStep

LEMMA WanNextIInv ==
  ASSUME WanIInv, [WanNext]_wanVars
  PROVE  WanIInv'
  <1>1. ASSUME NEW c \in Callers, CallStep(c) \/ RemoveDocker(c) PROVE WanIInv'
    BY <1>1, RemoveDocker6Preserves, RefreshPreserves, EndPreserves, RemoveDockerPreserves DEF CallStep
  <1>2. ASSUME NEW c \in Callers, NEW f \in Fams, NEW o \in Owners,
               Remove(c, f, o) \/ \E r \in RoutesOf(o) : Insert(c, f, o, r)
        PROVE  WanIInv'
    BY <1>2, RemovePreserves, InsertPreserves
  <1> QED
    BY <1>1, <1>2, LoopPreserves DEF WanNext

LEMMA WanInitIInv ==
  ASSUME WanInit
  PROVE  WanIInv
  <1>1. \A f \in Fams, o \in Owners : wanRoute[f][o] = NoRoute
    BY DEF WanInit, Table
  <1>2. \A f \in Fams : Defaults(wanRoute, f) = {}
    BY <1>1, RouteFacts DEF Defaults
  <1>3. Cardinality(Owners) \in Nat
    BY WanRoutesConstants, FS_CardinalityType
  <1>4. NoCall \in RouteCalls /\ NoCall.pc = "idle"
    BY <1>3 DEF NoCall, RouteCalls, CallPcs
  <1>5. wanRoute \in [Fams -> [Owners -> Routes \cup {NoRoute}]]
        /\ \A f \in Fams, o \in Owners : wanRoute[f][o].owner \in {o, NoOwner}
    BY <1>1, RouteFacts DEF WanInit, Table
  <1>6. WanTypeOK
    <2>1. loop \in [pc : {"wait", "read", "sync"}, hops : SUBSET Routes, cache : [known : BOOLEAN, hops : SUBSET Routes]]
      BY DEF WanInit, Unread
    <2>2. routeOps \in 0 .. MaxRouteOps /\ syncFails \in 0 .. MaxSyncFails
      BY WanRoutesConstants DEF WanInit
    <2>3. defSlot \in [Fams -> Routes \cup {NoRoute}] /\ call \in [Callers -> RouteCalls]
      BY <1>4 DEF WanInit
    <2> QED
      BY <1>5, <2>1, <2>2, <2>3 DEF WanInit, WanTypeOK
  <1>7. Slots /\ Counted
    BY <1>2, <1>4 DEF WanInit, Slots, Counted, Fits, Refreshing, WritePc, Fams
  <1>8. LoopKnows /\ CacheIsKernel
    BY DEF WanInit, LoopKnows, CacheIsKernel, Unread
  <1> QED
    BY <1>6, <1>7, <1>8 DEF WanIInv

\* With no call running each eBPF default slot holds a default route of the table,
\* the reconcile loop never sleeps on a stale cache with its doorbell silent, and
\* its cache never claims a kernel route that is not there: for any number of
\* links, containers, callers and failing commands.
THEOREM WanRoutesSound == WanSpec => []RoutesInv
  <1>1. WanInit => WanIInv
    BY WanInitIInv
  <1>2. WanIInv /\ [WanNext]_wanVars => WanIInv'
    BY WanNextIInv
  <1>3. ASSUME WanIInv PROVE RoutesInv
    <2>1. DefaultSlotFollows
      BY <1>3 DEF WanIInv, Slots, Fits, SlotFits, DefaultSlotFollows, RoutesQuiet, DockerOwes, OwesPcs
    <2>2. KernelNotForgotten
      BY <1>3 DEF WanIInv, LoopKnows, Rung, KernelNotForgotten, RoutesQuiet, DockerOwes, Refreshing
    <2> QED
      BY <1>3, <2>1, <2>2 DEF WanIInv, RoutesInv
  <1> QED
    BY <1>1, <1>2, <1>3, PTL DEF WanSpec

=============================================================================
