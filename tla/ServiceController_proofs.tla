---------------------- MODULE ServiceController_proofs ----------------------
(***************************************************************************)
(* Proofs about ServiceController (and the ServiceManager it extends) for  *)
(* any number of callers, supervisors, runs and versions, and any of the   *)
(* operations.                                                             *)
(***************************************************************************)
EXTENDS ServiceController, FiniteSetTheorems, TLAPS

(***************************************************************************)
(* The inductive invariant.                                                *)
(***************************************************************************)
\* A supervisor task has a run until it ends, and a run inside start() is the
\* one of the supervisor that awaits it.
SupsHold ==
  \A s \in Sups : /\ sup[s].pc # "gone" => sup[s].run \in Runs
                  /\ sup[s].pc = "start" => run[sup[s].run] = Starting(s)

\* A run that is alive is the current run of the supervisor that started it,
\* and that supervisor has not ended.
RunsOwned ==
  \A r \in Runs : Alive(r) => /\ run[r].sup \in Sups
                              /\ sup[run[r].sup].run = r
                              /\ sup[run[r].sup].pc # "gone"

\* A caller between two calls keeps nothing of the last one: no cloned sender.
CallersRest == \A c \in Callers : call[c].pc = "idle" => call[c] = Idle

\* The writers inside checked_upsert have a version each left.
Persisting == {d \in Callers : call[d].pc = "persist"}
VersionsLeft == clock + Cardinality(Persisting) <= MaxVersion

ManagerIInv ==
  TypeOK /\ SupsHold /\ RunsOwned /\ EntryIsServed /\ CallersRest /\ VersionsLeft

-----------------------------------------------------------------------------
\* The records of the type invariant, by name.
SupRec == [pc : {"recv", "stop", "start", "register", "close", "gone"},
           buf : Versions, cfg : Versions, run : Runs \cup {NoRun}]

RunRec == [phase : {"starting", "active", "draining", "over"}, sup : Sups \cup {NoSup}]

CallRec == [pc : {"idle", "persist", "deliver", "send", "spawn", "update", "stop", "wait"},
            cfg : Versions, base : Versions, sup : Sups \cup {NoSup},
            run : Runs \cup {NoRun}, target : Sups \cup {NoSup}]

\* The registry, the tasks and the calls are well typed; the store apart.
ManagerTyped ==
  /\ entry \in [run : Runs, sup : Sups] \cup {NoEntry}
  /\ sup \in [Sups -> SupRec]
  /\ run \in [Runs -> RunRec]
  /\ call \in [Callers -> CallRec]

StoreTyped == store \in Versions /\ clock \in Versions

ManagerPart == ManagerTyped /\ SupsHold /\ RunsOwned /\ EntryIsServed /\ CallersRest

\* The identifiers: 0 is none of them, 1 always is one.
LEMMA Identifiers ==
  /\ NoSup \notin Sups /\ NoRun \notin Runs
  /\ 1 \in Sups /\ 1 \in Runs
  /\ 0 \in Versions /\ 1 \in Versions
  BY ManagerAssumption DEF NoSup, NoRun, Sups, Runs, Versions

\* An identifier is taken from those nobody refers to.
LEMMA NextFreeIn ==
  ASSUME NEW ids, ids # {}
  PROVE  NextFree(ids) \in ids
  BY DEF NextFree

LEMMA IdleTyped == Idle \in CallRec /\ Idle.pc = "idle" /\ Idle.sup = NoSup
  BY Identifiers DEF Idle, CallRec

LEMMA GoneTyped == Gone \in SupRec /\ Gone.pc = "gone"
  BY Identifiers DEF Gone, SupRec

LEMMA OverTyped == Over \in RunRec /\ Over.phase = "over"
  BY DEF Over, RunRec

LEMMA StartingTyped ==
  ASSUME NEW s \in Sups
  PROVE  Starting(s) \in RunRec /\ Starting(s).phase = "starting" /\ Starting(s).sup = s
  BY DEF Starting, RunRec

\* A request to stop changes the phase of an active run and nothing else.
LEMMA RequestHolds ==
  ASSUME ManagerPart, NEW q, run' = AfterRequest(q)
  PROVE  /\ run' \in [Runs -> RunRec]
         /\ \A r \in Runs : /\ run'[r].sup = run[r].sup
                            /\ Alive(r)' <=> Alive(r)
                            /\ run[r].phase = "starting" => run'[r] = run[r]
  <1>1. ASSUME NEW r \in Runs
        PROVE  /\ run'[r] \in RunRec
               /\ run'[r].sup = run[r].sup
               /\ Alive(r)' <=> Alive(r)
               /\ run[r].phase = "starting" => run'[r] = run[r]
    <2>1. run[r] \in RunRec /\ run \in [Runs -> RunRec]
      BY DEF ManagerPart, ManagerTyped
    <2>2. CASE r # q
      BY <2>1, <2>2 DEF AfterRequest, Alive
    <2>3. CASE r = q
      <3>1. run'[r] = [run[r] EXCEPT !.phase = IF @ = "active" THEN "draining" ELSE @]
        BY <2>1, <2>3 DEF AfterRequest
      <3> QED BY <3>1, <2>1 DEF RunRec, Alive
    <2> QED BY <2>2, <2>3
  <1>2. run' = [r \in Runs |-> run'[r]]
    BY DEF AfterRequest, ManagerPart, ManagerTyped
  <1> QED BY <1>1, <1>2

\* What a call that leaves supervisors and runs alone must bring along.
LEMMA CallerMoves ==
  ASSUME ManagerPart, NEW c \in Callers, NEW x \in CallRec,
         x.pc = "idle" => x = Idle,
         call' = [call EXCEPT ![c] = x]
  PROVE  call' \in [Callers -> CallRec] /\ CallersRest'
  BY DEF ManagerPart, ManagerTyped, CallersRest

\* What a step of a supervisor must bring along: its new record fits the runs.
LEMMA SupervisorMoves ==
  ASSUME ManagerPart, NEW s \in Sups, NEW x \in SupRec,
         sup' = [sup EXCEPT ![s] = x],
         UNCHANGED call,
         entry' \in [run : Runs, sup : Sups] \cup {NoEntry},
         entry' # NoEntry => entry # NoEntry /\ entry'.sup = entry.sup,
         entry' # NoEntry /\ entry'.sup = s => x.pc \notin {"close", "gone"},
         run' \in [Runs -> RunRec],
         x.pc # "gone" => x.run \in Runs,
         x.pc = "start" => run'[x.run] = Starting(s),
         \A t \in Sups : t # s /\ sup[t].pc = "start" => run'[sup[t].run] = run[sup[t].run],
         \A r \in Runs : Alive(r)' => \/ run'[r].sup = s /\ x.run = r /\ x.pc # "gone"
                                      \/ run'[r].sup # s /\ Alive(r) /\ run'[r].sup = run[r].sup
  PROVE  ManagerPart'
  <1>1. ManagerTyped' /\ CallersRest'
    BY DEF ManagerPart, ManagerTyped, CallersRest
  <1>2. \A t \in Sups : sup'[t] = IF t = s THEN x ELSE sup[t]
    BY DEF ManagerPart, ManagerTyped
  <1>3. SupsHold'
    <2> SUFFICES ASSUME NEW t \in Sups
                 PROVE  /\ sup'[t].pc # "gone" => sup'[t].run \in Runs
                        /\ sup'[t].pc = "start" => run'[sup'[t].run] = Starting(t)
      BY DEF SupsHold, Starting
    <2>1. CASE t = s
      BY <1>2, <2>1
    <2>2. CASE t # s
      BY <1>2, <2>2 DEF ManagerPart, SupsHold
    <2> QED BY <2>1, <2>2
  <1>4. RunsOwned'
    BY <1>2 DEF ManagerPart, RunsOwned
  <1>5. EntryIsServed'
    BY <1>2, Identifiers DEF ManagerPart, ManagerTyped, EntryIsServed, NoEntry
  <1> QED BY <1>1, <1>3, <1>4, <1>5 DEF ManagerPart

\* What a step of a run must bring along: it was not inside start().
LEMMA RunMoves ==
  ASSUME ManagerPart, NEW r \in Runs, run[r].phase # "starting",
         run' = [run EXCEPT ![r] = Over], UNCHANGED <<entry, sup, call>>
  PROVE  ManagerPart'
  <1>1. \A q \in Runs : run'[q] = IF q = r THEN Over ELSE run[q]
    BY DEF ManagerPart, ManagerTyped
  <1>2. ManagerTyped' /\ CallersRest' /\ EntryIsServed'
    BY OverTyped DEF ManagerPart, ManagerTyped, CallersRest, EntryIsServed
  <1>3. SupsHold'
    <2> SUFFICES ASSUME NEW t \in Sups
                 PROVE  /\ sup[t].pc # "gone" => sup[t].run \in Runs
                        /\ sup[t].pc = "start" => run'[sup[t].run] = Starting(t)
      BY DEF SupsHold, Starting
    <2>1. sup[t].pc = "start" => run[sup[t].run].phase = "starting"
      BY StartingTyped DEF ManagerPart, SupsHold
    <2> QED BY <1>1, <2>1 DEF ManagerPart, SupsHold
  <1>4. RunsOwned'
    BY <1>1, OverTyped DEF ManagerPart, RunsOwned, Alive
  <1> QED BY <1>2, <1>3, <1>4 DEF ManagerPart

-----------------------------------------------------------------------------
(***************************************************************************)
(* The steps of the supervisors.                                           *)
(***************************************************************************)
LEMMA SupReceivesHolds ==
  ASSUME ManagerPart, NEW s \in Sups, SupReceives(s)
  PROVE  ManagerPart'
  <1>1. sup[s] \in SupRec /\ sup[s].pc = "recv" /\ sup[s].run \in Runs
    BY DEF SupReceives, ManagerPart, ManagerTyped, SupsHold
  <1>2. PICK x : x = [sup[s] EXCEPT !.pc = "stop", !.buf = 0, !.cfg = sup[s].buf]
    OBVIOUS
  <1>3. x \in SupRec /\ x.pc = "stop" /\ x.run = sup[s].run
    BY <1>1, <1>2, Identifiers DEF SupRec
  <1>4. sup' = [sup EXCEPT ![s] = x]
    BY <1>2 DEF SupReceives
  <1>5. run' \in [Runs -> RunRec]
        /\ \A r \in Runs : /\ run'[r].sup = run[r].sup
                           /\ Alive(r)' <=> Alive(r)
                           /\ run[r].phase = "starting" => run'[r] = run[r]
    BY RequestHolds DEF SupReceives
  <1>6. \A t \in Sups : t # s /\ sup[t].pc = "start" => run'[sup[t].run] = run[sup[t].run]
    BY <1>5, StartingTyped DEF ManagerPart, SupsHold
  <1>7. \A r \in Runs : Alive(r)' => \/ run'[r].sup = s /\ x.run = r /\ x.pc # "gone"
                                     \/ run'[r].sup # s /\ Alive(r) /\ run'[r].sup = run[r].sup
    BY <1>3, <1>5 DEF ManagerPart, RunsOwned
  <1>8. UNCHANGED call /\ UNCHANGED entry
    BY DEF SupReceives
  <1>9. /\ entry' \in [run : Runs, sup : Sups] \cup {NoEntry}
        /\ entry' # NoEntry => entry # NoEntry /\ entry'.sup = entry.sup
        /\ entry' # NoEntry /\ entry'.sup = s => x.pc \notin {"close", "gone"}
    BY <1>3, <1>8 DEF ManagerPart, ManagerTyped
  <1> QED BY <1>1, <1>3, <1>4, <1>5, <1>6, <1>7, <1>8, <1>9, SupervisorMoves

LEMMA SupStartsHolds ==
  ASSUME ManagerPart, NEW s \in Sups, SupStarts(s)
  PROVE  ManagerPart'
  <1>1. PICK r \in FreeRuns : /\ sup' = [sup EXCEPT ![s].pc = "start", ![s].run = r]
                              /\ run' = [run EXCEPT ![r] = Starting(s)]
    BY NextFreeIn DEF SupStarts
  <1>2. sup[s] \in SupRec /\ sup[s].pc = "stop" /\ ~Alive(sup[s].run)
    BY DEF SupStarts, ManagerPart, ManagerTyped, Alive
  <1>3. r \in Runs /\ ~Alive(r) /\ \A t \in Sups : sup[t].run # r
    BY <1>1 DEF FreeRuns, Alive
  <1>4. PICK x : x = [sup[s] EXCEPT !.pc = "start", !.run = r]
    OBVIOUS
  <1>5. x \in SupRec /\ x.pc = "start" /\ x.run = r
    BY <1>2, <1>3, <1>4 DEF SupRec
  <1>6. sup' = [sup EXCEPT ![s] = x]
    BY <1>1, <1>4
  <1>7. \A q \in Runs : run'[q] = IF q = r THEN Starting(s) ELSE run[q]
    BY <1>1 DEF ManagerPart, ManagerTyped
  <1>8. run' \in [Runs -> RunRec]
    BY <1>1, StartingTyped DEF ManagerPart, ManagerTyped
  <1>9. \A t \in Sups : t # s /\ sup[t].pc = "start" => run'[sup[t].run] = run[sup[t].run]
    BY <1>3, <1>7 DEF ManagerPart, SupsHold
  <1>10. \A q \in Runs : Alive(q)' => \/ run'[q].sup = s /\ x.run = q /\ x.pc # "gone"
                                      \/ run'[q].sup # s /\ Alive(q) /\ run'[q].sup = run[q].sup
    <2> TAKE q \in Runs
    <2>1. CASE q = r
      BY <1>5, <1>7, <2>1, StartingTyped
    <2>2. CASE q # r
      <3>1. run'[q] = run[q]
        BY <1>7, <2>2
      <3>2. Alive(q)' <=> Alive(q)
        BY <3>1 DEF Alive
      <3>3. Alive(q) => run[q].sup # s
        BY <1>2 DEF ManagerPart, RunsOwned
      <3> QED BY <3>1, <3>2, <3>3
    <2> QED BY <2>1, <2>2
  <1>11. UNCHANGED call /\ UNCHANGED entry
    BY DEF SupStarts
  <1>12. /\ entry' \in [run : Runs, sup : Sups] \cup {NoEntry}
         /\ entry' # NoEntry => entry # NoEntry /\ entry'.sup = entry.sup
         /\ entry' # NoEntry /\ entry'.sup = s => x.pc \notin {"close", "gone"}
    BY <1>5, <1>11 DEF ManagerPart, ManagerTyped
  <1>13. run'[x.run] = Starting(s)
    BY <1>3, <1>5, <1>7
  <1> QED BY <1>3, <1>5, <1>6, <1>8, <1>9, <1>10, <1>11, <1>12, <1>13, SupervisorMoves

LEMMA StartReturnsHolds ==
  ASSUME ManagerPart, NEW s \in Sups, StartReturns(s)
  PROVE  ManagerPart'
  <1>1. PICK r : r = sup[s].run
    OBVIOUS
  <1>2. sup[s] \in SupRec /\ sup[s].pc = "start" /\ r \in Runs /\ run[r] = Starting(s)
    BY <1>1 DEF StartReturns, ManagerPart, ManagerTyped, SupsHold
  <1>3. PICK y \in RunRec : run' = [run EXCEPT ![r] = y] /\ (y.phase = "over" \/ y.sup = s)
    <2>1. CASE run' = [run EXCEPT ![sup[s].run].phase = "active"]
      <3>1. PICK y : y = [run[r] EXCEPT !.phase = "active"]
        OBVIOUS
      <3>2. y \in RunRec /\ y.sup = s
        BY <1>2, <3>1, StartingTyped DEF RunRec
      <3> QED BY <1>1, <2>1, <3>1, <3>2
    <2>2. CASE run' = [run EXCEPT ![sup[s].run] = Over]
      BY <1>1, <2>2, OverTyped
    <2> QED BY <2>1, <2>2 DEF StartReturns
  <1>4. PICK x : x = [sup[s] EXCEPT !.pc = "register"]
    OBVIOUS
  <1>5. x \in SupRec /\ x.pc = "register" /\ x.run = r
    BY <1>1, <1>2, <1>4 DEF SupRec
  <1>6. sup' = [sup EXCEPT ![s] = x]
    BY <1>4 DEF StartReturns
  <1>7. \A q \in Runs : run'[q] = IF q = r THEN y ELSE run[q]
    BY <1>3 DEF ManagerPart, ManagerTyped
  <1>8. run' \in [Runs -> RunRec]
    BY <1>3 DEF ManagerPart, ManagerTyped
  <1>9. \A t \in Sups : t # s /\ sup[t].pc = "start" => run'[sup[t].run] = run[sup[t].run]
    <2> SUFFICES ASSUME NEW t \in Sups, t # s, sup[t].pc = "start"
                 PROVE  sup[t].run \in Runs /\ sup[t].run # r
      BY <1>7
    <2>1. sup[t].run \in Runs /\ run[sup[t].run] = Starting(t)
      BY DEF ManagerPart, SupsHold
    <2> QED BY <1>2, <2>1, StartingTyped
  <1>10. \A q \in Runs : Alive(q)' => \/ run'[q].sup = s /\ x.run = q /\ x.pc # "gone"
                                      \/ run'[q].sup # s /\ Alive(q) /\ run'[q].sup = run[q].sup
    <2> TAKE q \in Runs
    <2>1. CASE q = r
      BY <1>3, <1>5, <1>7, <2>1 DEF Alive
    <2>2. CASE q # r
      <3>1. run'[q] = run[q]
        BY <1>7, <2>2
      <3>2. Alive(q)' <=> Alive(q)
        BY <3>1 DEF Alive
      <3>3. Alive(q) => run[q].sup # s
        BY <1>1, <2>2 DEF ManagerPart, RunsOwned
      <3> QED BY <3>1, <3>2, <3>3
    <2> QED BY <2>1, <2>2
  <1>11. UNCHANGED call /\ UNCHANGED entry
    BY DEF StartReturns
  <1>12. /\ entry' \in [run : Runs, sup : Sups] \cup {NoEntry}
         /\ entry' # NoEntry => entry # NoEntry /\ entry'.sup = entry.sup
         /\ entry' # NoEntry /\ entry'.sup = s => x.pc \notin {"close", "gone"}
    BY <1>5, <1>11 DEF ManagerPart, ManagerTyped
  <1> QED BY <1>2, <1>5, <1>6, <1>8, <1>9, <1>10, <1>11, <1>12, SupervisorMoves

\* A supervisor that leaves its loop, or publishes its handle: its run is kept.
LEMMA KeepsItsRun ==
  ASSUME ManagerPart, NEW s \in Sups, NEW p \in {"recv", "close"},
         sup[s].pc # "gone",
         sup' = [sup EXCEPT ![s].pc = p],
         UNCHANGED call,
         entry' \in [run : Runs, sup : Sups] \cup {NoEntry},
         entry' # NoEntry => entry # NoEntry /\ entry'.sup = entry.sup,
         p = "close" /\ entry' # NoEntry => entry'.sup # s,
         UNCHANGED run \/ run' = AfterRequest(sup[s].run)
  PROVE  ManagerPart'
  <1>1. sup[s] \in SupRec /\ sup[s].run \in Runs
    BY DEF ManagerPart, ManagerTyped, SupsHold
  <1>2. PICK x : x = [sup[s] EXCEPT !.pc = p]
    OBVIOUS
  <1>3. x \in SupRec /\ x.pc = p /\ x.run = sup[s].run
    BY <1>1, <1>2 DEF SupRec
  <1>4. sup' = [sup EXCEPT ![s] = x]
    BY <1>2
  <1>5. run' \in [Runs -> RunRec]
        /\ \A r \in Runs : /\ run'[r].sup = run[r].sup
                           /\ Alive(r)' <=> Alive(r)
                           /\ run[r].phase = "starting" => run'[r] = run[r]
    <2>1. CASE UNCHANGED run
      BY <2>1 DEF ManagerPart, ManagerTyped, Alive
    <2>2. CASE run' = AfterRequest(sup[s].run)
      BY <2>2, RequestHolds
    <2> QED BY <2>1, <2>2
  <1>6. \A t \in Sups : t # s /\ sup[t].pc = "start" => run'[sup[t].run] = run[sup[t].run]
    BY <1>5, StartingTyped DEF ManagerPart, SupsHold
  <1>7. \A r \in Runs : Alive(r)' => \/ run'[r].sup = s /\ x.run = r /\ x.pc # "gone"
                                     \/ run'[r].sup # s /\ Alive(r) /\ run'[r].sup = run[r].sup
    BY <1>3, <1>5 DEF ManagerPart, RunsOwned
  <1>8. entry' # NoEntry /\ entry'.sup = s => x.pc \notin {"close", "gone"}
    BY <1>3
  <1> QED BY <1>1, <1>3, <1>4, <1>5, <1>6, <1>7, <1>8, SupervisorMoves

LEMMA SupRegistersHolds ==
  ASSUME ManagerPart, NEW s \in Sups, SupRegisters(s)
  PROVE  ManagerPart'
  <1>1. sup[s].pc = "register" /\ sup[s].run \in Runs /\ UNCHANGED call
    BY DEF SupRegisters, ManagerPart, SupsHold
  <1>2. CASE entry # NoEntry
    <2>1. /\ entry' = [entry EXCEPT !.run = sup[s].run]
          /\ sup' = [sup EXCEPT ![s].pc = "recv"] /\ UNCHANGED run
      BY <1>2 DEF SupRegisters
    <2>2. entry \in [run : Runs, sup : Sups]
      BY <1>2 DEF ManagerPart, ManagerTyped
    <2>3. entry' \in [run : Runs, sup : Sups] /\ entry'.sup = entry.sup
      BY <1>1, <2>1, <2>2
    <2> QED BY <1>1, <1>2, <2>1, <2>3, KeepsItsRun
  <1>3. CASE entry = NoEntry
    <2>1. /\ sup' = [sup EXCEPT ![s].pc = "close"]
          /\ run' = AfterRequest(sup[s].run) /\ UNCHANGED entry
      BY <1>3 DEF SupRegisters
    <2> QED BY <1>1, <1>3, <2>1, KeepsItsRun
  <1> QED BY <1>2, <1>3

LEMMA SupFindsClosedHolds ==
  ASSUME ManagerPart, NEW s \in Sups, SupFindsClosed(s)
  PROVE  ManagerPart'
  <1>1. /\ sup[s].pc = "recv" /\ entry.sup # s
        /\ sup' = [sup EXCEPT ![s].pc = "close"]
        /\ run' = AfterRequest(sup[s].run) /\ UNCHANGED entry /\ UNCHANGED call
    BY DEF SupFindsClosed, NoSender
  <1>2. entry \in [run : Runs, sup : Sups] \cup {NoEntry}
    BY DEF ManagerPart, ManagerTyped
  <1> QED BY <1>1, <1>2, KeepsItsRun

LEMMA SupEndsHolds ==
  ASSUME ManagerPart, NEW s \in Sups, SupEnds(s)
  PROVE  ManagerPart'
  <1>1. /\ sup[s].pc = "close" /\ ~Alive(sup[s].run)
        /\ sup' = [sup EXCEPT ![s] = Gone]
        /\ UNCHANGED entry /\ UNCHANGED run /\ UNCHANGED call
    BY DEF SupEnds, Alive
  <1>2. entry \in [run : Runs, sup : Sups] \cup {NoEntry} /\ (entry # NoEntry => entry.sup # s)
    BY <1>1 DEF ManagerPart, ManagerTyped, EntryIsServed
  <1>3. run' \in [Runs -> RunRec]
    BY <1>1 DEF ManagerPart, ManagerTyped
  <1>4. \A r \in Runs : Alive(r)' => run'[r].sup # s /\ Alive(r) /\ run'[r].sup = run[r].sup
    BY <1>1 DEF ManagerPart, RunsOwned, Alive
  <1>5. \A t \in Sups : t # s /\ sup[t].pc = "start" => run'[sup[t].run] = run[sup[t].run]
    BY <1>1
  <1> QED BY <1>1, <1>2, <1>3, <1>4, <1>5, GoneTyped, SupervisorMoves

-----------------------------------------------------------------------------
(***************************************************************************)
(* The steps of the callers.                                               *)
(***************************************************************************)
\* A call that only moves on.
LEMMA OnlyTheCaller ==
  ASSUME ManagerPart, NEW c \in Callers, NEW x \in CallRec,
         x.pc = "idle" => x = Idle,
         call' = [call EXCEPT ![c] = x], UNCHANGED <<entry, sup, run>>
  PROVE  ManagerPart'
  <1>1. call' \in [Callers -> CallRec] /\ CallersRest'
    BY CallerMoves
  <1>2. ManagerTyped' /\ EntryIsServed'
    BY <1>1 DEF ManagerPart, ManagerTyped, EntryIsServed
  <1>3. SupsHold' /\ RunsOwned'
    BY DEF ManagerPart, SupsHold, RunsOwned, Alive, Starting
  <1> QED BY <1>1, <1>2, <1>3 DEF ManagerPart

\* A call that puts a config into a channel and returns.
LEMMA ConfigIsSent ==
  ASSUME ManagerPart, NEW c \in Callers, NEW s \in Sups, NEW v \in Versions,
         sup' = [sup EXCEPT ![s].buf = v], Finish(c), UNCHANGED <<entry, run>>
  PROVE  ManagerPart'
  <1>1. call' \in [Callers -> CallRec] /\ CallersRest'
    BY CallerMoves, IdleTyped DEF Finish
  <1>2. PICK x : x = [sup[s] EXCEPT !.buf = v]
    OBVIOUS
  <1>3. sup[s] \in SupRec
    BY DEF ManagerPart, ManagerTyped
  <1>4. x \in SupRec /\ x.pc = sup[s].pc /\ x.run = sup[s].run
    BY <1>2, <1>3 DEF SupRec
  <1>5. sup' = [sup EXCEPT ![s] = x]
    BY <1>2
  <1>6. \A t \in Sups : sup'[t].pc = sup[t].pc /\ sup'[t].run = sup[t].run
    BY <1>4, <1>5 DEF ManagerPart, ManagerTyped
  <1>7. ManagerTyped'
    BY <1>1, <1>4, <1>5 DEF ManagerPart, ManagerTyped
  <1>8. SupsHold'
    BY <1>6 DEF ManagerPart, SupsHold, Starting
  <1>9. RunsOwned'
    BY <1>6 DEF ManagerPart, RunsOwned, Alive
  <1>10. EntryIsServed'
    BY <1>6, Identifiers DEF ManagerPart, ManagerTyped, EntryIsServed, NoEntry
  <1> QED BY <1>1, <1>7, <1>8, <1>9, <1>10 DEF ManagerPart

LEMMA SpawnHolds ==
  ASSUME ManagerPart, NEW c \in Callers, spawn_service(c)
  PROVE  ManagerPart'
  <1>1. PICK s \in FreeSups, r \in FreeRuns :
            /\ entry' = [run |-> r, sup |-> s]
            /\ sup' = [sup EXCEPT ![s] = [pc |-> "recv", buf |-> call[c].cfg, cfg |-> 0, run |-> r]]
    BY NextFreeIn DEF spawn_service
  <1>2. Finish(c) /\ UNCHANGED run
    BY DEF spawn_service
  <1>3. s \in Sups /\ sup[s].pc = "gone" /\ r \in Runs /\ ~Alive(r)
    BY <1>1 DEF FreeSups, FreeRuns, Alive
  <1>4. call[c].cfg \in Versions
    BY DEF ManagerPart, ManagerTyped, CallRec
  <1>5. PICK x : x = [pc |-> "recv", buf |-> call[c].cfg, cfg |-> 0, run |-> r]
    OBVIOUS
  <1>6. x \in SupRec /\ x.pc = "recv" /\ x.run = r
    BY <1>3, <1>4, <1>5, Identifiers DEF SupRec
  <1>7. \A t \in Sups : sup'[t] = IF t = s THEN x ELSE sup[t]
    BY <1>1, <1>5 DEF ManagerPart, ManagerTyped
  <1>8. call' \in [Callers -> CallRec] /\ CallersRest'
    BY <1>2, CallerMoves, IdleTyped DEF Finish
  <1>9. ManagerTyped'
    <2>1. sup' \in [Sups -> SupRec]
      BY <1>1, <1>5, <1>6 DEF ManagerPart, ManagerTyped
    <2>2. entry' \in [run : Runs, sup : Sups]
      BY <1>1, <1>3
    <2> QED BY <1>2, <1>8, <2>1, <2>2 DEF ManagerPart, ManagerTyped
  <1>10. SupsHold'
    <2> SUFFICES ASSUME NEW t \in Sups
                 PROVE  /\ sup'[t].pc # "gone" => sup'[t].run \in Runs
                        /\ sup'[t].pc = "start" => run[sup'[t].run] = Starting(t)
      BY <1>2 DEF SupsHold, Starting
    <2> QED BY <1>3, <1>6, <1>7 DEF ManagerPart, SupsHold
  <1>11. RunsOwned'
    <2>1. \A q \in Runs : Alive(q)' <=> Alive(q)
      BY <1>2 DEF Alive
    <2>2. \A q \in Runs : Alive(q) => run[q].sup # s
      BY <1>3 DEF ManagerPart, RunsOwned
    <2> QED BY <1>2, <1>7, <2>1, <2>2 DEF ManagerPart, RunsOwned
  <1>12. EntryIsServed'
    BY <1>1, <1>3, <1>6, <1>7 DEF EntryIsServed
  <1> QED BY <1>8, <1>9, <1>10, <1>11, <1>12 DEF ManagerPart

LEMMA UpdateHolds ==
  ASSUME ManagerPart, NEW c \in Callers, update_service(c)
  PROVE  ManagerPart'
  <1>1. call[c] \in CallRec /\ UNCHANGED entry /\ UNCHANGED run
    BY DEF update_service, ManagerPart, ManagerTyped
  <1>2. CASE entry = NoEntry
    <2>1. PICK x : x = [call[c] EXCEPT !.pc = "spawn"]
      OBVIOUS
    <2>2. x \in CallRec /\ x.pc = "spawn"
      BY <1>1, <2>1 DEF CallRec
    <2>3. call' = [call EXCEPT ![c] = x] /\ UNCHANGED sup
      BY <1>2, <2>1 DEF update_service
    <2> QED BY <1>1, <2>2, <2>3, OnlyTheCaller
  <1>3. CASE entry # NoEntry
    <2>1. Finish(c) /\ (UNCHANGED sup \/ sup' = [sup EXCEPT ![entry.sup].buf = call[c].cfg])
      BY <1>3 DEF update_service
    <2>2. entry.sup \in Sups /\ call[c].cfg \in Versions
      BY <1>1, <1>3 DEF ManagerPart, ManagerTyped, CallRec
    <2>3. CASE UNCHANGED sup
      BY <1>1, <2>1, <2>3, OnlyTheCaller, IdleTyped DEF Finish
    <2>4. CASE sup' = [sup EXCEPT ![entry.sup].buf = call[c].cfg]
      BY <1>1, <2>1, <2>2, <2>4, ConfigIsSent
    <2> QED BY <2>1, <2>3, <2>4
  <1> QED BY <1>2, <1>3

\* deliver_bounded.  A cloned sender is the one of a supervisor.
LEMMA DeliverHolds ==
  ASSUME ManagerPart, NEW c \in Callers,
         \/ DeliverLooksUp(c) \/ DeliverFindsClosed(c) \/ DeliverTimesOut(c) \/ DeliverSends(c)
  PROVE  ManagerPart'
  <1>1. call[c] \in CallRec
    BY DEF ManagerPart, ManagerTyped
  <1>2. CASE DeliverLooksUp(c)
    <2>1. PICK x : x = IF entry = NoEntry THEN [call[c] EXCEPT !.pc = "spawn"]
                       ELSE [call[c] EXCEPT !.pc = "send", !.sup = entry.sup]
      OBVIOUS
    <2>2. CASE entry = NoEntry
      <3>1. x \in CallRec /\ x.pc # "idle"
        BY <1>1, <2>1, <2>2 DEF CallRec
      <3>2. call' = [call EXCEPT ![c] = x] /\ UNCHANGED <<entry, sup, run>>
        BY <1>2, <2>1, <2>2 DEF DeliverLooksUp
      <3> QED BY <3>1, <3>2, OnlyTheCaller
    <2>3. CASE entry # NoEntry
      <3>0. entry.sup \in Sups
        BY <2>3 DEF ManagerPart, ManagerTyped
      <3>1. x \in CallRec /\ x.pc # "idle"
        BY <1>1, <2>1, <2>3, <3>0 DEF CallRec
      <3>2. call' = [call EXCEPT ![c] = x] /\ UNCHANGED <<entry, sup, run>>
        BY <1>2, <2>1, <2>3 DEF DeliverLooksUp
      <3> QED BY <3>1, <3>2, OnlyTheCaller
    <2> QED BY <2>2, <2>3
  <1>3. CASE DeliverFindsClosed(c)
    <2>1. PICK x : x = [call[c] EXCEPT !.pc = "spawn", !.sup = NoSup]
      OBVIOUS
    <2>2. x \in CallRec /\ x.pc # "idle"
      BY <1>1, <2>1 DEF CallRec
    <2>3. call' = [call EXCEPT ![c] = x] /\ UNCHANGED <<entry, sup, run>>
      BY <1>3, <2>1 DEF DeliverFindsClosed
    <2> QED BY <2>2, <2>3, OnlyTheCaller
  <1>4. CASE DeliverTimesOut(c)
    BY <1>4, OnlyTheCaller, IdleTyped DEF DeliverTimesOut, Finish
  <1>5. CASE DeliverSends(c)
    <2>1. Finish(c) /\ UNCHANGED <<entry, run>> /\ sup' = [sup EXCEPT ![call[c].sup].buf = call[c].cfg]
      BY <1>5 DEF DeliverSends
    <2>2. call[c].cfg \in Versions
      BY <1>1 DEF CallRec
    <2>3. CASE call[c].sup \in Sups
      BY <2>1, <2>2, <2>3, ConfigIsSent
    <2>4. CASE call[c].sup \notin Sups
      <3>1. UNCHANGED sup
        BY <2>1, <2>4 DEF ManagerPart, ManagerTyped
      <3> QED BY <2>1, <3>1, OnlyTheCaller, IdleTyped DEF Finish
    <2> QED BY <2>3, <2>4
  <1> QED BY <1>2, <1>3, <1>4, <1>5

LEMMA StopHolds ==
  ASSUME ManagerPart, NEW c \in Callers, StopRemoves(c) \/ StopReturns(c)
  PROVE  ManagerPart'
  <1>1. call[c] \in CallRec
    BY DEF ManagerPart, ManagerTyped
  <1>2. CASE StopReturns(c)
    BY <1>2, OnlyTheCaller, IdleTyped DEF StopReturns, Finish
  <1>3. CASE StopRemoves(c) /\ entry = NoEntry
    BY <1>3, OnlyTheCaller, IdleTyped DEF StopRemoves, Finish
  <1>4. CASE StopRemoves(c) /\ entry # NoEntry
    <2>1. PICK x : x = [call[c] EXCEPT !.pc = "wait", !.run = entry.run, !.target = entry.sup]
      OBVIOUS
    <2>2. /\ entry' = NoEntry /\ run' = AfterRequest(entry.run) /\ UNCHANGED sup
          /\ call' = [call EXCEPT ![c] = x]
      BY <1>4, <2>1 DEF StopRemoves
    <2>3. entry.run \in Runs /\ entry.sup \in Sups
      BY <1>4 DEF ManagerPart, ManagerTyped
    <2>4. x \in CallRec /\ x.pc = "wait"
      BY <1>1, <2>1, <2>3 DEF CallRec
    <2>5. call' \in [Callers -> CallRec] /\ CallersRest'
      BY <2>2, <2>4, CallerMoves
    <2>6. run' \in [Runs -> RunRec]
          /\ \A r \in Runs : /\ run'[r].sup = run[r].sup
                             /\ Alive(r)' <=> Alive(r)
                             /\ run[r].phase = "starting" => run'[r] = run[r]
      BY <2>2, RequestHolds
    <2>7. ManagerTyped' /\ EntryIsServed'
      BY <2>2, <2>5, <2>6 DEF ManagerPart, ManagerTyped, EntryIsServed
    <2>8. SupsHold'
      <3> SUFFICES ASSUME NEW t \in Sups
                   PROVE  /\ sup[t].pc # "gone" => sup[t].run \in Runs
                          /\ sup[t].pc = "start" => run'[sup[t].run] = Starting(t)
        BY <2>2 DEF SupsHold, Starting
      <3> QED BY <2>6, StartingTyped DEF ManagerPart, SupsHold
    <2>9. RunsOwned'
      BY <2>2, <2>6 DEF ManagerPart, RunsOwned
    <2> QED BY <2>5, <2>7, <2>8, <2>9 DEF ManagerPart
  <1> QED BY <1>2, <1>3, <1>4

-----------------------------------------------------------------------------
(***************************************************************************)
(* The steps of the controller, and the versions.                          *)
(***************************************************************************)
StorePart == StoreTyped /\ VersionsLeft

LEMMA Parts == ManagerIInv <=> ManagerPart /\ StorePart
  BY DEF ManagerIInv, ManagerPart, StorePart, ManagerTyped, StoreTyped, TypeOK, SupRec, RunRec, CallRec

LEMMA PersistingFinite ==
  IsFiniteSet(Persisting) /\ Cardinality(Persisting) \in Nat
  <1>1. Persisting \subseteq Callers
    BY DEF Persisting
  <1>2. IsFiniteSet(Persisting)
    BY <1>1, FS_Subset, ManagerAssumption
  <1> QED BY <1>2, FS_CardinalityType

\* A writer that has left checked_upsert leaves its version to it.
LEMMA WriterLeaves ==
  ASSUME NEW c \in Callers, call[c].pc = "persist",
         call \in [Callers -> CallRec], NEW x, x.pc # "persist", call' = [call EXCEPT ![c] = x]
  PROVE  /\ Cardinality(Persisting') = Cardinality(Persisting) - 1
         /\ Cardinality(Persisting) >= 1
  <1>1. Persisting' = Persisting \ {c} /\ c \in Persisting
    BY DEF Persisting
  <1>2. Cardinality(Persisting \ {c}) = Cardinality(Persisting) - 1
        /\ Cardinality(Persisting \ {c}) \in Nat
    BY <1>1, PersistingFinite, FS_RemoveElement, FS_CardinalityType
  <1> QED BY <1>1, <1>2, PersistingFinite

\* Every other step of a call: the set of writers and the store are as before.
LEMMA NoWriter ==
  ASSUME StorePart, Persisting' = Persisting, UNCHANGED clock, store' \in {store, 0}
  PROVE  StorePart'
  BY Identifiers DEF StorePart, StoreTyped, VersionsLeft

LEMMA OtherCalls ==
  ASSUME call \in [Callers -> CallRec], NEW c \in Callers, call[c].pc # "persist",
         NEW x, x.pc # "persist", call' = [call EXCEPT ![c] = x]
  PROVE  Persisting' = Persisting
  BY DEF Persisting

LEMMA SetBeginsHolds ==
  ASSUME ManagerPart, StorePart, NEW c \in Callers, SetBegins(c)
  PROVE  ManagerPart' /\ StorePart'
  <1>1. /\ call[c].pc = "idle" /\ clock + Cardinality(Persisting) < MaxVersion
        /\ UNCHANGED <<entry, sup, run>> /\ UNCHANGED <<store, clock>>
    BY DEF SetBegins, Persisting
  <1>2. PICK x : x = [call[c] EXCEPT !.pc = "persist", !.base = store]
    OBVIOUS
  <1>3. call[c] \in CallRec /\ store \in Versions /\ call \in [Callers -> CallRec]
    BY DEF ManagerPart, ManagerTyped, StorePart, StoreTyped
  <1>4. x \in CallRec /\ x.pc = "persist" /\ call' = [call EXCEPT ![c] = x]
    BY <1>2, <1>3 DEF CallRec, SetBegins
  <1>5. ManagerPart'
    BY <1>1, <1>4, OnlyTheCaller
  <1>6. Persisting' = Persisting \cup {c} /\ c \notin Persisting
    BY <1>1, <1>3, <1>4 DEF Persisting
  <1>7. Cardinality(Persisting') = Cardinality(Persisting) + 1
    BY <1>6, PersistingFinite, FS_AddElement
  <1>8. clock \in Nat
    BY DEF StorePart, StoreTyped, Versions
  <1>9. VersionsLeft'
    BY <1>1, <1>7, <1>8, PersistingFinite, ManagerAssumption DEF VersionsLeft
  <1> QED BY <1>1, <1>5, <1>9 DEF StorePart, StoreTyped

LEMMA UpsertHolds ==
  ASSUME ManagerPart, StorePart, NEW c \in Callers, checked_upsert(c)
  PROVE  ManagerPart' /\ StorePart'
  <1>1. call[c].pc = "persist" /\ UNCHANGED <<entry, sup, run>>
    BY DEF checked_upsert
  <1>2. call \in [Callers -> CallRec] /\ clock \in 0 .. MaxVersion
        /\ clock + Cardinality(Persisting) <= MaxVersion
    BY DEF ManagerPart, ManagerTyped, StorePart, StoreTyped, Versions, VersionsLeft
  <1>3. CASE store # 0 /\ store # call[c].base
    <2>1. call' = [call EXCEPT ![c] = Idle] /\ UNCHANGED <<store, clock>>
      BY <1>3 DEF checked_upsert, Finish
    <2>2. ManagerPart'
      BY <1>1, <2>1, OnlyTheCaller, IdleTyped
    <2>3. Cardinality(Persisting') = Cardinality(Persisting) - 1
      BY <1>1, <1>2, <2>1, WriterLeaves, IdleTyped
    <2>4. VersionsLeft'
      BY <1>2, <2>1, <2>3, PersistingFinite, ManagerAssumption DEF VersionsLeft
    <2> QED BY <2>1, <2>2, <2>4 DEF StorePart, StoreTyped
  <1>4. CASE ~(store # 0 /\ store # call[c].base)
    <2>1. PICK x : x = [Idle EXCEPT !.pc = "deliver", !.cfg = clock + 1]
      OBVIOUS
    <2>2. call' = [call EXCEPT ![c] = x] /\ clock' = clock + 1 /\ store' = clock + 1
      BY <1>4, <2>1 DEF checked_upsert
    <2>3. x.pc = "deliver"
      BY <2>1 DEF Idle
    <2>4. /\ Cardinality(Persisting') = Cardinality(Persisting) - 1
          /\ Cardinality(Persisting) >= 1
      BY <1>1, <1>2, <2>2, <2>3, WriterLeaves
    <2>5. clock + 1 \in Versions
      BY <1>2, <2>4, PersistingFinite, ManagerAssumption DEF Versions
    <2>6. x \in CallRec
      BY <2>1, <2>5, Identifiers DEF Idle, CallRec
    <2>7. ManagerPart'
      BY <1>1, <2>2, <2>3, <2>6, OnlyTheCaller
    <2>8. VersionsLeft'
      BY <1>2, <2>2, <2>4, PersistingFinite, ManagerAssumption DEF VersionsLeft
    <2> QED BY <2>2, <2>5, <2>7, <2>8 DEF StorePart, StoreTyped
  <1> QED BY <1>3, <1>4

LEMMA BeginHolds ==
  ASSUME ManagerPart, StorePart, NEW c \in Callers, Begin(c)
  PROVE  ManagerPart' /\ StorePart'
  <1>1. CASE SetBegins(c)
    BY <1>1, SetBeginsHolds
  <1>2. CASE delete_and_get(c) \/ TriggerReads(c) \/ stop_all(c)
    <2>1. call \in [Callers -> CallRec] /\ call[c] \in CallRec /\ store \in Versions
      BY DEF ManagerPart, ManagerTyped, StorePart, StoreTyped
    <2>2. PICK x \in CallRec : x.pc \notin {"idle", "persist"} /\ call' = [call EXCEPT ![c] = x]
      <3>1. CASE TriggerReads(c)
        <4>1. PICK x : x = [call[c] EXCEPT !.pc = "update", !.cfg = store]
          OBVIOUS
        <4>2. x \in CallRec /\ x.pc = "update"
          BY <2>1, <4>1 DEF CallRec
        <4> QED BY <3>1, <4>1, <4>2 DEF TriggerReads
      <3>2. CASE delete_and_get(c) \/ stop_all(c)
        <4>1. PICK x : x = [call[c] EXCEPT !.pc = "stop"]
          OBVIOUS
        <4>2. x \in CallRec /\ x.pc = "stop"
          BY <2>1, <4>1 DEF CallRec
        <4> QED BY <3>2, <4>1, <4>2 DEF delete_and_get, stop_all
      <3> QED BY <1>2, <3>1, <3>2
    <2>3. /\ call[c].pc = "idle" /\ UNCHANGED <<entry, sup, run>>
          /\ UNCHANGED clock /\ store' \in {store, 0}
      BY <1>2 DEF delete_and_get, TriggerReads, stop_all
    <2>4. ManagerPart'
      BY <2>2, <2>3, OnlyTheCaller
    <2>5. Persisting' = Persisting
      BY <2>1, <2>2, <2>3, OtherCalls
    <2> QED BY <2>3, <2>4, <2>5, NoWriter
  <1> QED BY <1>1, <1>2 DEF Begin

LEMMA ManagerCallHolds ==
  ASSUME ManagerPart, StorePart, NEW c \in Callers, ManagerCall(c)
  PROVE  ManagerPart' /\ StorePart'
  <1>1. UNCHANGED <<store, clock>>
    BY DEF ManagerCall
  <1>2. ManagerPart'
    BY SpawnHolds, UpdateHolds, DeliverHolds, StopHolds DEF ManagerCall, Timeout
  <1>3. call \in [Callers -> CallRec] /\ call[c] \in CallRec
    BY DEF ManagerPart, ManagerTyped
  <1>4. Persisting' = Persisting
    <2>1. call[c].pc # "persist"
      BY DEF ManagerCall, Timeout, spawn_service, update_service, DeliverLooksUp, DeliverSends,
             DeliverFindsClosed, DeliverTimesOut, StopRemoves, StopReturns
    <2>2. \/ Finish(c)
          \/ call' = [call EXCEPT ![c].pc = "spawn"]
          \/ call' = [call EXCEPT ![c].pc = "send", ![c].sup = entry.sup]
          \/ call' = [call EXCEPT ![c].pc = "spawn", ![c].sup = NoSup]
          \/ call' = [call EXCEPT ![c].pc = "wait", ![c].run = entry.run, ![c].target = entry.sup]
      BY Zenon DEF ManagerCall, Timeout, spawn_service, update_service, DeliverLooksUp, DeliverSends,
             DeliverFindsClosed, DeliverTimesOut, StopRemoves, StopReturns
    <2>3. \A d \in Callers : d # c => call'[d] = call[d]
      BY <1>3, <2>2 DEF Finish
    <2>4. call'[c].pc # "persist"
      BY <1>3, <2>2, IdleTyped DEF Finish, CallRec
    <2> QED BY <2>1, <2>3, <2>4 DEF Persisting
  <1> QED BY <1>1, <1>2, <1>4, NoWriter

LEMMA BackgroundHolds ==
  ASSUME ManagerPart, StorePart, Background
  PROVE  ManagerPart' /\ StorePart'
  <1>1. CASE \E s \in Sups : Supervisor(s)
    <2>1. PICK s \in Sups : Supervisor(s)
      BY <1>1
    <2>2. ManagerPart'
      BY <2>1, SupReceivesHolds, SupStartsHolds, StartReturnsHolds, SupRegistersHolds,
         SupFindsClosedHolds, SupEndsHolds DEF Supervisor
    <2>3. UNCHANGED call
      BY <2>1 DEF Supervisor, SupReceives, SupStarts, StartReturns, SupRegisters, SupFindsClosed, SupEnds
    <2> QED BY <2>2, <2>3, NoWriter DEF Background, Persisting
  <1>2. CASE \E r \in Runs : RunStops(r) \/ RunDies(r)
    <2>1. PICK r \in Runs : RunStops(r) \/ RunDies(r)
      BY <1>2
    <2>2. /\ run[r].phase # "starting" /\ run' = [run EXCEPT ![r] = Over]
          /\ UNCHANGED <<entry, sup, call>>
      BY <2>1 DEF RunStops, RunDies
    <2>3. ManagerPart'
      BY <2>2, RunMoves
    <2> QED BY <2>2, <2>3, NoWriter DEF Background, Persisting
  <1> QED BY <1>1, <1>2 DEF Background

\* A process that has just started: only the stored config is being delivered.
AtBoot(st) ==
  /\ entry = BootEntry(st) /\ sup = BootSup(st)
  /\ run = [r \in Runs |-> Over] /\ call = [c \in Callers |-> Idle]

BootHolds == \A st \in Versions : AtBoot(st) => ManagerPart /\ Persisting = {}

LEMMA Booted == BootHolds
  <1> SUFFICES ASSUME NEW st \in Versions, AtBoot(st)
               PROVE  ManagerPart /\ Persisting = {}
    BY DEF BootHolds
  <1> USE DEF AtBoot
  <1>1. \A s \in Sups : sup[s] \in SupRec /\ (sup[s].pc # "gone" => sup[s].run = 1 /\ sup[s].pc = "recv")
    <2> TAKE s \in Sups
    <2>1. CASE st = 0 \/ s # 1
      BY <2>1, GoneTyped DEF BootSup
    <2>2. CASE st # 0 /\ s = 1
      BY <2>2, Identifiers DEF BootSup, SupRec
    <2> QED BY <2>1, <2>2
  <1>2. sup \in [Sups -> SupRec]
    BY <1>1 DEF BootSup
  <1>3. run \in [Runs -> RunRec] /\ call \in [Callers -> CallRec]
    BY OverTyped, IdleTyped
  <1>4. entry \in [run : Runs, sup : Sups] \cup {NoEntry}
    BY Identifiers DEF BootEntry
  <1>5. EntryIsServed
    <2>1. CASE st = 0
      BY <2>1 DEF EntryIsServed, BootEntry
    <2>2. CASE st # 0
      <3>1. entry.sup = 1 /\ sup[1].pc = "recv"
        BY <2>2, Identifiers DEF BootEntry, BootSup
      <3> QED BY <3>1 DEF EntryIsServed
    <2> QED BY <2>1, <2>2
  <1>6. SupsHold
    BY <1>1, Identifiers DEF SupsHold
  <1>7. RunsOwned
    BY OverTyped DEF RunsOwned, Alive
  <1>8. CallersRest /\ Persisting = {}
    BY IdleTyped DEF CallersRest, Persisting
  <1> QED BY <1>2, <1>3, <1>4, <1>5, <1>6, <1>7, <1>8 DEF ManagerPart, ManagerTyped

LEMMA InitHolds == Init => ManagerPart /\ StorePart
  <1> SUFFICES ASSUME Init PROVE ManagerPart /\ StorePart
    OBVIOUS
  <1>1. store \in Versions /\ clock \in Versions
    BY Identifiers DEF Init
  <1>2. ManagerPart /\ Persisting = {}
    BY <1>1, Booted DEF Init, BootHolds, AtBoot
  <1>3. VersionsLeft
    BY <1>1, <1>2, FS_EmptySet, ManagerAssumption DEF VersionsLeft, Versions
  <1> QED BY <1>1, <1>2, <1>3 DEF StorePart, StoreTyped

LEMMA RestartHolds ==
  ASSUME ManagerPart, StorePart, Restart
  PROVE  ManagerPart' /\ StorePart'
  <1>1. PICK st \in Versions : st = store
    BY DEF StorePart, StoreTyped
  <1>2. /\ entry' = BootEntry(st) /\ sup' = BootSup(st) /\ run' = [r \in Runs |-> Over]
        /\ call' = [c \in Callers |-> Idle] /\ UNCHANGED <<store, clock>>
    BY <1>1 DEF Restart
  <1>3. ManagerPart' /\ Persisting' = {}
    <2>1. BootHolds'
      BY Booted, PTL
    <2>2. AtBoot(st)'
      BY <1>2 DEF AtBoot, BootEntry, BootSup
    <2> QED BY <2>1, <2>2 DEF BootHolds
  <1>4. clock' \in 0 .. MaxVersion
    BY <1>2 DEF StorePart, StoreTyped, Versions
  <1>5. VersionsLeft'
    BY <1>3, <1>4, FS_EmptySet, ManagerAssumption DEF VersionsLeft
  <1> QED BY <1>2, <1>3, <1>5 DEF StorePart, StoreTyped

-----------------------------------------------------------------------------
(***************************************************************************)
(* The theorems.                                                           *)
(***************************************************************************)
LEMMA ManagerInduction == ManagerIInv /\ [Next]_vars => ManagerIInv'
  <1> SUFFICES ASSUME ManagerPart, StorePart, [Next]_vars
               PROVE  ManagerPart' /\ StorePart'
    <2>1. ManagerIInv' <=> ManagerPart' /\ StorePart'
      BY Parts, PTL
    <2> QED BY Parts, <2>1
  <1>1. CASE \E c \in Callers : Begin(c) \/ checked_upsert(c) \/ ManagerCall(c)
    BY <1>1, BeginHolds, UpsertHolds, ManagerCallHolds
  <1>2. CASE Background
    BY <1>2, BackgroundHolds
  <1>3. CASE Restart
    BY <1>3, RestartHolds
  <1>4. CASE UNCHANGED vars
    BY <1>4 DEF vars, ManagerPart, ManagerTyped, SupsHold, RunsOwned, Alive, Starting, EntryIsServed,
                CallersRest, StorePart, StoreTyped, VersionsLeft, Persisting
  <1> QED BY <1>1, <1>2, <1>3, <1>4 DEF Next

\* The inductive invariant holds of every behaviour.
LEMMA ManagerInductive == Spec => []ManagerIInv
  <1>1. Init => ManagerIInv
    BY InitHolds, Parts
  <1> QED BY <1>1, ManagerInduction, PTL DEF Spec

\* The manager is sound however callers, supervisors, runs and restarts
\* interleave: a supervisor (manager.rs) calls start() only when its previous
\* run is over, and the registry never publishes the channel of a supervisor
\* that has left its loop.
THEOREM ManagerSound == Spec => []ManagerInv
  <1>1. ManagerIInv => ManagerInv
    <2> SUFFICES ASSUME ManagerIInv PROVE StopBeforeStart
      BY DEF ManagerIInv, ManagerInv
    <2> QED BY DEF ManagerIInv, RunsOwned, StopBeforeStart
  <1> QED BY <1>1, ManagerInductive, PTL

\* No run leaks: when no call is in progress and every supervisor waits on a
\* channel with a sender, only the run of the supervisor behind the registry
\* entry may be alive, after any number of double creations (spawn_service) and
\* of removals during start() (stop_service).
THEOREM NoRunLeaks == Spec => []NoLeakedRun
  <1>1. ManagerIInv => NoLeakedRun
    <2> SUFFICES ASSUME ManagerIInv, Quiescent, NEW r \in Runs, Alive(r)
                 PROVE  entry # NoEntry /\ sup[entry.sup].run = r
      BY DEF NoLeakedRun
    <2>1. PICK s \in Sups : s = run[r].sup /\ sup[s].run = r /\ sup[s].pc # "gone"
      BY DEF ManagerIInv, RunsOwned
    <2>2. \A c \in Callers : call[c].sup = NoSup
      BY IdleTyped DEF ManagerIInv, CallersRest, Quiescent
    <2>3. entry.sup = s
      BY <2>1, <2>2, Identifiers DEF Quiescent, NoSender
    <2> QED BY <2>1, <2>3, Identifiers DEF NoEntry
  <1> QED BY <1>1, ManagerInductive, PTL

=============================================================================
