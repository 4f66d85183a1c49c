---------------------------- MODULE Control_proofs ----------------------------
(***************************************************************************)
(* Proofs about the control plane: the flow slots of the data plane follow *)
(* the stored flows and the WAN routes, a DNS lookup reports the most      *)
(* informative outcome of its legs and an upstream that is offline is      *)
(* being probed, a DDNS job has one task, which tells the truth about its  *)
(* record, and the store's transactions lose no update.                    *)
(***************************************************************************)
EXTENDS FlowTargets, DnsLookup, DdnsTasks, StoreWriter, SequenceTheorems, TLAPS

(***************************************************************************)
(* FlowTargets                                                             *)
(***************************************************************************)
At(cs, i) == {c \in cs : c.fid = i}
Holds(t, i) == i \in IdsOf(task[t].configs)
Writers == {"mlist", "mapply", "clone4", "clone6", "apply4", "apply6"}
Clearers == {"dmlist", "dmapply", "clear"}
FlowPcs == Writers \cup Clearers \cup {"off", "idle", "rmlist", "rmapply", "list"}
PcsOf(t) ==
  CASE t = "routes" -> Writers \cup {"list", "idle"}
    [] t = "devices" -> {"off", "idle", "rmlist", "rmapply"}
    [] OTHER -> Writers \cup Clearers \cup {"idle"}
Matches == [flows : SUBSET FlowIds, devices : 0 .. MaxChanges]
FlowTask == [pc : FlowPcs, configs : SUBSET Flow, v4 : SUBSET FlowOwners, v6 : SUBSET FlowOwners, read : Matches]

\* Whole task records, and who is where: flows are held only by a task that is
\* going to write or clear their slots.
TaskOK(t, k) ==
  /\ k \in FlowTask /\ k.pc \in PcsOf(t)
  /\ k.pc = "idle" => k = Idle
  /\ k.pc \notin Writers \cup Clearers => k.configs = {}
  /\ t = "routes" /\ k.pc \in {"mlist", "mapply"} => k.configs = {}
TasksOK == task \in [Tasks -> FlowTask] /\ \A t \in Tasks : TaskOK(t, task[t])
StoreOK ==
  /\ flowRow \in [Rows -> Flow \cup {NoFlow}] /\ flowRoute \in [Families -> SUBSET FlowOwners]
  /\ slot \in [Families -> [FlowIds -> SUBSET FlowOwners]] /\ match \in Matches /\ tainted \subseteq FlowIds
CountsOK ==
  /\ changes \in 0 .. MaxChanges /\ devices \in 0 .. changes /\ owed \in 0 .. changes
  /\ unread \in 0 .. EventRoom /\ devUnread \in 0 .. DeviceRoom
FlagsOK == lag \in BOOLEAN /\ devLost \in BOOLEAN /\ mcross \in BOOLEAN /\ failed \in BOOLEAN
FlowTyped == TasksOK /\ StoreOK /\ CountsOK /\ FlagsOK

\* Flow ids that are not told apart any more are recorded as such: what the
\* tasks hold of any other flow is what is stored.
HeldIs(t, i) ==
  Holds(t, i) => \/ task[t].pc \in Writers /\ At(task[t].configs, i) = At(Stored, i)
                 \/ task[t].pc \in Clearers /\ At(Stored, i) = {}
HeldAsStored == \A t \in Tasks, i \in FlowIds \ tainted : HeldIs(t, i)
OneRow ==
  \A r, s \in Rows : flowRow[r].fid = flowRow[s].fid /\ flowRow[r].fid \notin tainted \cup {0} => r = s

\* The observer is going to list the flows.
Pending == owed > 0 \/ unread > 0 \/ lag \/ task["routes"].pc \in {"mlist", "mapply", "list"}

\* A task holds a copy of the routes of f that it has not yet written.
Unwritten(t, f) == task[t].pc \in (IF f = "v4" THEN {"clone6", "apply4"} ELSE {"apply4", "apply6"})
CopyOf(t, f) == IF f = "v4" THEN task[t].v4 ELSE task[t].v6

\* Whoever is about to write an outdated copy, the observer comes after it.
StaleIs(i) ==
  \A t \in Tasks, f \in Families :
    Holds(t, i) /\ Unwritten(t, f) /\ CopyOf(t, f) # flowRoute[f] =>
      Pending \/ (task["routes"].pc = "clone4" /\ Holds("routes", i))
StaleTold == \A i \in FlowIds \ tainted : StaleIs(i)

\* Slots that are not what they should be are going to be written or cleared.
WillWrite(t, f, i) ==
  Holds(t, i) /\ \/ task[t].pc \in {"mlist", "mapply", "clone4"}
                 \/ f = "v6" /\ task[t].pc = "clone6"
                 \/ Unwritten(t, f) /\ CopyOf(t, f) = flowRoute[f]
WillClear(t, i) == Holds(t, i) /\ task[t].pc \in Clearers
Want(f, i) == UNION {Resolve(c, flowRoute[f]) : c \in At(Stored, i)}
SlotIs(i) ==
  \A f \in Families :
    \/ slot[f][i] = Want(f, i)
    \/ \E t \in Tasks : WillWrite(t, f, i) \/ WillClear(t, i)
    \/ Pending /\ At(Stored, i) # {}
SlotsTold == \A i \in FlowIds \ tainted : SlotIs(i)

\* The same for the match map: a reader with an outdated result has a later
\* reader after it.
Current == [flows |-> Enabled(Stored), devices |-> devices]
Matching == {"mapply", "dmapply", "rmapply"}
MatchDue == (\E t \in Tasks : task[t].pc \in ListPcs) \/ devUnread > 0 \/ devLost
MatchesTold ==
  /\ match = Current \/ MatchDue \/ \E t \in Tasks : task[t].pc \in Matching /\ task[t].read = Current
  /\ \A t \in Tasks : task[t].pc \in Matching /\ task[t].read # Current => MatchDue
  /\ \A t, u \in Tasks : task[t].pc \in Matching /\ task[u].pc \in Matching => t = u

FlowIInv ==
  /\ FlowTyped /\ HeldAsStored /\ OneRow
  /\ ~failed => StaleTold /\ SlotsTold
  /\ ~failed /\ ~mcross => MatchesTold

(***************************************************************************)
(* The records of the tasks.                                               *)
(***************************************************************************)
LEMMA FlowNames ==
  /\ "routes" \in Tasks /\ "devices" \in Tasks /\ Operators \subseteq Tasks
  /\ \A t \in Operators : t # "routes" /\ t # "devices"
  /\ NoMatch \in Matches /\ 0 \notin FlowIds
BY FlowConstants DEF Tasks, NoMatch, Matches

LEMMA TaskPc ==
  ASSUME NEW k \in FlowTask, NEW p \in FlowPcs
  PROVE  [k EXCEPT !.pc = p] = [pc |-> p, configs |-> k.configs, v4 |-> k.v4, v6 |-> k.v6, read |-> k.read]
BY DEF FlowTask

LEMMA TaskRead ==
  ASSUME NEW k \in FlowTask, NEW p \in FlowPcs, NEW m \in Matches
  PROVE  [k EXCEPT !.pc = p, !.read = m] = [pc |-> p, configs |-> k.configs, v4 |-> k.v4, v6 |-> k.v6, read |-> m]
<1> DEFINE g == [k EXCEPT !.pc = p]
<1>1. g \in FlowTask /\ g = [pc |-> p, configs |-> k.configs, v4 |-> k.v4, v6 |-> k.v6, read |-> k.read]  BY DEF FlowTask
<1>2. [k EXCEPT !.pc = p, !.read = m] = [g EXCEPT !.read = m]  OBVIOUS
<1> HIDE DEF g
<1>3. [g EXCEPT !.read = m] = [pc |-> g.pc, configs |-> g.configs, v4 |-> g.v4, v6 |-> g.v6, read |-> m]  BY <1>1 DEF FlowTask
<1> QED  BY <1>1, <1>2, <1>3

LEMMA TaskV4 ==
  ASSUME NEW k \in FlowTask, NEW p \in FlowPcs, NEW a \in SUBSET FlowOwners
  PROVE  /\ [k EXCEPT !.pc = p, !.v4 = a] = [pc |-> p, configs |-> k.configs, v4 |-> a, v6 |-> k.v6, read |-> k.read]
         /\ [k EXCEPT !.pc = p, !.v6 = a] = [pc |-> p, configs |-> k.configs, v4 |-> k.v4, v6 |-> a, read |-> k.read]
<1> DEFINE g == [k EXCEPT !.pc = p]
<1>1. g \in FlowTask /\ g = [pc |-> p, configs |-> k.configs, v4 |-> k.v4, v6 |-> k.v6, read |-> k.read]  BY DEF FlowTask
<1>2. [k EXCEPT !.pc = p, !.v4 = a] = [g EXCEPT !.v4 = a] /\ [k EXCEPT !.pc = p, !.v6 = a] = [g EXCEPT !.v6 = a]  OBVIOUS
<1> HIDE DEF g
<1>3. [g EXCEPT !.v4 = a] = [pc |-> g.pc, configs |-> g.configs, v4 |-> a, v6 |-> g.v6, read |-> g.read]  BY <1>1 DEF FlowTask
<1>4. [g EXCEPT !.v6 = a] = [pc |-> g.pc, configs |-> g.configs, v4 |-> g.v4, v6 |-> a, read |-> g.read]  BY <1>1 DEF FlowTask
<1> QED  BY <1>1, <1>2, <1>3, <1>4

LEMMA TaskIdle ==
  ASSUME NEW p, NEW cs
  PROVE  /\ Idle \in FlowTask
         /\ [Idle EXCEPT !.pc = p] = [pc |-> p, configs |-> {}, v4 |-> {}, v6 |-> {}, read |-> NoMatch]
         /\ [Idle EXCEPT !.pc = p, !.configs = cs] = [pc |-> p, configs |-> cs, v4 |-> {}, v6 |-> {}, read |-> NoMatch]
<1>1. Idle \in FlowTask  BY FlowNames DEF Idle, FlowTask, FlowPcs
<1>2. [Idle EXCEPT !.pc = p] = [pc |-> p, configs |-> {}, v4 |-> {}, v6 |-> {}, read |-> NoMatch]  BY DEF Idle
<1> DEFINE g == [pc |-> p, configs |-> {}, v4 |-> {}, v6 |-> {}, read |-> NoMatch]
<1>3. [Idle EXCEPT !.pc = p, !.configs = cs] = [g EXCEPT !.configs = cs]  BY <1>2
<1>4. [g EXCEPT !.configs = cs] = [pc |-> p, configs |-> cs, v4 |-> {}, v6 |-> {}, read |-> NoMatch]  OBVIOUS
<1> QED  BY <1>1, <1>2, <1>3, <1>4

\* A task moves to a record that fits it; the others stay.
LEMMA TaskMoves ==
  ASSUME TasksOK, NEW t \in Tasks, NEW k, TaskOK(t, k), task' = [task EXCEPT ![t] = k]
  PROVE  TasksOK' /\ task'[t] = k /\ \A u \in Tasks \ {t} : task'[u] = task[u]
<1>1. task \in [Tasks -> FlowTask] /\ k \in FlowTask  BY DEF TasksOK, TaskOK
<1>2. task' \in [Tasks -> FlowTask] /\ task'[t] = k /\ \A u \in Tasks \ {t} : task'[u] = task[u]  BY <1>1
<1>3. ASSUME NEW u \in Tasks PROVE TaskOK(u, task'[u])  BY <1>2, <1>3 DEF TasksOK
<1> QED  BY <1>2, <1>3 DEF TasksOK

(***************************************************************************)
(* What the tasks hold of one flow id.                                     *)
(***************************************************************************)
LEMMA HoldsAt ==
  ASSUME NEW t, NEW i
  PROVE  Holds(t, i) <=> At(task[t].configs, i) # {}
BY DEF Holds, IdsOf, At

LEMMA HoldsAtNext ==
  ASSUME NEW t, NEW i
  PROVE  Holds(t, i)' <=> At(task'[t].configs, i) # {}
BY DEF Holds, IdsOf, At

\* The flows with id i after a row was rewritten.
LEMMA StoredAt ==
  ASSUME StoreOK, NEW r \in Rows, NEW c \in Flow \cup {NoFlow}, flowRow' = [flowRow EXCEPT ![r] = c],
         NEW i \in FlowIds
  PROVE  /\ flowRow[r].fid # i /\ c.fid # i => At(Stored, i)' = At(Stored, i)
         /\ (\A s \in Rows \ {r} : flowRow[s].fid # i) /\ c.fid # i => At(Stored, i)' = {}
         /\ (\A s \in Rows \ {r} : flowRow[s].fid # i) /\ c.fid = i => At(Stored, i)' = {c}
<1>1. flowRow'[r] = c /\ \A s \in Rows \ {r} : flowRow'[s] = flowRow[s]  BY DEF StoreOK
<1>2. c.fid = i => c # NoFlow  BY FlowConstants DEF NoFlow
<1>3. \A d : d \in At(Stored, i)' <=> d.fid = i /\ d # NoFlow /\ \E s \in Rows : d = flowRow'[s]  BY DEF At, Stored
<1>4. \A d : d \in At(Stored, i) <=> d.fid = i /\ d # NoFlow /\ \E s \in Rows : d = flowRow[s]  BY DEF At, Stored
<1>5. flowRow[r].fid # i /\ c.fid # i => \A d : d \in At(Stored, i)' <=> d \in At(Stored, i)  BY <1>1, <1>3, <1>4
<1>6. (\A s \in Rows \ {r} : flowRow[s].fid # i) => \A d : d \in At(Stored, i)' <=> d = c /\ c.fid = i
  BY <1>1, <1>2, <1>3
<1> QED  BY <1>5, <1>6

\* A step that changes nothing about flow id i except the place of tasks that
\* have not copied the routes yet or are going to clear.
Steady(u, i) ==
  /\ At(task'[u].configs, i) = At(task[u].configs, i) /\ task'[u].v4 = task[u].v4 /\ task'[u].v6 = task[u].v6
  /\ \/ task'[u].pc = task[u].pc
     \/ u # "routes" /\ task[u].pc \in {"mlist", "mapply", "clone4"} /\ task'[u].pc \in {"mlist", "mapply", "clone4"}
     \/ task[u].pc \in Clearers /\ task'[u].pc \in Clearers

LEMMA HeldFrame ==
  ASSUME NEW i, NEW u \in Tasks, At(Stored, i)' = At(Stored, i),
         Holds(u, i)' => Holds(u, i) /\ Steady(u, i), HeldIs(u, i)
  PROVE  HeldIs(u, i)'
BY DEF HeldIs, Steady, Writers, Clearers

LEMMA StaleFrame ==
  ASSUME NEW i, flowRoute' = flowRoute, Pending => Pending',
         \A u \in Tasks : Holds(u, i)' => Holds(u, i) /\ Steady(u, i),
         Holds("routes", i) => Holds("routes", i)' /\ Steady("routes", i),
         StaleIs(i)
  PROVE  StaleIs(i)'
<1> SUFFICES ASSUME NEW t \in Tasks, NEW f \in Families, Holds(t, i)', Unwritten(t, f)', CopyOf(t, f)' # flowRoute'[f]
             PROVE  Pending' \/ (task'["routes"].pc = "clone4" /\ Holds("routes", i)')
  BY DEF StaleIs
<1>1. Holds(t, i) /\ Unwritten(t, f) /\ CopyOf(t, f) # flowRoute[f]
  BY DEF Steady, Unwritten, CopyOf, Clearers
<1>2. Pending \/ (task["routes"].pc = "clone4" /\ Holds("routes", i))  BY <1>1 DEF StaleIs
<1>3. task["routes"].pc = "clone4" /\ Holds("routes", i) => task'["routes"].pc = "clone4" /\ Holds("routes", i)'
  BY DEF Steady, Clearers
<1> QED  BY <1>2, <1>3

LEMMA SlotFrame ==
  ASSUME NEW i, At(Stored, i)' = At(Stored, i), flowRoute' = flowRoute, Pending => Pending',
         \A f \in Families : slot'[f][i] = slot[f][i],
         \A u \in Tasks : Holds(u, i) => Holds(u, i)' /\ Steady(u, i),
         SlotIs(i)
  PROVE  SlotIs(i)'
<1> SUFFICES ASSUME NEW f \in Families
             PROVE  \/ slot'[f][i] = Want(f, i)'
                    \/ \E t \in Tasks : WillWrite(t, f, i)' \/ WillClear(t, i)'
                    \/ Pending' /\ At(Stored, i)' # {}
  BY DEF SlotIs
<1>1. Want(f, i)' = Want(f, i)  BY DEF Want
<1>2. ASSUME NEW t \in Tasks, WillWrite(t, f, i) PROVE WillWrite(t, f, i)'
  BY <1>2 DEF WillWrite, Steady, Unwritten, CopyOf, Clearers
<1>3. ASSUME NEW t \in Tasks, WillClear(t, i) PROVE WillClear(t, i)'
  BY <1>3 DEF WillClear, Steady, Clearers
<1> QED  BY <1>1, <1>2, <1>3 DEF SlotIs

(***************************************************************************)
(* Where each step takes its task.                                         *)
(***************************************************************************)
LEMMA SetFlowMove ==
  ASSUME FlowTyped, NEW t \in Operators, NEW r \in Rows, NEW c \in Flow, SetFlow(t, r, c)
  PROVE  /\ TasksOK' /\ \A u \in Tasks \ {t} : task'[u] = task[u]
         /\ task'[t].pc = "mlist" /\ task'[t].configs = {c} /\ task[t].configs = {} /\ task[t].pc = "idle"
<1> DEFINE k == [pc |-> "mlist", configs |-> {c}, v4 |-> {}, v6 |-> {}, read |-> NoMatch]
<1>1. t \in Tasks /\ t # "routes" /\ t # "devices"  BY FlowNames
<1>2. task' = [task EXCEPT ![t] = k]  BY TaskIdle DEF SetFlow, Step
<1>3. TaskOK(t, k)  BY <1>1, FlowNames DEF TaskOK, FlowTask, FlowPcs, PcsOf, Writers, Clearers
<1>4. task[t].configs = {} /\ task[t].pc = "idle"
  BY <1>1 DEF SetFlow, FlowTyped, TasksOK, TaskOK, Writers, Clearers
<1>5. TasksOK' /\ task'[t] = k /\ \A u \in Tasks \ {t} : task'[u] = task[u]
  <2> HIDE DEF k
  <2> QED  BY <1>1, <1>2, <1>3, TaskMoves DEF FlowTyped
<1> QED  BY <1>4, <1>5

LEMMA DeleteFlowMove ==
  ASSUME FlowTyped, NEW t \in Operators, NEW r \in Rows, DeleteFlow(t, r)
  PROVE  /\ TasksOK' /\ \A u \in Tasks \ {t} : task'[u] = task[u]
         /\ task'[t].pc = "dmlist" /\ task'[t].configs = {flowRow[r]} /\ task[t].configs = {} /\ task[t].pc = "idle"
         /\ flowRow[r] \in Flow
<1> DEFINE k == [pc |-> "dmlist", configs |-> {flowRow[r]}, v4 |-> {}, v6 |-> {}, read |-> NoMatch]
<1>1. t \in Tasks /\ t # "routes" /\ t # "devices"  BY FlowNames
<1>2. task' = [task EXCEPT ![t] = k]  BY TaskIdle DEF DeleteFlow, Step
<1>6. flowRow[r] \in Flow  BY DEF DeleteFlow, FlowTyped, StoreOK
<1>3. TaskOK(t, k)  BY <1>1, <1>6, FlowNames DEF TaskOK, FlowTask, FlowPcs, PcsOf, Writers, Clearers
<1>4. task[t].configs = {} /\ task[t].pc = "idle"
  BY <1>1 DEF DeleteFlow, FlowTyped, TasksOK, TaskOK, Writers, Clearers
<1>5. TasksOK' /\ task'[t] = k /\ \A u \in Tasks \ {t} : task'[u] = task[u]
  <2> HIDE DEF k
  <2> QED  BY <1>1, <1>2, <1>3, TaskMoves DEF FlowTyped
<1> QED  BY <1>4, <1>5, <1>6

LEMMA ReadMove ==
  ASSUME FlowTyped, NEW t \in Tasks, ReadMatches(t)
  PROVE  /\ TasksOK' /\ \A u \in Tasks \ {t} : task'[u] = task[u]
         /\ task'[t] = [task[t] EXCEPT !.pc = ApplyOf(task[t].pc), !.read = Current]
         /\ task'[t].pc = ApplyOf(task[t].pc) /\ task'[t].read = Current
         /\ task'[t].configs = task[t].configs /\ task'[t].v4 = task[t].v4 /\ task'[t].v6 = task[t].v6
<1> DEFINE k == [pc |-> ApplyOf(task[t].pc), configs |-> task[t].configs, v4 |-> task[t].v4,
                 v6 |-> task[t].v6, read |-> Current]
<1>1. task[t] \in FlowTask /\ TaskOK(t, task[t])  BY DEF FlowTyped, TasksOK
<1>2. task[t].pc \in ListPcs  BY DEF ReadMatches
<1>3. ApplyOf(task[t].pc) \in FlowPcs  BY <1>2 DEF ListPcs, ApplyOf, FlowPcs, Writers, Clearers
<1>4. Current \in Matches
  <2>1. Enabled(Stored) \subseteq FlowIds  BY DEF Enabled, Stored, FlowTyped, StoreOK, Flow
  <2>2. devices \in 0 .. MaxChanges  BY FlowConstants DEF FlowTyped, CountsOK
  <2> QED  BY <2>1, <2>2 DEF Current, Matches
<1>5. task' = [task EXCEPT ![t] = k] /\ k = [task[t] EXCEPT !.pc = ApplyOf(task[t].pc), !.read = Current]
  <2> HIDE DEF k
  <2>1. k = [task[t] EXCEPT !.pc = ApplyOf(task[t].pc), !.read = Current]  BY <1>1, <1>3, <1>4, TaskRead DEF k
  <2> QED  BY <2>1 DEF ReadMatches, Step, Current
<1>6. TaskOK(t, k)
  <2>1. k \in FlowTask  BY <1>1, <1>3, <1>4 DEF FlowTask
  <2>2. t \notin {"routes", "devices"} \/ t = "routes" \/ t = "devices"  OBVIOUS
  <2> QED  BY <1>1, <1>2, <2>1 DEF TaskOK, PcsOf, ApplyOf, ListPcs, Writers, Clearers
<1>7. TasksOK' /\ task'[t] = k /\ \A u \in Tasks \ {t} : task'[u] = task[u]
  <2> HIDE DEF k
  <2> QED  BY <1>5, <1>6, TaskMoves DEF FlowTyped
<1> QED  BY <1>5, <1>7

LEMMA AfterMatchIs ==
  ASSUME FlowTyped, NEW t \in Tasks, task[t].pc \in ListPcs \cup Matching
  PROVE  /\ TaskOK(t, AfterMatch(t))
         /\ TaskOK(t, [AfterMatch(t) EXCEPT !.read = NoMatch])
         /\ [AfterMatch(t) EXCEPT !.read = NoMatch].pc = AfterMatch(t).pc
         /\ [AfterMatch(t) EXCEPT !.read = NoMatch].configs = AfterMatch(t).configs
         /\ [AfterMatch(t) EXCEPT !.read = NoMatch].v4 = AfterMatch(t).v4
         /\ [AfterMatch(t) EXCEPT !.read = NoMatch].v6 = AfterMatch(t).v6
         /\ AfterMatch(t).configs = task[t].configs
         /\ \/ t = "routes" /\ AfterMatch(t).pc = "list" /\ task[t].configs = {} /\ task[t].pc \in {"mlist", "mapply"}
            \/ t = "devices" /\ AfterMatch(t).pc = "idle" /\ task[t].configs = {} /\ task[t].pc \in {"rmlist", "rmapply"}
            \/ /\ t # "routes" /\ AfterMatch(t).v4 = task[t].v4 /\ AfterMatch(t).v6 = task[t].v6
               /\ \/ task[t].pc \in {"mlist", "mapply"} /\ AfterMatch(t).pc = "clone4"
                  \/ task[t].pc \in {"dmlist", "dmapply"} /\ AfterMatch(t).pc = "clear"
<1>1. task[t] \in FlowTask /\ TaskOK(t, task[t])  BY DEF FlowTyped, TasksOK
<1>2. Idle \in FlowTask /\ Idle.pc = "idle" /\ Idle.configs = {}  BY TaskIdle DEF Idle
<1> DEFINE a == AfterMatch(t)
<1>a. CASE t = "routes"
  <2>1. task[t].pc \in {"mlist", "mapply"} /\ task[t].configs = {}
    BY <1>a, <1>1 DEF TaskOK, PcsOf, ListPcs, Matching, Writers, Clearers
  <2>2. a = [pc |-> "list", configs |-> {}, v4 |-> {}, v6 |-> {}, read |-> NoMatch]  BY <1>a, <2>1, TaskIdle DEF AfterMatch
  <2>3. TaskOK(t, a)  BY <1>a, <2>2, FlowNames DEF TaskOK, FlowTask, FlowPcs, PcsOf, Writers, Clearers
  <2>4. [a EXCEPT !.read = NoMatch] = a  BY <2>2
  <2> HIDE DEF a
  <2> QED  BY <1>a, <2>1, <2>2, <2>3, <2>4 DEF a
<1>b. CASE t = "devices"
  <2>1. task[t].pc \in {"rmlist", "rmapply"} /\ task[t].configs = {}
    BY <1>b, <1>1 DEF TaskOK, PcsOf, ListPcs, Matching, Writers, Clearers
  <2>2. a = Idle  BY <1>b, <2>1 DEF AfterMatch
  <2>3. TaskOK(t, a)  BY <1>b, <1>2, <2>2 DEF TaskOK, PcsOf, Writers, Clearers
  <2>4. [a EXCEPT !.read = NoMatch] = a  BY <2>2 DEF Idle
  <2> HIDE DEF a
  <2> QED  BY <1>b, <1>2, <2>1, <2>2, <2>3, <2>4 DEF a
<1>c. CASE t \notin {"routes", "devices"}
  <2>1. task[t].pc \in {"mlist", "mapply", "dmlist", "dmapply"}
    BY <1>c, <1>1 DEF TaskOK, PcsOf, ListPcs, Matching, Writers, Clearers
  <2> DEFINE p == IF task[t].pc \in {"mlist", "mapply"} THEN "clone4" ELSE "clear"
  <2>2. a = [task[t] EXCEPT !.pc = p]  BY <1>c, <2>1 DEF AfterMatch
  <2>3. p \in FlowPcs /\ p \in PcsOf(t) /\ p # "idle" /\ p \in Writers \cup Clearers
    BY <1>c DEF FlowPcs, PcsOf, Writers, Clearers
  <2>4. a = [pc |-> p, configs |-> task[t].configs, v4 |-> task[t].v4, v6 |-> task[t].v6, read |-> task[t].read]
    <3> HIDE DEF p, a
    <3> QED  BY <2>2, <2>3, <1>1, TaskPc
  <2>5. a \in FlowTask  BY <1>1, <2>3, <2>4 DEF FlowTask
  <2>6. [a EXCEPT !.read = NoMatch]
          = [pc |-> p, configs |-> task[t].configs, v4 |-> task[t].v4, v6 |-> task[t].v6, read |-> NoMatch]
    <3> HIDE DEF p, a
    <3> QED  BY <2>4
  <2>7. [a EXCEPT !.read = NoMatch] \in FlowTask  BY <1>1, <2>3, <2>6, FlowNames DEF FlowTask
  <2>8. TaskOK(t, a) /\ TaskOK(t, [a EXCEPT !.read = NoMatch])
    <3> HIDE DEF p, a
    <3> QED  BY <1>c, <2>3, <2>4, <2>5, <2>6, <2>7 DEF TaskOK
  <2> HIDE DEF a
  <2> QED  BY <1>c, <2>1, <2>4, <2>6, <2>8 DEF a
<1> QED  BY <1>a, <1>b, <1>c

LEMMA WriteMove ==
  ASSUME FlowTyped, NEW t \in Tasks, WriteMatches(t)
  PROVE  /\ TasksOK' /\ \A u \in Tasks \ {t} : task'[u] = task[u]
         /\ task'[t].pc = AfterMatch(t).pc /\ task'[t].configs = AfterMatch(t).configs
         /\ task'[t].v4 = AfterMatch(t).v4 /\ task'[t].v6 = AfterMatch(t).v6
<1> DEFINE k == [AfterMatch(t) EXCEPT !.read = NoMatch]
<1>1. task[t].pc \in ListPcs \cup Matching  BY DEF WriteMatches, Matching
<1>2. TaskOK(t, k) /\ k.pc = AfterMatch(t).pc /\ k.configs = AfterMatch(t).configs
      /\ k.v4 = AfterMatch(t).v4 /\ k.v6 = AfterMatch(t).v6
  BY <1>1, AfterMatchIs
<1>3. task' = [task EXCEPT ![t] = k]  BY DEF WriteMatches, Step
<1> HIDE DEF k
<1> QED  BY <1>2, <1>3, TaskMoves DEF FlowTyped

LEMMA FailMove ==
  ASSUME FlowTyped, NEW t \in Tasks, ReadMatchesFails(t)
  PROVE  TasksOK' /\ task'[t] = AfterMatch(t) /\ \A u \in Tasks \ {t} : task'[u] = task[u]
<1>1. TaskOK(t, AfterMatch(t))  BY AfterMatchIs DEF ReadMatchesFails
<1>2. task' = [task EXCEPT ![t] = AfterMatch(t)]  BY DEF ReadMatchesFails, Step
<1> QED  BY <1>1, <1>2, TaskMoves DEF FlowTyped

LEMMA ListMove ==
  ASSUME FlowTyped, ListFlows
  PROVE  /\ TasksOK' /\ \A u \in Tasks \ {"routes"} : task'[u] = task[u]
         /\ task'["routes"].pc = "clone4" /\ task'["routes"].configs = Stored /\ task["routes"].configs = {}
<1> DEFINE k == [pc |-> "clone4", configs |-> Stored, v4 |-> {}, v6 |-> {}, read |-> NoMatch]
<1>1. "routes" \in Tasks /\ TaskOK("routes", task["routes"])  BY FlowNames DEF FlowTyped, TasksOK
<1>2. task' = [task EXCEPT !["routes"] = k]  BY TaskIdle DEF ListFlows, Step
<1>3. Stored \subseteq Flow  BY DEF Stored, FlowTyped, StoreOK
<1>4. TaskOK("routes", k)  BY <1>3, FlowNames DEF TaskOK, FlowTask, FlowPcs, PcsOf, Writers, Clearers
<1>5. TasksOK' /\ task'["routes"] = k /\ \A u \in Tasks \ {"routes"} : task'[u] = task[u]
  <2> HIDE DEF k
  <2> QED  BY <1>1, <1>2, <1>4, TaskMoves DEF FlowTyped
<1> QED  BY <1>1, <1>5 DEF ListFlows, TaskOK, Writers, Clearers

\* The first sync ends by starting the device observer.
LEMMA FinishMove ==
  ASSUME FlowTyped, NEW t \in Tasks, Finish(t), t # "devices"
  PROVE  /\ TasksOK' /\ task'[t] = Idle
         /\ \A u \in Tasks \ {t} :
              \/ task'[u] = task[u]
              \/ u = "devices" /\ task[u].pc = "off" /\ task[u].configs = {} /\ task'[u] = Idle
<1>2. task \in [Tasks -> FlowTask] /\ \A u \in Tasks : TaskOK(u, task[u])  BY DEF FlowTyped, TasksOK
<1>3. Idle \in FlowTask /\ Idle.pc = "idle" /\ Idle.configs = {}  BY TaskIdle DEF Idle
<1>4. \A u \in Tasks : task'[u] = IF u = t \/ task[u].pc = "off" THEN Idle ELSE task[u]  BY DEF Finish
<1>5. task' \in [Tasks -> FlowTask]  BY <1>2, <1>3 DEF Finish
<1>6. \A u \in Tasks : TaskOK(u, Idle)  BY <1>3 DEF TaskOK, PcsOf, Writers, Clearers
<1>7. \A u \in Tasks : task[u].pc = "off" => u = "devices" /\ task[u].configs = {}
  BY <1>2 DEF TaskOK, PcsOf, Writers, Clearers
<1>8. \A u \in Tasks : TaskOK(u, task'[u])
  <2> TAKE u \in Tasks
  <2>1. task'[u] = Idle \/ task'[u] = task[u]  BY <1>4
  <2>2. TaskOK(u, Idle) /\ TaskOK(u, task[u])  BY <1>2, <1>6
  <2> QED  BY <2>1, <2>2
<1> QED  BY <1>4, <1>5, <1>7, <1>8 DEF TasksOK

LEMMA Clone4Move ==
  ASSUME FlowTyped, NEW t \in Tasks, Clone4(t)
  PROVE  /\ TasksOK' /\ \A u \in Tasks \ {t} : task'[u] = task[u]
         /\ task'[t].pc = "clone6" /\ task'[t].configs = task[t].configs
         /\ task'[t].v4 = flowRoute["v4"] /\ task'[t].v6 = task[t].v6
<1> DEFINE k == [pc |-> "clone6", configs |-> task[t].configs, v4 |-> flowRoute["v4"], v6 |-> task[t].v6, read |-> task[t].read]
<1>1. task[t] \in FlowTask /\ TaskOK(t, task[t])  BY DEF FlowTyped, TasksOK
<1>2. flowRoute["v4"] \in SUBSET FlowOwners  BY DEF FlowTyped, StoreOK, Families
<1>3. task' = [task EXCEPT ![t] = k]
  <2>1. k = [task[t] EXCEPT !.pc = "clone6", !.v4 = flowRoute["v4"]]
    BY <1>1, <1>2, TaskV4 DEF FlowPcs, Writers
  <2> HIDE DEF k
  <2> QED  BY <2>1 DEF Clone4, Step
<1>4. TaskOK(t, k)
  <2>1. k \in FlowTask  BY <1>1, <1>2 DEF FlowTask, FlowPcs, Writers
  <2> QED  BY <1>1, <2>1 DEF Clone4, TaskOK, PcsOf, Writers, Clearers
<1>5. TasksOK' /\ task'[t] = k /\ \A u \in Tasks \ {t} : task'[u] = task[u]
  <2> HIDE DEF k
  <2> QED  BY <1>3, <1>4, TaskMoves DEF FlowTyped
<1> QED  BY <1>5

LEMMA Clone6Move ==
  ASSUME FlowTyped, NEW t \in Tasks, Clone6(t)
  PROVE  /\ TasksOK' /\ \A u \in Tasks \ {t} : task'[u] = task[u]
         /\ task'[t].pc = "apply4" /\ task'[t].configs = task[t].configs
         /\ task'[t].v4 = task[t].v4 /\ task'[t].v6 = flowRoute["v6"]
<1> DEFINE k == [pc |-> "apply4", configs |-> task[t].configs, v4 |-> task[t].v4, v6 |-> flowRoute["v6"], read |-> task[t].read]
<1>1. task[t] \in FlowTask /\ TaskOK(t, task[t])  BY DEF FlowTyped, TasksOK
<1>2. flowRoute["v6"] \in SUBSET FlowOwners  BY DEF FlowTyped, StoreOK, Families
<1>3. task' = [task EXCEPT ![t] = k]
  <2>1. k = [task[t] EXCEPT !.pc = "apply4", !.v6 = flowRoute["v6"]]
    BY <1>1, <1>2, TaskV4 DEF FlowPcs, Writers
  <2> HIDE DEF k
  <2> QED  BY <2>1 DEF Clone6, Step
<1>4. TaskOK(t, k)
  <2>1. k \in FlowTask  BY <1>1, <1>2 DEF FlowTask, FlowPcs, Writers
  <2> QED  BY <1>1, <2>1 DEF Clone6, TaskOK, PcsOf, Writers, Clearers
<1>5. TasksOK' /\ task'[t] = k /\ \A u \in Tasks \ {t} : task'[u] = task[u]
  <2> HIDE DEF k
  <2> QED  BY <1>3, <1>4, TaskMoves DEF FlowTyped
<1> QED  BY <1>5

LEMMA Apply4Move ==
  ASSUME FlowTyped, NEW t \in Tasks, Apply4(t)
  PROVE  /\ TasksOK' /\ \A u \in Tasks \ {t} : task'[u] = task[u]
         /\ task'[t].pc = "apply6" /\ task'[t].configs = task[t].configs
         /\ task'[t].v4 = task[t].v4 /\ task'[t].v6 = task[t].v6
<1> DEFINE k == [pc |-> "apply6", configs |-> task[t].configs, v4 |-> task[t].v4, v6 |-> task[t].v6, read |-> task[t].read]
<1>1. task[t] \in FlowTask /\ TaskOK(t, task[t])  BY DEF FlowTyped, TasksOK
<1>3. task' = [task EXCEPT ![t] = k]
  <2>1. k = [task[t] EXCEPT !.pc = "apply6"]  BY <1>1, TaskPc DEF FlowPcs, Writers
  <2> HIDE DEF k
  <2> QED  BY <2>1 DEF Apply4, Go, Step
<1>4. TaskOK(t, k)
  <2>1. k \in FlowTask  BY <1>1 DEF FlowTask, FlowPcs, Writers
  <2> QED  BY <1>1, <2>1 DEF Apply4, TaskOK, PcsOf, Writers, Clearers
<1>5. TasksOK' /\ task'[t] = k /\ \A u \in Tasks \ {t} : task'[u] = task[u]
  <2> HIDE DEF k
  <2> QED  BY <1>3, <1>4, TaskMoves DEF FlowTyped
<1> QED  BY <1>5

LEMMA ClearMove ==
  ASSUME FlowTyped, NEW t \in Tasks, ClearSlots(t)
  PROVE  /\ TasksOK' /\ \A u \in Tasks \ {t} : task'[u] = task[u]
         /\ task'[t] = Idle /\ t # "routes"
<1>1. TaskOK(t, task[t])  BY DEF FlowTyped, TasksOK
<1>2. TaskOK(t, Idle)
  <2>1. Idle \in FlowTask /\ Idle.pc = "idle" /\ Idle.configs = {}  BY TaskIdle DEF Idle
  <2> QED  BY <2>1 DEF TaskOK, PcsOf, Writers, Clearers
<1>3. t # "routes"  BY <1>1 DEF ClearSlots, TaskOK, PcsOf, Writers
<1>4. task' = [task EXCEPT ![t] = Idle]  BY DEF ClearSlots, Step
<1> QED  BY <1>2, <1>3, <1>4, TaskMoves DEF FlowTyped

LEMMA EventMove ==
  ASSUME FlowTyped
  PROVE  /\ RouteEvent => /\ TasksOK' /\ \A u \in Tasks \ {"routes"} : task'[u] = task[u]
                          /\ task'["routes"].pc = "list" /\ task'["routes"].configs = {} /\ task["routes"].configs = {}
         /\ DeviceEvent => /\ TasksOK' /\ \A u \in Tasks \ {"devices"} : task'[u] = task[u]
                           /\ task'["devices"].pc = "rmlist" /\ task'["devices"].configs = {} /\ task["devices"].configs = {}
<1>1. "routes" \in Tasks /\ "devices" \in Tasks  BY FlowNames
<1> DEFINE k(p) == [pc |-> p, configs |-> {}, v4 |-> {}, v6 |-> {}, read |-> NoMatch]
<1>2. TaskOK("routes", k("list")) /\ TaskOK("devices", k("rmlist"))
  BY FlowNames DEF TaskOK, FlowTask, FlowPcs, PcsOf, Writers, Clearers
<1>3. ASSUME RouteEvent PROVE task["routes"] = Idle /\ task' = [task EXCEPT !["routes"] = k("list")]
  <2>1. task["routes"] = Idle  BY <1>1, <1>3 DEF RouteEvent, FlowTyped, TasksOK, TaskOK
  <2> QED  BY <1>3, <2>1, TaskIdle DEF RouteEvent, Go, Step
<1>4. ASSUME DeviceEvent PROVE task["devices"] = Idle /\ task' = [task EXCEPT !["devices"] = k("rmlist")]
  <2>1. task["devices"] = Idle  BY <1>1, <1>4 DEF DeviceEvent, FlowTyped, TasksOK, TaskOK
  <2> QED  BY <1>4, <2>1, TaskIdle DEF DeviceEvent, Go, Step
<1>5. Idle.configs = {} /\ \A p : k(p).pc = p /\ k(p).configs = {}  BY DEF Idle
<1> HIDE DEF k
<1>6. ASSUME RouteEvent PROVE TasksOK' /\ task'["routes"] = k("list") /\ \A u \in Tasks \ {"routes"} : task'[u] = task[u]
  BY <1>1, <1>2, <1>3, <1>6, TaskMoves DEF FlowTyped
<1>7. ASSUME DeviceEvent PROVE TasksOK' /\ task'["devices"] = k("rmlist") /\ \A u \in Tasks \ {"devices"} : task'[u] = task[u]
  BY <1>1, <1>2, <1>4, <1>7, TaskMoves DEF FlowTyped
<1> QED  BY <1>3, <1>4, <1>5, <1>6, <1>7

\* The steps of FlowNext, each as one case.
LEMMA FlowTypes ==
  ASSUME FlowTyped, [FlowNext]_flowVars
  PROVE  FlowTyped'
<1>1. ASSUME NEW t \in Operators, NEW r \in Rows, NEW c \in Flow, SetFlow(t, r, c) PROVE FlowTyped'
  <2>1. TasksOK'  BY <1>1, SetFlowMove
  <2>2. StoreOK'
    <3>1. flowRow' \in [Rows -> Flow \cup {NoFlow}]  BY <1>1 DEF SetFlow, FlowTyped, StoreOK
    <3>2. c.fid \in FlowIds /\ flowRow[r].fid \in FlowIds \cup {0}  BY DEF FlowTyped, StoreOK, Flow, NoFlow
    <3>3. tainted' \subseteq FlowIds
      <4>1. Held(t, {c.fid, flowRow[r].fid}) \subseteq FlowIds
        <5>1. \A u \in Tasks : IdsOf(task[u].configs) \subseteq FlowIds
          BY DEF FlowTyped, TasksOK, FlowTask, IdsOf, Flow
        <5> QED  BY <5>1 DEF Held
      <4> QED  BY <1>1, <3>2, <4>1 DEF SetFlow, FlowTyped, StoreOK
    <3> QED  BY <1>1, <3>1, <3>3 DEF SetFlow, FlowTyped, StoreOK, maps
  <2>3. CountsOK'  BY <1>1, FlowConstants DEF SetFlow, FlowTyped, CountsOK, channels
  <2>4. FlagsOK'  BY <1>1 DEF SetFlow, FlowTyped, FlagsOK, channels
  <2> QED  BY <2>1, <2>2, <2>3, <2>4 DEF FlowTyped
<1>2. ASSUME NEW t \in Operators, NEW r \in Rows, DeleteFlow(t, r) PROVE FlowTyped'
  <2>1. TasksOK' /\ flowRow[r] \in Flow  BY <1>2, DeleteFlowMove
  <2>2. StoreOK'
    <3>1. flowRow' \in [Rows -> Flow \cup {NoFlow}]  BY <1>2 DEF DeleteFlow, FlowTyped, StoreOK
    <3>2. Held(t, {flowRow[r].fid}) \subseteq FlowIds  BY <2>1 DEF Held, Flow
    <3> QED  BY <1>2, <3>1, <3>2 DEF DeleteFlow, FlowTyped, StoreOK, maps
  <2>3. CountsOK'  BY <1>2, FlowConstants DEF DeleteFlow, FlowTyped, CountsOK, channels
  <2>4. FlagsOK'  BY <1>2 DEF DeleteFlow, FlowTyped, FlagsOK, channels
  <2> QED  BY <2>1, <2>2, <2>3, <2>4 DEF FlowTyped
<1>3. ASSUME NEW t \in Tasks, ReadMatches(t) PROVE FlowTyped'
  <2>1. TasksOK'  BY <1>3, ReadMove
  <2>2. StoreOK'  BY <1>3 DEF ReadMatches, FlowTyped, StoreOK, database, maps
  <2>3. CountsOK'  BY <1>3 DEF ReadMatches, FlowTyped, CountsOK, channels, database
  <2>4. FlagsOK'
    <3>1. mcross' \in BOOLEAN  BY <1>3 DEF ReadMatches, FlowTyped, FlagsOK
    <3> QED  BY <1>3, <3>1 DEF ReadMatches, FlowTyped, FlagsOK, channels
  <2> QED  BY <2>1, <2>2, <2>3, <2>4 DEF FlowTyped
<1>4. ASSUME NEW t \in Tasks, ReadMatchesFails(t) PROVE FlowTyped'
  <2>1. TasksOK'  BY <1>4, FailMove
  <2>2. StoreOK'  BY <1>4 DEF ReadMatchesFails, FlowTyped, StoreOK, database, maps
  <2>3. CountsOK'  BY <1>4, FlowConstants DEF ReadMatchesFails, FlowTyped, CountsOK, channels, database
  <2>4. FlagsOK'  BY <1>4 DEF ReadMatchesFails, FlowTyped, FlagsOK, channels
  <2> QED  BY <2>1, <2>2, <2>3, <2>4 DEF FlowTyped
<1>5. ASSUME NEW t \in Tasks, WriteMatches(t) PROVE FlowTyped'
  <2>1. TasksOK'  BY <1>5, WriteMove
  <2>2. StoreOK'
    <3>1. match' \in Matches  BY <1>5 DEF WriteMatches, FlowTyped, TasksOK, FlowTask
    <3> QED  BY <1>5, <3>1 DEF WriteMatches, FlowTyped, StoreOK, database
  <2>3. CountsOK'  BY <1>5 DEF WriteMatches, FlowTyped, CountsOK, channels, database
  <2>4. FlagsOK'  BY <1>5 DEF WriteMatches, FlowTyped, FlagsOK, channels
  <2> QED  BY <2>1, <2>2, <2>3, <2>4 DEF FlowTyped
<1>6. ASSUME ListFlows PROVE FlowTyped'
  <2>1. TasksOK'  BY <1>6, ListMove
  <2>2. StoreOK'  BY <1>6 DEF ListFlows, FlowTyped, StoreOK, database, maps
  <2>3. CountsOK'  BY <1>6 DEF ListFlows, FlowTyped, CountsOK, channels, database
  <2>4. FlagsOK'  BY <1>6 DEF ListFlows, FlowTyped, FlagsOK, channels
  <2> QED  BY <2>1, <2>2, <2>3, <2>4 DEF FlowTyped
<1>7. ASSUME ListFlowsFails PROVE FlowTyped'
  <2>1. TasksOK'  BY <1>7, FinishMove, FlowNames DEF ListFlowsFails
  <2>2. StoreOK'  BY <1>7 DEF ListFlowsFails, FlowTyped, StoreOK, database, maps
  <2>3. CountsOK'  BY <1>7, FlowConstants DEF ListFlowsFails, FlowTyped, CountsOK, channels, database
  <2>4. FlagsOK'  BY <1>7 DEF ListFlowsFails, FlowTyped, FlagsOK, channels
  <2> QED  BY <2>1, <2>2, <2>3, <2>4 DEF FlowTyped
<1>8. ASSUME NEW t \in Tasks, Clone4(t) PROVE FlowTyped'
  <2>1. TasksOK'  BY <1>8, Clone4Move
  <2>2. StoreOK'
    <3>1. Cloned(t, IdsOf(task[t].configs)) \subseteq FlowIds
      BY DEF Cloned, FlowTyped, TasksOK, FlowTask, IdsOf, Flow
    <3> QED  BY <1>8, <3>1 DEF Clone4, FlowTyped, StoreOK, database, maps
  <2>3. CountsOK'  BY <1>8 DEF Clone4, FlowTyped, CountsOK, channels, database
  <2>4. FlagsOK'  BY <1>8 DEF Clone4, FlowTyped, FlagsOK, channels
  <2> QED  BY <2>1, <2>2, <2>3, <2>4 DEF FlowTyped
<1>9. ASSUME NEW t \in Tasks, Clone6(t) PROVE FlowTyped'
  <2>1. TasksOK'  BY <1>9, Clone6Move
  <2>2. StoreOK'  BY <1>9 DEF Clone6, FlowTyped, StoreOK, database, maps
  <2>3. CountsOK'  BY <1>9 DEF Clone6, FlowTyped, CountsOK, channels, database
  <2>4. FlagsOK'  BY <1>9 DEF Clone6, FlowTyped, FlagsOK, channels
  <2> QED  BY <2>1, <2>2, <2>3, <2>4 DEF FlowTyped
<1>a. ASSUME NEW table \in [FlowIds -> SUBSET FlowOwners], NEW cs \in SUBSET Flow, NEW have
      PROVE  Apply(table, cs, have) \in [FlowIds -> SUBSET FlowOwners]
  <2>1. \A c \in Flow : Resolve(c, have) \subseteq FlowOwners  BY DEF Flow, Resolve
  <2> QED  BY <2>1 DEF Apply
<1>10. ASSUME NEW t \in Tasks, Apply4(t) PROVE FlowTyped'
  <2>1. TasksOK'  BY <1>10, Apply4Move
  <2>2. StoreOK'
    <3>1. Apply(slot["v4"], task[t].configs, task[t].v4) \in [FlowIds -> SUBSET FlowOwners]
      BY <1>a DEF FlowTyped, TasksOK, FlowTask, StoreOK, Families
    <3> QED  BY <1>10, <3>1 DEF Apply4, FlowTyped, StoreOK, database, maps
  <2>3. CountsOK'  BY <1>10 DEF Apply4, FlowTyped, CountsOK, channels, database
  <2>4. FlagsOK'  BY <1>10 DEF Apply4, FlowTyped, FlagsOK, channels
  <2> QED  BY <2>1, <2>2, <2>3, <2>4 DEF FlowTyped
<1>11. ASSUME NEW t \in Tasks, Apply6(t) PROVE FlowTyped'
  <2>1. TasksOK'
    <3>1. t # "devices"  BY <1>11 DEF Apply6, FlowTyped, TasksOK, TaskOK, PcsOf
    <3> QED  BY <1>11, <3>1, FinishMove DEF Apply6
  <2>2. StoreOK'
    <3>1. Apply(slot["v6"], task[t].configs, task[t].v6) \in [FlowIds -> SUBSET FlowOwners]
      BY <1>a DEF FlowTyped, TasksOK, FlowTask, StoreOK, Families
    <3> QED  BY <1>11, <3>1 DEF Apply6, FlowTyped, StoreOK, database, maps
  <2>3. CountsOK'  BY <1>11 DEF Apply6, FlowTyped, CountsOK, channels, database
  <2>4. FlagsOK'  BY <1>11 DEF Apply6, FlowTyped, FlagsOK, channels
  <2> QED  BY <2>1, <2>2, <2>3, <2>4 DEF FlowTyped
<1>12. ASSUME NEW t \in Tasks, ClearSlots(t) PROVE FlowTyped'
  <2>1. TasksOK'  BY <1>12, ClearMove
  <2>2. StoreOK'
    <3>1. slot' \in [Families -> [FlowIds -> SUBSET FlowOwners]]  BY <1>12 DEF ClearSlots, FlowTyped, StoreOK
    <3> QED  BY <1>12, <3>1 DEF ClearSlots, FlowTyped, StoreOK, database
  <2>3. CountsOK'  BY <1>12 DEF ClearSlots, FlowTyped, CountsOK, channels, database
  <2>4. FlagsOK'  BY <1>12 DEF ClearSlots, FlowTyped, FlagsOK, channels
  <2> QED  BY <2>1, <2>2, <2>3, <2>4 DEF FlowTyped
<1>13. ASSUME NEW f \in Families, NEW s \in SUBSET FlowOwners, SetRoutes(f, s) PROVE FlowTyped'
  <2>1. TasksOK'  BY <1>13 DEF SetRoutes, FlowTyped, TasksOK
  <2>2. StoreOK'  BY <1>13 DEF SetRoutes, FlowTyped, StoreOK, maps
  <2>3. CountsOK'  BY <1>13, FlowConstants DEF SetRoutes, FlowTyped, CountsOK
  <2>4. FlagsOK'  BY <1>13 DEF SetRoutes, FlowTyped, FlagsOK
  <2> QED  BY <2>1, <2>2, <2>3, <2>4 DEF FlowTyped
<1>14. ASSUME SendRouteEvent PROVE FlowTyped'
  <2>1. TasksOK'  BY <1>14 DEF SendRouteEvent, FlowTyped, TasksOK
  <2>2. StoreOK'  BY <1>14 DEF SendRouteEvent, FlowTyped, StoreOK, maps, database
  <2>3. CountsOK'  BY <1>14, FlowConstants DEF SendRouteEvent, FlowTyped, CountsOK, database
  <2>4. FlagsOK'
    <3>1. lag' \in BOOLEAN  BY <1>14 DEF SendRouteEvent, FlowTyped, FlagsOK
    <3> QED  BY <1>14, <3>1 DEF SendRouteEvent, FlowTyped, FlagsOK
  <2> QED  BY <2>1, <2>2, <2>3, <2>4 DEF FlowTyped
<1>15. ASSUME RouteEvent PROVE FlowTyped'
  <2>1. TasksOK'  BY <1>15, EventMove
  <2>2. StoreOK'  BY <1>15 DEF RouteEvent, FlowTyped, StoreOK, maps, database
  <2>3. CountsOK'
    <3>1. lag \/ unread > 0  BY <1>15 DEF RouteEvent
    <3>2. unread' \in 0 .. EventRoom
      <4>1. CASE lag  BY <1>15, <4>1 DEF RouteEvent, FlowTyped, CountsOK
      <4>2. CASE ~lag
        <5>1. unread' = unread - 1 /\ unread > 0  BY <1>15, <4>2 DEF RouteEvent
        <5> QED  BY <5>1, FlowConstants DEF FlowTyped, CountsOK
      <4> QED  BY <4>1, <4>2
    <3> QED  BY <1>15, <3>2 DEF RouteEvent, FlowTyped, CountsOK, database
  <2>4. FlagsOK'  BY <1>15 DEF RouteEvent, FlowTyped, FlagsOK
  <2> QED  BY <2>1, <2>2, <2>3, <2>4 DEF FlowTyped
<1>16. ASSUME ChangeDevices PROVE FlowTyped'
  <2>1. TasksOK'  BY <1>16 DEF ChangeDevices, FlowTyped, TasksOK
  <2>2. StoreOK'  BY <1>16 DEF ChangeDevices, FlowTyped, StoreOK, maps
  <2>3. CountsOK'  BY <1>16, FlowConstants DEF ChangeDevices, FlowTyped, CountsOK
  <2>4. FlagsOK'
    <3>1. devLost' \in BOOLEAN  BY <1>16 DEF ChangeDevices, FlowTyped, FlagsOK
    <3> QED  BY <1>16, <3>1 DEF ChangeDevices, FlowTyped, FlagsOK
  <2> QED  BY <2>1, <2>2, <2>3, <2>4 DEF FlowTyped
<1>17. ASSUME DeviceEvent PROVE FlowTyped'
  <2>1. TasksOK'  BY <1>17, EventMove
  <2>2. StoreOK'  BY <1>17 DEF DeviceEvent, FlowTyped, StoreOK, maps, database
  <2>3. CountsOK'  BY <1>17, FlowConstants DEF DeviceEvent, FlowTyped, CountsOK, database
  <2>4. FlagsOK'  BY <1>17 DEF DeviceEvent, FlowTyped, FlagsOK
  <2> QED  BY <2>1, <2>2, <2>3, <2>4 DEF FlowTyped
<1>18. ASSUME UNCHANGED flowVars PROVE FlowTyped'
  BY <1>18 DEF flowVars, FlowTyped, TasksOK, StoreOK, CountsOK, FlagsOK
<1> QED
  BY <1>1, <1>2, <1>3, <1>4, <1>5, <1>6, <1>7, <1>8, <1>9, <1>10, <1>11, <1>12, <1>13, <1>14, <1>15, <1>16, <1>17, <1>18
  DEF FlowNext, TaskStep

(***************************************************************************)
(* The slots.                                                              *)
(***************************************************************************)
\* A task that neither copies routes nor writes slots.
Quiet(u) ==
  \/ task[u].configs = {} /\ task'[u].configs = {}
  \/ /\ task'[u].configs = task[u].configs /\ task'[u].v4 = task[u].v4 /\ task'[u].v6 = task[u].v6
     /\ \/ task'[u].pc = task[u].pc
        \/ u # "routes" /\ task[u].pc \in {"mlist", "mapply", "clone4"} /\ task'[u].pc \in {"mlist", "mapply", "clone4"}
        \/ task[u].pc \in Clearers /\ task'[u].pc \in Clearers

LEMMA FlowQuiet ==
  ASSUME UNCHANGED << flowRow, flowRoute, slot, tainted >>, HeldAsStored, \A u \in Tasks : Quiet(u)
  PROVE  /\ HeldAsStored'
         /\ (Pending => Pending') /\ StaleTold /\ SlotsTold => StaleTold' /\ SlotsTold'
<1>1. \A i : At(Stored, i)' = At(Stored, i)  BY DEF Stored
<1>2. \A u \in Tasks, i \in FlowIds : (Holds(u, i)' <=> Holds(u, i)) /\ (Holds(u, i) => Steady(u, i))
  BY DEF Quiet, Steady, Holds, IdsOf
<1>3. HeldAsStored'
  <2> SUFFICES ASSUME NEW u \in Tasks, NEW i \in FlowIds \ tainted PROVE HeldIs(u, i)'  BY DEF HeldAsStored
  <2>1. HeldIs(u, i)  BY DEF HeldAsStored
  <2>2. At(Stored, i)' = At(Stored, i) /\ (Holds(u, i)' => Holds(u, i) /\ Steady(u, i))  BY <1>1, <1>2
  <2> QED  BY <2>1, <2>2, HeldFrame
<1>4. ASSUME Pending => Pending', StaleTold, SlotsTold, NEW i \in FlowIds \ tainted PROVE StaleIs(i)' /\ SlotIs(i)'
  <2>1. StaleIs(i) /\ SlotIs(i)  BY <1>4 DEF StaleTold, SlotsTold
  <2>2. StaleIs(i)'
    <3>1. \A u \in Tasks : Holds(u, i)' => Holds(u, i) /\ Steady(u, i)  BY <1>2
    <3>2. Holds("routes", i) => Holds("routes", i)' /\ Steady("routes", i)  BY <1>2, FlowNames
    <3> QED  BY <1>4, <2>1, <3>1, <3>2, StaleFrame
  <2>3. SlotIs(i)'
    <3>1. \A u \in Tasks : Holds(u, i) => Holds(u, i)' /\ Steady(u, i)  BY <1>2
    <3>2. \A f \in Families : slot'[f][i] = slot[f][i]  OBVIOUS
    <3>3. At(Stored, i)' = At(Stored, i)  BY <1>1
    <3> QED  BY <1>4, <2>1, <3>1, <3>2, <3>3, SlotFrame
  <2> QED  BY <2>2, <2>3
<1> QED  BY <1>3, <1>4 DEF StaleTold, SlotsTold

FlowTold == HeldAsStored /\ (~failed => StaleTold /\ SlotsTold)

LEMMA ToldQuiet ==
  ASSUME UNCHANGED << flowRow, flowRoute, slot, tainted >>, FlowTold, \A u \in Tasks : Quiet(u),
         failed' \/ (failed' = failed /\ (Pending => Pending'))
  PROVE  FlowTold'
BY FlowQuiet DEF FlowTold

\* The steps of the match map and of the channels are quiet.
LEMMA QuietSteps ==
  ASSUME FlowTyped, FlowTold
  PROVE  /\ \A t \in Tasks : ReadMatches(t) \/ WriteMatches(t) \/ ReadMatchesFails(t) => FlowTold'
         /\ ListFlowsFails \/ RouteEvent \/ DeviceEvent \/ SendRouteEvent \/ ChangeDevices \/ UNCHANGED flowVars
              => FlowTold'
<1>1. ASSUME NEW t \in Tasks, ReadMatches(t) PROVE FlowTold'
  <2>1. Quiet(t) /\ \A u \in Tasks \ {t} : task'[u] = task[u]
    BY <1>1, ReadMove, ZenonT(60) DEF ReadMatches, ListPcs, ApplyOf, Quiet, Clearers, FlowTyped, TasksOK, TaskOK, PcsOf, Writers
  <2>2. \A u \in Tasks : Quiet(u)  BY <2>1 DEF Quiet
  <2>3. Pending => Pending'
    <3>1. CASE t = "routes"  BY <1>1, <3>1, ReadMove DEF Pending, ReadMatches, ListPcs, ApplyOf, channels, FlowTyped, TasksOK, TaskOK, PcsOf, Writers
    <3>2. CASE t # "routes"  BY <1>1, <2>1, <3>2, FlowNames DEF Pending, ReadMatches, channels
    <3> QED  BY <3>1, <3>2
  <2> QED  BY <1>1, <2>2, <2>3, ToldQuiet DEF ReadMatches, database, maps
<1>2. ASSUME NEW t \in Tasks, WriteMatches(t) PROVE FlowTold'
  <2>1. task[t].pc \in ListPcs \cup Matching  BY <1>2 DEF WriteMatches, Matching
  <2>2. Quiet(t) /\ \A u \in Tasks \ {t} : task'[u] = task[u]
    BY <1>2, <2>1, WriteMove, AfterMatchIs, ZenonT(60) DEF Quiet, Clearers
  <2>3. \A u \in Tasks : Quiet(u)  BY <2>2 DEF Quiet
  <2>4. Pending => Pending'
    <3>1. CASE t = "routes"  BY <1>2, <2>1, <3>1, WriteMove, AfterMatchIs DEF Pending
    <3>2. CASE t # "routes"  BY <1>2, <2>2, <3>2, FlowNames DEF Pending, WriteMatches, channels
    <3> QED  BY <3>1, <3>2
  <2> QED  BY <1>2, <2>3, <2>4, ToldQuiet DEF WriteMatches, database, maps
<1>3. ASSUME NEW t \in Tasks, ReadMatchesFails(t) PROVE FlowTold'
  <2>1. task[t].pc \in ListPcs \cup Matching  BY <1>3 DEF ReadMatchesFails
  <2>2. Quiet(t) /\ \A u \in Tasks \ {t} : task'[u] = task[u]
    BY <1>3, <2>1, FailMove, AfterMatchIs, ZenonT(60) DEF Quiet, Clearers
  <2>3. \A u \in Tasks : Quiet(u)  BY <2>2 DEF Quiet
  <2> QED  BY <1>3, <2>3, ToldQuiet DEF ReadMatchesFails, database, maps
<1>4. ASSUME ListFlowsFails PROVE FlowTold'
  <2>1. task["routes"].configs = {} /\ Idle.configs = {}
    BY <1>4, FlowNames DEF ListFlowsFails, FlowTyped, TasksOK, TaskOK, Writers, Clearers, Idle
  <2>2. task'["routes"] = Idle /\ \A u \in Tasks \ {"routes"} : task'[u] = task[u] \/ (task[u].configs = {} /\ task'[u] = Idle)
    BY <1>4, FinishMove, FlowNames DEF ListFlowsFails
  <2>3. \A u \in Tasks : Quiet(u)  BY <2>1, <2>2 DEF Quiet
  <2> QED  BY <1>4, <2>3, ToldQuiet DEF ListFlowsFails, database, maps
<1>5. ASSUME RouteEvent PROVE FlowTold'
  <2>1. \A u \in Tasks : Quiet(u)  BY <1>5, EventMove DEF Quiet
  <2>2. Pending'  BY <1>5, EventMove DEF Pending
  <2> QED  BY <1>5, <2>1, <2>2, ToldQuiet DEF RouteEvent, database, maps
<1>6. ASSUME DeviceEvent PROVE FlowTold'
  <2>1. \A u \in Tasks : Quiet(u)  BY <1>6, EventMove DEF Quiet
  <2>2. Pending => Pending'  BY <1>6, EventMove, FlowNames DEF Pending, DeviceEvent
  <2> QED  BY <1>6, <2>1, <2>2, ToldQuiet DEF DeviceEvent, database, maps
<1>7. ASSUME SendRouteEvent PROVE FlowTold'
  <2>1. \A u \in Tasks : Quiet(u)  BY <1>7 DEF Quiet, SendRouteEvent
  <2>2. Pending'
    <3>1. unread = EventRoom \/ unread' > 0  BY <1>7, FlowConstants DEF SendRouteEvent, FlowTyped, CountsOK
    <3>2. unread = EventRoom => lag'  BY <1>7 DEF SendRouteEvent
    <3> QED  BY <3>1, <3>2 DEF Pending
  <2> QED  BY <1>7, <2>1, <2>2, ToldQuiet DEF SendRouteEvent, database, maps
<1>8. ASSUME ChangeDevices PROVE FlowTold'
  <2>1. \A u \in Tasks : Quiet(u)  BY <1>8 DEF Quiet, ChangeDevices
  <2>2. Pending => Pending'  BY <1>8 DEF Pending, ChangeDevices
  <2> QED  BY <1>8, <2>1, <2>2, ToldQuiet DEF ChangeDevices, maps
<1>9. ASSUME UNCHANGED flowVars PROVE FlowTold'
  <2>1. \A u \in Tasks : Quiet(u)  BY <1>9 DEF Quiet, flowVars
  <2>2. Pending => Pending'  BY <1>9 DEF Pending, flowVars
  <2> QED  BY <1>9, <2>1, <2>2, ToldQuiet DEF flowVars
<1> QED  BY <1>1, <1>2, <1>3, <1>4, <1>5, <1>6, <1>7, <1>8, <1>9

\* Two tasks do not copy the routes of one flow at once without it being recorded,
\* so a task that copies them again comes after every older copy is written.
LEMMA Clone4Told ==
  ASSUME FlowTyped, FlowTold, NEW t \in Tasks, Clone4(t)
  PROVE  FlowTold'
<1>1. /\ \A u \in Tasks \ {t} : task'[u] = task[u]
      /\ task'[t].pc = "clone6" /\ task'[t].configs = task[t].configs
      /\ task'[t].v4 = flowRoute["v4"] /\ task'[t].v6 = task[t].v6 /\ task[t].pc = "clone4"
  BY Clone4Move DEF Clone4
<1>2. /\ flowRow' = flowRow /\ flowRoute' = flowRoute /\ slot' = slot /\ failed' = failed
      /\ owed' = owed /\ unread' = unread /\ lag' = lag
      /\ tainted' = tainted \cup Cloned(t, IdsOf(task[t].configs))
  BY DEF Clone4, database, maps, channels
<1>3. \A i : At(Stored, i)' = At(Stored, i)  BY <1>2 DEF Stored
<1>4. \A u \in Tasks, i \in FlowIds : Holds(u, i)' <=> Holds(u, i)  BY <1>1 DEF Holds
<1>5. Pending => Pending'
  BY <1>1, <1>2, FlowNames DEF Pending
<1>6. HeldAsStored'
  <2> SUFFICES ASSUME NEW u \in Tasks, NEW i \in FlowIds \ tainted PROVE HeldIs(u, i)'  BY <1>2 DEF HeldAsStored
  <2>1. HeldIs(u, i)  BY DEF HeldAsStored, FlowTold
  <2>2. task'[u].configs = task[u].configs /\ (task'[u].pc = task[u].pc \/ (task[u].pc = "clone4" /\ task'[u].pc = "clone6"))
    <3>1. CASE u = t  BY <1>1, <3>1
    <3>2. CASE u # t  BY <1>1, <3>2
    <3> QED  BY <3>1, <3>2
  <2> QED  BY <1>3, <1>4, <2>1, <2>2 DEF HeldIs, Writers, Clearers
<1>7. ASSUME ~failed, NEW i \in FlowIds \ tainted' PROVE StaleIs(i)'
  <2>1. StaleIs(i)  BY <1>2, <1>7 DEF FlowTold, StaleTold
  <2> SUFFICES ASSUME NEW u \in Tasks, NEW f \in Families, Holds(u, i)', Unwritten(u, f)', CopyOf(u, f)' # flowRoute'[f]
               PROVE  Pending' \/ (task'["routes"].pc = "clone4" /\ Holds("routes", i)')
    BY DEF StaleIs
  <2>2. u # t  BY <1>1, <1>2 DEF Unwritten, CopyOf, Families
  <2>3. Holds(u, i) /\ Unwritten(u, f) /\ CopyOf(u, f) # flowRoute[f]
    BY <1>1, <1>2, <1>4, <2>2 DEF Unwritten, CopyOf
  <2>4. Pending \/ (task["routes"].pc = "clone4" /\ Holds("routes", i))  BY <2>1, <2>3 DEF StaleIs
  <2>5. t # "routes" \/ ~Holds("routes", i)
    <3> SUFFICES ASSUME t = "routes", Holds("routes", i) PROVE FALSE  OBVIOUS
    <3>1. task[u].pc \in {"clone6", "apply4", "apply6"}  BY <2>3 DEF Unwritten
    <3>2. i \in Cloned(t, IdsOf(task[t].configs))  BY <2>2, <2>3, <3>1 DEF Cloned, Holds
    <3> QED  BY <1>2, <1>7, <3>2
  <2> QED  BY <1>1, <1>4, <1>5, <2>4, <2>5, FlowNames
<1>8. ASSUME ~failed, NEW i \in FlowIds \ tainted' PROVE SlotIs(i)'
  <2>1. SlotIs(i)  BY <1>2, <1>8 DEF FlowTold, SlotsTold
  <2> SUFFICES ASSUME NEW f \in Families
               PROVE  \/ slot'[f][i] = Want(f, i)'
                      \/ \E u \in Tasks : WillWrite(u, f, i)' \/ WillClear(u, i)'
                      \/ Pending' /\ At(Stored, i)' # {}
    BY DEF SlotIs
  <2>2. Want(f, i)' = Want(f, i)  BY <1>2, <1>3 DEF Want
  <2>3. ASSUME NEW u \in Tasks, WillWrite(u, f, i) PROVE WillWrite(u, f, i)'
    <3>1. CASE u = t  BY <1>1, <1>2, <1>4, <2>3, <3>1 DEF WillWrite, Unwritten, CopyOf, Families
    <3>2. CASE u # t  BY <1>1, <1>2, <1>4, <2>3, <3>2 DEF WillWrite, Unwritten, CopyOf
    <3> QED  BY <3>1, <3>2
  <2>4. ASSUME NEW u \in Tasks, WillClear(u, i) PROVE WillClear(u, i)'
    BY <1>1, <1>4, <2>4 DEF WillClear, Clearers
  <2> QED  BY <1>2, <1>3, <1>5, <2>1, <2>2, <2>3, <2>4 DEF SlotIs
<1> QED  BY <1>2, <1>6, <1>7, <1>8 DEF FlowTold, StaleTold, SlotsTold

LEMMA Clone6Told ==
  ASSUME FlowTyped, FlowTold, NEW t \in Tasks, Clone6(t)
  PROVE  FlowTold'
<1>1. /\ \A u \in Tasks \ {t} : task'[u] = task[u]
      /\ task'[t].pc = "apply4" /\ task'[t].configs = task[t].configs
      /\ task'[t].v4 = task[t].v4 /\ task'[t].v6 = flowRoute["v6"] /\ task[t].pc = "clone6"
  BY Clone6Move DEF Clone6
<1>2. /\ flowRow' = flowRow /\ flowRoute' = flowRoute /\ slot' = slot /\ failed' = failed
      /\ owed' = owed /\ unread' = unread /\ lag' = lag /\ tainted' = tainted
  BY DEF Clone6, database, maps, channels
<1>3. \A i : At(Stored, i)' = At(Stored, i)  BY <1>2 DEF Stored
<1>4. \A u \in Tasks, i \in FlowIds : Holds(u, i)' <=> Holds(u, i)  BY <1>1 DEF Holds
<1>5. Pending => Pending'
  BY <1>1, <1>2, FlowNames DEF Pending
<1>6. HeldAsStored'
  <2> SUFFICES ASSUME NEW u \in Tasks, NEW i \in FlowIds \ tainted PROVE HeldIs(u, i)'  BY <1>2 DEF HeldAsStored
  <2>1. HeldIs(u, i)  BY DEF HeldAsStored, FlowTold
  <2>2. task'[u].configs = task[u].configs /\ (task'[u].pc = task[u].pc \/ (task[u].pc = "clone6" /\ task'[u].pc = "apply4"))
    <3>1. CASE u = t  BY <1>1, <3>1
    <3>2. CASE u # t  BY <1>1, <3>2
    <3> QED  BY <3>1, <3>2
  <2> QED  BY <1>3, <1>4, <2>1, <2>2 DEF HeldIs, Writers, Clearers
<1>7. ASSUME ~failed, NEW i \in FlowIds \ tainted PROVE StaleIs(i)'
  <2>1. StaleIs(i)  BY <1>2, <1>7 DEF FlowTold, StaleTold
  <2> SUFFICES ASSUME NEW u \in Tasks, NEW f \in Families, Holds(u, i)', Unwritten(u, f)', CopyOf(u, f)' # flowRoute'[f]
               PROVE  Pending' \/ (task'["routes"].pc = "clone4" /\ Holds("routes", i)')
    BY DEF StaleIs
  <2>3. Holds(u, i) /\ Unwritten(u, f) /\ CopyOf(u, f) # flowRoute[f]
    <3>1. CASE u = t  BY <1>1, <1>2, <1>4, <3>1 DEF Unwritten, CopyOf, Families
    <3>2. CASE u # t  BY <1>1, <1>2, <1>4, <3>2 DEF Unwritten, CopyOf
    <3> QED  BY <3>1, <3>2
  <2>4. Pending \/ (task["routes"].pc = "clone4" /\ Holds("routes", i))  BY <2>1, <2>3 DEF StaleIs
  <2> QED  BY <1>1, <1>4, <1>5, <2>4, FlowNames
<1>8. ASSUME ~failed, NEW i \in FlowIds \ tainted PROVE SlotIs(i)'
  <2>1. SlotIs(i)  BY <1>2, <1>8 DEF FlowTold, SlotsTold
  <2> SUFFICES ASSUME NEW f \in Families
               PROVE  \/ slot'[f][i] = Want(f, i)'
                      \/ \E u \in Tasks : WillWrite(u, f, i)' \/ WillClear(u, i)'
                      \/ Pending' /\ At(Stored, i)' # {}
    BY DEF SlotIs
  <2>2. Want(f, i)' = Want(f, i)  BY <1>2, <1>3 DEF Want
  <2>3. ASSUME NEW u \in Tasks, WillWrite(u, f, i) PROVE WillWrite(u, f, i)'
    <3>1. CASE u = t  BY <1>1, <1>2, <1>4, <2>3, <3>1 DEF WillWrite, Unwritten, CopyOf, Families
    <3>2. CASE u # t  BY <1>1, <1>2, <1>4, <2>3, <3>2 DEF WillWrite, Unwritten, CopyOf
    <3> QED  BY <3>1, <3>2
  <2>4. ASSUME NEW u \in Tasks, WillClear(u, i) PROVE WillClear(u, i)'
    BY <1>1, <1>4, <2>4 DEF WillClear, Clearers
  <2> QED  BY <1>2, <1>3, <1>5, <2>1, <2>2, <2>3, <2>4 DEF SlotIs
<1> QED  BY <1>2, <1>6, <1>7, <1>8 DEF FlowTold, StaleTold, SlotsTold

LEMMA ApplyAt ==
  ASSUME NEW table, NEW cs, NEW have, NEW i \in FlowIds
  PROVE  /\ i \in IdsOf(cs) => Apply(table, cs, have)[i] = UNION {Resolve(c, have) : c \in At(cs, i)}
         /\ i \notin IdsOf(cs) => Apply(table, cs, have)[i] = table[i]
BY DEF Apply, At

\* A writer either writes what is wanted or is followed by the observer.
LEMMA Apply4Told ==
  ASSUME FlowTyped, FlowTold, NEW t \in Tasks, Apply4(t)
  PROVE  FlowTold'
<1>1. /\ \A u \in Tasks \ {t} : task'[u] = task[u]
      /\ task'[t].pc = "apply6" /\ task'[t].configs = task[t].configs
      /\ task'[t].v4 = task[t].v4 /\ task'[t].v6 = task[t].v6 /\ task[t].pc = "apply4"
  BY Apply4Move DEF Apply4
<1>2. /\ flowRow' = flowRow /\ flowRoute' = flowRoute /\ failed' = failed
      /\ owed' = owed /\ unread' = unread /\ lag' = lag /\ tainted' = tainted
      /\ slot' = [slot EXCEPT !["v4"] = Apply(slot["v4"], task[t].configs, task[t].v4)]
  BY DEF Apply4, database, channels
<1>3. \A i : At(Stored, i)' = At(Stored, i)  BY <1>2 DEF Stored
<1>4. \A u \in Tasks, i \in FlowIds : Holds(u, i)' <=> Holds(u, i)  BY <1>1 DEF Holds
<1>5. Pending => Pending'
  BY <1>1, <1>2, FlowNames DEF Pending
<1>s. slot'["v4"] = Apply(slot["v4"], task[t].configs, task[t].v4) /\ slot'["v6"] = slot["v6"]
  BY <1>2 DEF FlowTyped, StoreOK, Families
<1>6. HeldAsStored'
  <2> SUFFICES ASSUME NEW u \in Tasks, NEW i \in FlowIds \ tainted PROVE HeldIs(u, i)'  BY <1>2 DEF HeldAsStored
  <2>1. HeldIs(u, i)  BY DEF HeldAsStored, FlowTold
  <2>2. task'[u].configs = task[u].configs /\ (task'[u].pc = task[u].pc \/ (task[u].pc = "apply4" /\ task'[u].pc = "apply6"))
    <3>1. CASE u = t  BY <1>1, <3>1
    <3>2. CASE u # t  BY <1>1, <3>2
    <3> QED  BY <3>1, <3>2
  <2> QED  BY <1>3, <1>4, <2>1, <2>2 DEF HeldIs, Writers, Clearers
<1>7. ASSUME ~failed, NEW i \in FlowIds \ tainted PROVE StaleIs(i)'
  <2>1. StaleIs(i)  BY <1>2, <1>7 DEF FlowTold, StaleTold
  <2> SUFFICES ASSUME NEW u \in Tasks, NEW f \in Families, Holds(u, i)', Unwritten(u, f)', CopyOf(u, f)' # flowRoute'[f]
               PROVE  Pending' \/ (task'["routes"].pc = "clone4" /\ Holds("routes", i)')
    BY DEF StaleIs
  <2>3. Holds(u, i) /\ Unwritten(u, f) /\ CopyOf(u, f) # flowRoute[f]
    <3>1. CASE u = t  BY <1>1, <1>2, <1>4, <3>1 DEF Unwritten, CopyOf, Families
    <3>2. CASE u # t  BY <1>1, <1>2, <1>4, <3>2 DEF Unwritten, CopyOf
    <3> QED  BY <3>1, <3>2
  <2>4. Pending \/ (task["routes"].pc = "clone4" /\ Holds("routes", i))  BY <2>1, <2>3 DEF StaleIs
  <2> QED  BY <1>1, <1>4, <1>5, <2>4, FlowNames
<1>8. ASSUME ~failed, NEW i \in FlowIds \ tainted PROVE SlotIs(i)'
  <2>1. SlotIs(i) /\ StaleIs(i) /\ HeldIs(t, i)  BY <1>2, <1>8 DEF FlowTold, SlotsTold, StaleTold, HeldAsStored
  <2> SUFFICES ASSUME NEW f \in Families
               PROVE  \/ slot'[f][i] = Want(f, i)'
                      \/ \E u \in Tasks : WillWrite(u, f, i)' \/ WillClear(u, i)'
                      \/ Pending' /\ At(Stored, i)' # {}
    BY DEF SlotIs
  <2>2. Want(f, i)' = Want(f, i)  BY <1>2, <1>3 DEF Want
  <2>4. ASSUME NEW u \in Tasks, WillClear(u, i) PROVE WillClear(u, i)'
    BY <1>1, <1>4, <2>4 DEF WillClear, Clearers
  <2>5. ASSUME NEW u \in Tasks \ {t}, WillWrite(u, f, i) PROVE WillWrite(u, f, i)'
    BY <1>1, <1>2, <1>4, <2>5 DEF WillWrite, Unwritten, CopyOf
  <2>6. CASE f = "v4" /\ Holds(t, i)
    <3>1. At(task[t].configs, i) = At(Stored, i) /\ At(Stored, i) # {}
      BY <1>1, <2>1, <2>6, HoldsAt DEF HeldIs, Clearers
    <3>2. slot'[f][i] = UNION {Resolve(c, task[t].v4) : c \in At(Stored, i)}
      BY <1>s, <2>6, <3>1, ApplyAt DEF Holds
    <3>3. CASE task[t].v4 = flowRoute["v4"]  BY <2>2, <2>6, <3>2, <3>3 DEF Want
    <3>4. CASE task[t].v4 # flowRoute["v4"]
      <4>1. Pending \/ (task["routes"].pc = "clone4" /\ Holds("routes", i))
        BY <1>1, <2>1, <2>6, <3>4 DEF StaleIs, Unwritten, CopyOf, Families
      <4>2. CASE Pending  BY <1>3, <1>5, <3>1, <4>2
      <4>3. CASE task["routes"].pc = "clone4" /\ Holds("routes", i)
        <5>1. "routes" \in Tasks \ {t}  BY <1>1, <4>3, FlowNames
        <5> QED  BY <2>5, <4>3, <5>1 DEF WillWrite
      <4> QED  BY <4>1, <4>2, <4>3
    <3> QED  BY <3>3, <3>4
  <2>7. CASE f = "v4" /\ ~Holds(t, i)
    <3>1. slot'[f][i] = slot[f][i]  BY <1>s, <2>7, ApplyAt DEF Holds
    <3>2. ~WillWrite(t, f, i)  BY <2>7 DEF WillWrite
    <3> QED  BY <1>3, <1>5, <2>1, <2>2, <2>4, <2>5, <3>1, <3>2 DEF SlotIs
  <2>8. CASE f = "v6"
    <3>1. slot'[f][i] = slot[f][i]  BY <1>s, <2>8
    <3>2. WillWrite(t, f, i) => WillWrite(t, f, i)'  BY <1>1, <1>2, <1>4, <2>8 DEF WillWrite, Unwritten, CopyOf
    <3> QED  BY <1>3, <1>5, <2>1, <2>2, <2>4, <2>5, <3>1, <3>2 DEF SlotIs
  <2> QED  BY <2>6, <2>7, <2>8 DEF Families
<1> QED  BY <1>2, <1>6, <1>7, <1>8 DEF FlowTold, StaleTold, SlotsTold

LEMMA Apply6Told ==
  ASSUME FlowTyped, FlowTold, NEW t \in Tasks, Apply6(t)
  PROVE  FlowTold'
<1>0. t # "devices" /\ task[t].pc = "apply6"  BY DEF Apply6, FlowTyped, TasksOK, TaskOK, PcsOf
<1>1. /\ task'[t].pc = "idle" /\ task'[t].configs = {}
      /\ \A u \in Tasks \ {t} :
           \/ task'[u] = task[u]
           \/ task[u].pc = "off" /\ task[u].configs = {} /\ task'[u].pc = "idle" /\ task'[u].configs = {} /\ u # "routes"
  BY <1>0, FinishMove DEF Apply6, Idle
<1>2. /\ flowRow' = flowRow /\ flowRoute' = flowRoute /\ failed' = failed
      /\ owed' = owed /\ unread' = unread /\ lag' = lag /\ tainted' = tainted
      /\ slot' = [slot EXCEPT !["v6"] = Apply(slot["v6"], task[t].configs, task[t].v6)]
  BY DEF Apply6, database, channels
<1>3. \A i : At(Stored, i)' = At(Stored, i)  BY <1>2 DEF Stored
<1>4. \A u \in Tasks \ {t}, i \in FlowIds :
        (Holds(u, i)' <=> Holds(u, i)) /\ (Holds(u, i) => task'[u] = task[u])
  BY <1>1 DEF Holds, IdsOf
<1>t. \A i \in FlowIds : ~Holds(t, i)'  BY <1>1 DEF Holds, IdsOf
<1>5. Pending => Pending'
  BY <1>0, <1>1, <1>2, FlowNames DEF Pending
<1>s. slot'["v6"] = Apply(slot["v6"], task[t].configs, task[t].v6) /\ slot'["v4"] = slot["v4"]
  BY <1>2 DEF FlowTyped, StoreOK, Families
<1>6. HeldAsStored'
  <2> SUFFICES ASSUME NEW u \in Tasks, NEW i \in FlowIds \ tainted, Holds(u, i)' PROVE HeldIs(u, i)'
    BY <1>2 DEF HeldAsStored, HeldIs
  <2>1. HeldIs(u, i) /\ Holds(u, i) /\ task'[u] = task[u]  BY <1>4, <1>t DEF HeldAsStored, FlowTold
  <2> QED  BY <1>3, <2>1 DEF HeldIs
<1>7. ASSUME ~failed, NEW i \in FlowIds \ tainted PROVE StaleIs(i)'
  <2>1. StaleIs(i)  BY <1>2, <1>7 DEF FlowTold, StaleTold
  <2> SUFFICES ASSUME NEW u \in Tasks, NEW f \in Families, Holds(u, i)', Unwritten(u, f)', CopyOf(u, f)' # flowRoute'[f]
               PROVE  Pending' \/ (task'["routes"].pc = "clone4" /\ Holds("routes", i)')
    BY DEF StaleIs
  <2>3. Holds(u, i) /\ Unwritten(u, f) /\ CopyOf(u, f) # flowRoute[f]
    BY <1>2, <1>4, <1>t DEF Unwritten, CopyOf
  <2>4. Pending \/ (task["routes"].pc = "clone4" /\ Holds("routes", i))  BY <2>1, <2>3 DEF StaleIs
  <2> QED  BY <1>0, <1>4, <1>5, <2>4, FlowNames
<1>8. ASSUME ~failed, NEW i \in FlowIds \ tainted PROVE SlotIs(i)'
  <2>1. SlotIs(i) /\ StaleIs(i) /\ HeldIs(t, i)  BY <1>2, <1>8 DEF FlowTold, SlotsTold, StaleTold, HeldAsStored
  <2> SUFFICES ASSUME NEW f \in Families
               PROVE  \/ slot'[f][i] = Want(f, i)'
                      \/ \E u \in Tasks : WillWrite(u, f, i)' \/ WillClear(u, i)'
                      \/ Pending' /\ At(Stored, i)' # {}
    BY DEF SlotIs
  <2>2. Want(f, i)' = Want(f, i)  BY <1>2, <1>3 DEF Want
  <2>4. ASSUME NEW u \in Tasks, WillClear(u, i) PROVE WillClear(u, i)'
    BY <1>0, <1>4, <2>4 DEF WillClear, Clearers
  <2>5. ASSUME NEW u \in Tasks \ {t}, WillWrite(u, f, i) PROVE WillWrite(u, f, i)'
    BY <1>2, <1>4, <2>5 DEF WillWrite, Unwritten, CopyOf
  <2>6. CASE f = "v6" /\ Holds(t, i)
    <3>1. At(task[t].configs, i) = At(Stored, i) /\ At(Stored, i) # {}
      BY <1>0, <2>1, <2>6, HoldsAt DEF HeldIs, Clearers
    <3>2. slot'[f][i] = UNION {Resolve(c, task[t].v6) : c \in At(Stored, i)}
      BY <1>s, <2>6, <3>1, ApplyAt DEF Holds
    <3>3. CASE task[t].v6 = flowRoute["v6"]  BY <2>2, <2>6, <3>2, <3>3 DEF Want
    <3>4. CASE task[t].v6 # flowRoute["v6"]
      <4>1. Pending \/ (task["routes"].pc = "clone4" /\ Holds("routes", i))
        BY <1>0, <2>1, <2>6, <3>4 DEF StaleIs, Unwritten, CopyOf, Families
      <4>2. CASE Pending  BY <1>3, <1>5, <3>1, <4>2
      <4>3. CASE task["routes"].pc = "clone4" /\ Holds("routes", i)
        <5>1. "routes" \in Tasks \ {t}  BY <1>0, <4>3, FlowNames
        <5> QED  BY <2>5, <4>3, <5>1 DEF WillWrite
      <4> QED  BY <4>1, <4>2, <4>3
    <3> QED  BY <3>3, <3>4
  <2>7. CASE f = "v6" /\ ~Holds(t, i)
    <3>1. slot'[f][i] = slot[f][i]  BY <1>s, <2>7, ApplyAt DEF Holds
    <3>2. ~WillWrite(t, f, i)  BY <2>7 DEF WillWrite
    <3> QED  BY <1>3, <1>5, <2>1, <2>2, <2>4, <2>5, <3>1, <3>2 DEF SlotIs
  <2>8. CASE f = "v4"
    <3>1. slot'[f][i] = slot[f][i]  BY <1>s, <2>8
    <3>2. ~WillWrite(t, f, i)  BY <1>0, <2>8 DEF WillWrite, Unwritten
    <3> QED  BY <1>3, <1>5, <2>1, <2>2, <2>4, <2>5, <3>1, <3>2 DEF SlotIs
  <2> QED  BY <2>6, <2>7, <2>8 DEF Families
<1> QED  BY <1>2, <1>6, <1>7, <1>8 DEF FlowTold, StaleTold, SlotsTold

LEMMA ClearTold ==
  ASSUME FlowTyped, FlowTold, NEW t \in Tasks, ClearSlots(t)
  PROVE  FlowTold'
<1>1. /\ task'[t].configs = {} /\ t # "routes" /\ task[t].pc = "clear"
      /\ \A u \in Tasks \ {t} : task'[u] = task[u]
  <2>1. Idle.configs = {}  BY DEF Idle
  <2>2. task[t].pc = "clear"  BY DEF ClearSlots
  <2> QED  BY ClearMove, <2>1, <2>2
<1>2. /\ flowRow' = flowRow /\ flowRoute' = flowRoute /\ failed' = failed
      /\ owed' = owed /\ unread' = unread /\ lag' = lag /\ tainted' = tainted
      /\ slot' = [f \in Families |-> [i \in FlowIds |-> IF i \in IdsOf(task[t].configs) THEN {} ELSE slot[f][i]]]
  BY DEF ClearSlots, database, channels
<1>3. \A i : At(Stored, i)' = At(Stored, i)  BY <1>2 DEF Stored
<1>4. \A u \in Tasks \ {t}, i \in FlowIds :
        (Holds(u, i)' <=> Holds(u, i)) /\ (Holds(u, i) => task'[u] = task[u])
  BY <1>1 DEF Holds, IdsOf
<1>t. \A i \in FlowIds : ~Holds(t, i)'  BY <1>1 DEF Holds, IdsOf
<1>5. Pending => Pending'
  BY <1>1, <1>2, FlowNames DEF Pending
<1>6. HeldAsStored'
  <2> SUFFICES ASSUME NEW u \in Tasks, NEW i \in FlowIds \ tainted, Holds(u, i)' PROVE HeldIs(u, i)'
    BY <1>2 DEF HeldAsStored, HeldIs
  <2>1. HeldIs(u, i) /\ Holds(u, i) /\ task'[u] = task[u]  BY <1>4, <1>t DEF HeldAsStored, FlowTold
  <2> QED  BY <1>3, <2>1 DEF HeldIs
<1>7. ASSUME ~failed, NEW i \in FlowIds \ tainted PROVE StaleIs(i)'
  <2>1. StaleIs(i)  BY <1>2, <1>7 DEF FlowTold, StaleTold
  <2> SUFFICES ASSUME NEW u \in Tasks, NEW f \in Families, Holds(u, i)', Unwritten(u, f)', CopyOf(u, f)' # flowRoute'[f]
               PROVE  Pending' \/ (task'["routes"].pc = "clone4" /\ Holds("routes", i)')
    BY DEF StaleIs
  <2>3. Holds(u, i) /\ Unwritten(u, f) /\ CopyOf(u, f) # flowRoute[f]
    BY <1>2, <1>4, <1>t DEF Unwritten, CopyOf
  <2>4. Pending \/ (task["routes"].pc = "clone4" /\ Holds("routes", i))  BY <2>1, <2>3 DEF StaleIs
  <2> QED  BY <1>1, <1>4, <1>5, <2>4, FlowNames
<1>8. ASSUME ~failed, NEW i \in FlowIds \ tainted PROVE SlotIs(i)'
  <2>1. SlotIs(i) /\ HeldIs(t, i)  BY <1>2, <1>8 DEF FlowTold, SlotsTold, HeldAsStored
  <2> SUFFICES ASSUME NEW f \in Families
               PROVE  \/ slot'[f][i] = Want(f, i)'
                      \/ \E u \in Tasks : WillWrite(u, f, i)' \/ WillClear(u, i)'
                      \/ Pending' /\ At(Stored, i)' # {}
    BY DEF SlotIs
  <2>2. Want(f, i)' = Want(f, i)  BY <1>2, <1>3 DEF Want
  <2>3. CASE Holds(t, i)
    <3>1. At(Stored, i) = {}  BY <1>1, <2>1, <2>3 DEF HeldIs, Writers
    <3>2. slot'[f][i] = {} /\ Want(f, i) = {}  BY <1>2, <2>3, <3>1 DEF Holds, Want
    <3> QED  BY <2>2, <3>2
  <2>4. CASE ~Holds(t, i)
    <3>1. slot'[f][i] = slot[f][i]  BY <1>2, <2>4 DEF Holds
    <3>2. ASSUME NEW u \in Tasks, WillClear(u, i) PROVE WillClear(u, i)'
      BY <1>4, <2>4, <3>2 DEF WillClear
    <3>3. ASSUME NEW u \in Tasks, WillWrite(u, f, i) PROVE WillWrite(u, f, i)'
      BY <1>2, <1>4, <2>4, <3>3 DEF WillWrite, Unwritten, CopyOf
    <3> QED  BY <1>3, <1>5, <2>1, <2>2, <3>1, <3>2, <3>3 DEF SlotIs
  <2> QED  BY <2>3, <2>4
<1> QED  BY <1>2, <1>6, <1>7, <1>8 DEF FlowTold, StaleTold, SlotsTold

\* The observer's list takes over what was pending.
LEMMA ListTold ==
  ASSUME FlowTyped, FlowTold, ListFlows
  PROVE  FlowTold'
<1>1. /\ \A u \in Tasks \ {"routes"} : task'[u] = task[u]
      /\ task'["routes"].pc = "clone4" /\ task'["routes"].configs = Stored /\ task["routes"].configs = {}
      /\ "routes" \in Tasks
  BY ListMove, FlowNames
<1>2. flowRow' = flowRow /\ flowRoute' = flowRoute /\ slot' = slot /\ failed' = failed /\ tainted' = tainted
  BY DEF ListFlows, database, maps, channels
<1>3. \A i : At(Stored, i)' = At(Stored, i)  BY <1>2 DEF Stored
<1>4. \A u \in Tasks \ {"routes"}, i \in FlowIds : Holds(u, i)' <=> Holds(u, i)  BY <1>1 DEF Holds
<1>5. \A i \in FlowIds : ~Holds("routes", i) /\ (Holds("routes", i)' <=> At(Stored, i) # {})
  BY <1>1, HoldsAtNext DEF Holds, IdsOf
<1>6. HeldAsStored'
  <2> SUFFICES ASSUME NEW u \in Tasks, NEW i \in FlowIds \ tainted PROVE HeldIs(u, i)'  BY <1>2 DEF HeldAsStored
  <2>1. HeldIs(u, i)  BY DEF HeldAsStored, FlowTold
  <2>2. CASE u = "routes"  BY <1>1, <1>3, <2>2 DEF HeldIs, Writers
  <2>3. CASE u # "routes"  BY <1>1, <1>3, <1>4, <2>1, <2>3 DEF HeldIs
  <2> QED  BY <2>2, <2>3
<1>7. ASSUME ~failed, NEW i \in FlowIds \ tainted PROVE StaleIs(i)'
  <2> SUFFICES ASSUME NEW u \in Tasks, NEW f \in Families, Holds(u, i)', Unwritten(u, f)', CopyOf(u, f)' # flowRoute'[f]
               PROVE  Holds("routes", i)'
    BY <1>1 DEF StaleIs
  <2>1. u # "routes" /\ HeldIs(u, i)  BY <1>1, <1>7 DEF Unwritten, FlowTold, HeldAsStored
  <2>2. Holds(u, i) /\ task[u].pc \notin Clearers
    BY <1>1, <1>4, <2>1 DEF Unwritten, Clearers
  <2>3. At(Stored, i) # {}  BY <2>1, <2>2, HoldsAt DEF HeldIs
  <2> QED  BY <1>5, <2>3
<1>8. ASSUME ~failed, NEW i \in FlowIds \ tainted PROVE SlotIs(i)'
  <2>1. SlotIs(i)  BY <1>2, <1>8 DEF FlowTold, SlotsTold
  <2> SUFFICES ASSUME NEW f \in Families
               PROVE  \/ slot'[f][i] = Want(f, i)'
                      \/ \E u \in Tasks : WillWrite(u, f, i)' \/ WillClear(u, i)'
                      \/ Pending' /\ At(Stored, i)' # {}
    BY DEF SlotIs
  <2>2. Want(f, i)' = Want(f, i)  BY <1>2, <1>3 DEF Want
  <2>3. ASSUME NEW u \in Tasks, WillWrite(u, f, i) PROVE WillWrite(u, f, i)'
    <3>1. u # "routes"  BY <1>5, <2>3 DEF WillWrite
    <3> QED  BY <1>1, <1>2, <1>4, <2>3, <3>1 DEF WillWrite, Unwritten, CopyOf
  <2>4. ASSUME NEW u \in Tasks, WillClear(u, i) PROVE WillClear(u, i)'
    <3>1. u # "routes"  BY <1>5, <2>4 DEF WillClear
    <3> QED  BY <1>1, <1>4, <2>4, <3>1 DEF WillClear
  <2>5. At(Stored, i) # {} => WillWrite("routes", f, i)'  BY <1>1, <1>5 DEF WillWrite
  <2> QED  BY <1>1, <1>2, <2>1, <2>2, <2>3, <2>4, <2>5 DEF SlotIs
<1> QED  BY <1>2, <1>6, <1>7, <1>8 DEF FlowTold, StaleTold, SlotsTold

\* A change of the routes is followed by the observer; a flow that is not stored
\* has no slots to follow it.
LEMMA RoutesTold ==
  ASSUME FlowTyped, FlowTold, NEW g \in Families, NEW s, SetRoutes(g, s)
  PROVE  FlowTold'
<1>1. /\ task' = task /\ flowRow' = flowRow /\ slot' = slot /\ failed' = failed /\ tainted' = tainted
  BY DEF SetRoutes, maps
<1>2. Pending'
  <2>1. owed' > 0  BY DEF SetRoutes, FlowTyped, CountsOK
  <2> QED  BY <2>1 DEF Pending
<1>3. \A i : At(Stored, i)' = At(Stored, i)  BY <1>1 DEF Stored
<1>4. \A u \in Tasks, i \in FlowIds : Holds(u, i)' <=> Holds(u, i)  BY <1>1 DEF Holds
<1>5. HeldAsStored'
  BY <1>1, <1>3, <1>4 DEF FlowTold, HeldAsStored, HeldIs
<1>6. \A i \in FlowIds : StaleIs(i)'  BY <1>2 DEF StaleIs
<1>7. ASSUME ~failed, NEW i \in FlowIds \ tainted PROVE SlotIs(i)'
  <2>1. SlotIs(i)  BY <1>7 DEF FlowTold, SlotsTold
  <2>2. CASE At(Stored, i) # {}  BY <1>2, <1>3, <2>2 DEF SlotIs
  <2>3. CASE At(Stored, i) = {}
    <3>1. ASSUME NEW f \in Families PROVE ~\E u \in Tasks : WillWrite(u, f, i)
      <4> SUFFICES ASSUME NEW u \in Tasks, WillWrite(u, f, i) PROVE FALSE  OBVIOUS
      <4>1. Holds(u, i) /\ task[u].pc \in Writers  BY DEF WillWrite, Unwritten, Writers
      <4>2. HeldIs(u, i)  BY <1>7 DEF FlowTold, HeldAsStored
      <4> QED  BY <2>3, <4>1, <4>2, HoldsAt DEF HeldIs, Writers, Clearers
    <3>2. \A f \in Families : Want(f, i) = {} /\ Want(f, i)' = {}  BY <1>3, <2>3 DEF Want
    <3>3. ASSUME NEW u \in Tasks, WillClear(u, i) PROVE WillClear(u, i)'
      BY <1>1, <1>4, <3>3 DEF WillClear
    <3> SUFFICES ASSUME NEW f \in Families
                 PROVE  slot'[f][i] = Want(f, i)' \/ \E u \in Tasks : WillClear(u, i)'
      BY DEF SlotIs
    <3>4. slot[f][i] = Want(f, i) \/ \E u \in Tasks : WillClear(u, i)  BY <2>1, <2>3, <3>1 DEF SlotIs
    <3> QED  BY <1>1, <3>2, <3>3, <3>4
  <2> QED  BY <2>2, <2>3
<1> QED  BY <1>1, <1>5, <1>6, <1>7 DEF FlowTold, StaleTold, SlotsTold

\* A transaction that leaves flow id i alone.
LEMMA RowOther ==
  ASSUME FlowTyped, NEW t \in Tasks, t # "routes", NEW i \in FlowIds \ tainted, At(Stored, i)' = At(Stored, i),
         \A u \in Tasks \ {t} : task'[u] = task[u], ~Holds(t, i), ~Holds(t, i)',
         UNCHANGED << flowRoute, slot, owed, unread, lag >>
  PROVE  /\ \A u \in Tasks : HeldIs(u, i) => HeldIs(u, i)'
         /\ StaleIs(i) => StaleIs(i)'
         /\ SlotIs(i) => SlotIs(i)'
<1>1. \A u \in Tasks : (Holds(u, i)' <=> Holds(u, i)) /\ (Holds(u, i) => Steady(u, i))
  BY DEF Holds, Steady
<1>2. Pending => Pending'  BY FlowNames DEF Pending
<1>3. \A f \in Families : slot'[f][i] = slot[f][i]  OBVIOUS
<1>4. ASSUME NEW u \in Tasks, HeldIs(u, i) PROVE HeldIs(u, i)'
  <2>1. Holds(u, i)' => Holds(u, i) /\ Steady(u, i)  BY <1>1
  <2> QED  BY <1>4, <2>1, HeldFrame
<1>5. ASSUME StaleIs(i) PROVE StaleIs(i)'
  <2>1. \A u \in Tasks : Holds(u, i)' => Holds(u, i) /\ Steady(u, i)  BY <1>1
  <2>2. Holds("routes", i) => Holds("routes", i)' /\ Steady("routes", i)  BY <1>1, FlowNames
  <2> QED  BY <1>2, <1>5, <2>1, <2>2, StaleFrame
<1>6. ASSUME SlotIs(i) PROVE SlotIs(i)'
  <2>1. \A u \in Tasks : Holds(u, i) => Holds(u, i)' /\ Steady(u, i)  BY <1>1
  <2> QED  BY <1>2, <1>3, <1>6, <2>1, SlotFrame
<1> QED  BY <1>4, <1>5, <1>6

LEMMA SetFlowTold ==
  ASSUME FlowTyped, FlowTold, OneRow, NEW t \in Operators, NEW r \in Rows, NEW c \in Flow, SetFlow(t, r, c)
  PROVE  FlowTold' /\ OneRow'
<1>1. /\ t \in Tasks /\ t # "routes" /\ \A u \in Tasks \ {t} : task'[u] = task[u]
      /\ task'[t].pc = "mlist" /\ task'[t].configs = {c} /\ task[t].configs = {}
  BY SetFlowMove, FlowNames
<1>2. /\ flowRow' = [flowRow EXCEPT ![r] = c] /\ UNCHANGED << flowRoute, slot, owed, unread, lag >> /\ failed' = failed
      /\ tainted \subseteq tainted' /\ Held(t, {c.fid, flowRow[r].fid}) \subseteq tainted'
      /\ flowRow[r].fid # c.fid => {flowRow[r].fid} \ {0} \subseteq tainted'
      /\ \A s \in Rows \ {r} : flowRow[s].fid = c.fid => c.fid \in tainted'
  BY DEF SetFlow, maps, channels
<1>3. flowRow'[r] = c /\ \A s \in Rows \ {r} : flowRow'[s] = flowRow[s]  BY <1>2 DEF FlowTyped, StoreOK
<1>4. c.fid \in FlowIds /\ c.fid # 0  BY FlowConstants DEF Flow
<1>5. OneRow'
  <2> SUFFICES ASSUME NEW p \in Rows, NEW s \in Rows, flowRow'[p].fid = flowRow'[s].fid,
                      flowRow'[p].fid \notin tainted' \cup {0}
               PROVE  p = s
    BY DEF OneRow
  <2>1. CASE p = r \/ s = r  BY <1>2, <1>3, <2>1
  <2>2. CASE p # r /\ s # r  BY <1>2, <1>3, <2>2 DEF OneRow
  <2> QED  BY <2>1, <2>2
<1>6. ASSUME NEW i \in FlowIds \ tainted', i # c.fid
      PROVE  /\ \A u \in Tasks : HeldIs(u, i)'
             /\ ~failed => StaleIs(i)' /\ SlotIs(i)'
  <2>1. flowRow[r].fid # i  BY <1>2, <1>6, FlowConstants
  <2>2. At(Stored, i)' = At(Stored, i)  BY <1>2, <1>6, <2>1, StoredAt DEF FlowTyped
  <2>3. ~Holds(t, i) /\ ~Holds(t, i)'  BY <1>1, <1>6 DEF Holds, IdsOf
  <2>4. i \in FlowIds \ tainted  BY <1>2
  <2>5. /\ \A u \in Tasks : HeldIs(u, i) => HeldIs(u, i)'
        /\ StaleIs(i) => StaleIs(i)'
        /\ SlotIs(i) => SlotIs(i)'
    BY <1>1, <1>2, <2>2, <2>3, <2>4, RowOther
  <2> QED  BY <2>4, <2>5 DEF FlowTold, HeldAsStored, StaleTold, SlotsTold
<1>7. ASSUME c.fid \notin tainted'
      PROVE  /\ \A u \in Tasks : HeldIs(u, c.fid)'
             /\ StaleIs(c.fid)' /\ SlotIs(c.fid)'
  <2> DEFINE i == c.fid
  <2>1. \A s \in Rows \ {r} : flowRow[s].fid # i  BY <1>2, <1>7
  <2>2. At(Stored, i)' = {c}
    <3> HIDE DEF i
    <3> QED  BY <1>2, <1>4, <2>1, StoredAt DEF FlowTyped, i
  <2>3. \A u \in Tasks \ {t} : ~Holds(u, i)'
    <3>1. \A u \in Tasks \ {t} : ~Holds(u, i)  BY <1>2, <1>7 DEF Held, Holds
    <3> QED  BY <1>1, <3>1 DEF Holds
  <2>4. Holds(t, i)' /\ At(task'[t].configs, i) = {c}  BY <1>1 DEF Holds, IdsOf, At
  <2> HIDE DEF i
  <2>5. \A u \in Tasks : HeldIs(u, i)'  BY <1>1, <2>2, <2>3, <2>4 DEF HeldIs, Writers
  <2>6. StaleIs(i)'  BY <1>1, <2>3 DEF StaleIs, Unwritten
  <2>7. SlotIs(i)'  BY <1>1, <2>4 DEF SlotIs, WillWrite
  <2> QED  BY <2>5, <2>6, <2>7 DEF i
<1> QED  BY <1>2, <1>5, <1>6, <1>7 DEF FlowTold, HeldAsStored, StaleTold, SlotsTold

LEMMA DeleteFlowTold ==
  ASSUME FlowTyped, FlowTold, OneRow, NEW t \in Operators, NEW r \in Rows, DeleteFlow(t, r)
  PROVE  FlowTold' /\ OneRow'
<1>1. /\ t \in Tasks /\ t # "routes" /\ \A u \in Tasks \ {t} : task'[u] = task[u]
      /\ task'[t].pc = "dmlist" /\ task'[t].configs = {flowRow[r]} /\ task[t].configs = {}
  BY DeleteFlowMove, FlowNames
<1>k. PICK k : k = flowRow[r].fid  OBVIOUS
<1>2. /\ flowRow' = [flowRow EXCEPT ![r] = NoFlow] /\ UNCHANGED << flowRoute, slot, owed, unread, lag >> /\ failed' = failed
      /\ tainted \subseteq tainted' /\ Held(t, {k}) \subseteq tainted'
  BY <1>k DEF DeleteFlow, maps, channels
<1>3. flowRow'[r] = NoFlow /\ \A s \in Rows \ {r} : flowRow'[s] = flowRow[s]  BY <1>2 DEF FlowTyped, StoreOK
<1>4. k \in FlowIds /\ k # 0 /\ NoFlow.fid = 0  BY <1>k, DeleteFlowMove, FlowConstants DEF Flow, NoFlow
<1>h. Holds(t, k)'  BY <1>k, <1>1 DEF Holds, IdsOf
<1>n. \A i \in FlowIds \ {k} : ~Holds(t, i) /\ ~Holds(t, i)'  BY <1>k, <1>1 DEF Holds, IdsOf
<1>o. k \notin tainted' => \A u \in Tasks \ {t} : ~Holds(u, k)  BY <1>2 DEF Held, Holds
<1>5. OneRow'
  <2> SUFFICES ASSUME NEW p \in Rows, NEW s \in Rows, flowRow'[p].fid = flowRow'[s].fid,
                      flowRow'[p].fid \notin tainted' \cup {0}
               PROVE  p = s
    BY DEF OneRow
  <2>1. p # r /\ s # r  BY <1>3, <1>4
  <2> QED  BY <1>2, <1>3, <2>1 DEF OneRow
<1>6. ASSUME NEW i \in FlowIds \ tainted', i # k
      PROVE  /\ \A u \in Tasks : HeldIs(u, i)'
             /\ ~failed => StaleIs(i)' /\ SlotIs(i)'
  <2>1. flowRow[r].fid # i /\ NoFlow.fid # i  BY <1>k, <1>4, <1>6, FlowConstants
  <2>2. At(Stored, i)' = At(Stored, i)  BY <1>2, <2>1, StoredAt DEF FlowTyped
  <2>3. ~Holds(t, i) /\ ~Holds(t, i)'  BY <1>n, <1>6
  <2>4. i \in FlowIds \ tainted  BY <1>2
  <2>5. /\ \A u \in Tasks : HeldIs(u, i) => HeldIs(u, i)'
        /\ StaleIs(i) => StaleIs(i)'
        /\ SlotIs(i) => SlotIs(i)'
    BY <1>1, <1>2, <2>2, <2>3, <2>4, RowOther
  <2> QED  BY <2>4, <2>5 DEF FlowTold, HeldAsStored, StaleTold, SlotsTold
<1>7. ASSUME k \notin tainted'
      PROVE  /\ \A u \in Tasks : HeldIs(u, k)'
             /\ StaleIs(k)' /\ SlotIs(k)'
  <2>1. \A s \in Rows \ {r} : flowRow[s].fid # k  BY <1>k, <1>2, <1>4, <1>7 DEF OneRow
  <2>2. At(Stored, k)' = {}  BY <1>2, <1>4, <2>1, StoredAt DEF FlowTyped
  <2>3. \A u \in Tasks \ {t} : ~Holds(u, k)'  BY <1>1, <1>7, <1>o DEF Holds
  <2>5. \A u \in Tasks : HeldIs(u, k)'  BY <1>1, <2>2, <2>3 DEF HeldIs, Clearers
  <2>6. StaleIs(k)'  BY <1>1, <2>3 DEF StaleIs, Unwritten
  <2>7. SlotIs(k)'  BY <1>1, <1>h DEF SlotIs, WillClear, Clearers
  <2> QED  BY <2>5, <2>6, <2>7
<1> QED  BY <1>2, <1>5, <1>6, <1>7 DEF FlowTold, HeldAsStored, StaleTold, SlotsTold

(***************************************************************************)
(* The match map.                                                          *)
(***************************************************************************)
MatchTold == ~failed /\ ~mcross => MatchesTold

\* A task that has nothing to do with the match map.
Aside(u) ==
  /\ task'[u].pc \in ListPcs <=> task[u].pc \in ListPcs
  /\ task'[u].pc \in Matching <=> task[u].pc \in Matching
  /\ task[u].pc \in Matching => task'[u].read = task[u].read

LEMMA MatchFrame ==
  ASSUME UNCHANGED << flowRow, devices, match, devUnread, devLost, mcross, failed >>, \A u \in Tasks : Aside(u), MatchTold
  PROVE  MatchTold'
<1>1. Current' = Current  BY DEF Current, Stored, Enabled
<1>2. MatchDue <=> MatchDue'  BY DEF MatchDue, Aside
<1> SUFFICES ASSUME MatchesTold PROVE MatchesTold'  BY DEF MatchTold
<1>3. match' = Current' \/ MatchDue' \/ \E t \in Tasks : task'[t].pc \in Matching /\ task'[t].read = Current'
  BY <1>1, <1>2 DEF MatchesTold, Aside
<1>4. \A t \in Tasks : task'[t].pc \in Matching /\ task'[t].read # Current' => MatchDue'
  BY <1>1, <1>2 DEF MatchesTold, Aside
<1>5. \A t, u \in Tasks : task'[t].pc \in Matching /\ task'[u].pc \in Matching => t = u
  BY DEF MatchesTold, Aside
<1> QED  BY <1>3, <1>4, <1>5 DEF MatchesTold

\* Whatever changes the flows or the devices has a read of the match map after it.
LEMMA MatchDueTold ==
  ASSUME MatchTold, failed' = failed, mcross' = mcross, MatchDue', \A u \in Tasks : task'[u].pc \in Matching => task[u].pc \in Matching
  PROVE  MatchTold'
BY DEF MatchTold, MatchesTold

LEMMA MatchSteps ==
  ASSUME FlowTyped, MatchTold, [FlowNext]_flowVars
  PROVE  MatchTold'
<1> USE DEF ListPcs, Matching
<1>1. ASSUME NEW t \in Operators, NEW r \in Rows, NEW c \in Flow, SetFlow(t, r, c) PROVE MatchTold'
  <2>1. t \in Tasks /\ task'[t].pc = "mlist" /\ \A u \in Tasks \ {t} : task'[u] = task[u]  BY <1>1, SetFlowMove, FlowNames
  <2>2. MatchDue'  BY <2>1 DEF MatchDue
  <2>3. \A u \in Tasks : task'[u].pc \in Matching => task[u].pc \in Matching  BY <2>1
  <2> QED  BY <1>1, <2>2, <2>3, MatchDueTold DEF SetFlow
<1>2. ASSUME NEW t \in Operators, NEW r \in Rows, DeleteFlow(t, r) PROVE MatchTold'
  <2>1. t \in Tasks /\ task'[t].pc = "dmlist" /\ \A u \in Tasks \ {t} : task'[u] = task[u]  BY <1>2, DeleteFlowMove, FlowNames
  <2>2. MatchDue'  BY <2>1 DEF MatchDue
  <2>3. \A u \in Tasks : task'[u].pc \in Matching => task[u].pc \in Matching  BY <2>1
  <2> QED  BY <1>2, <2>2, <2>3, MatchDueTold DEF DeleteFlow
<1>3. ASSUME NEW t \in Tasks, ReadMatches(t) PROVE MatchTold'
  <2>1. (\A u \in Tasks \ {t} : task'[u] = task[u]) /\ task'[t].read = Current /\ task'[t].pc \in Matching
    BY <1>3, ReadMove DEF ReadMatches, ApplyOf
  <2>2. Current' = Current  BY <1>3 DEF ReadMatches, Current, Stored, Enabled, database
  <2>3. ~mcross' => \A u \in Tasks \ {t} : task'[u].pc \notin Matching  BY <1>3, <2>1 DEF ReadMatches
  <2> QED  BY <2>1, <2>2, <2>3 DEF MatchTold, MatchesTold
<1>4. ASSUME NEW t \in Tasks, ReadMatchesFails(t) PROVE MatchTold'  BY <1>4 DEF ReadMatchesFails, MatchTold
<1>5. ASSUME NEW t \in Tasks, WriteMatches(t) PROVE MatchTold'
  <2>1. task[t].pc \in Matching  BY <1>5 DEF WriteMatches
  <2>2. (\A u \in Tasks \ {t} : task'[u] = task[u]) /\ task'[t].pc \notin Matching
    <3>1. AfterMatch(t).pc \in {"list", "idle", "clone4", "clear"}  BY <2>1, AfterMatchIs
    <3> QED  BY <1>5, <3>1, WriteMove
  <2>3. match' = task[t].read /\ Current' = Current
    BY <1>5 DEF WriteMatches, Current, Stored, Enabled, database
  <2>4. MatchDue => MatchDue'
    <3>1. task[t].pc \notin ListPcs  BY <2>1
    <3>2. devUnread' = devUnread /\ devLost' = devLost  BY <1>5 DEF WriteMatches, channels
    <3> QED  BY <2>2, <3>1, <3>2 DEF MatchDue
  <2> SUFFICES ASSUME MatchesTold PROVE MatchesTold'  BY <1>5 DEF MatchTold, WriteMatches
  <2>5. \A u \in Tasks : task'[u].pc \notin Matching  BY <2>1, <2>2 DEF MatchesTold
  <2>6. task[t].read = Current \/ MatchDue  BY <2>1 DEF MatchesTold
  <2> QED  BY <2>3, <2>4, <2>5, <2>6 DEF MatchesTold
<1>6. ASSUME ListFlows PROVE MatchTold'
  <2>1. \A u \in Tasks : Aside(u)  BY <1>6, ListMove DEF Aside, ListFlows
  <2> QED  BY <1>6, <2>1, MatchFrame DEF ListFlows, database, maps, channels
<1>7. ASSUME ListFlowsFails PROVE MatchTold'  BY <1>7 DEF ListFlowsFails, MatchTold
<1>8. ASSUME NEW t \in Tasks, Clone4(t) PROVE MatchTold'
  <2>1. \A u \in Tasks : Aside(u)  BY <1>8, Clone4Move DEF Aside, Clone4
  <2> QED  BY <1>8, <2>1, MatchFrame DEF Clone4, database, maps, channels
<1>9. ASSUME NEW t \in Tasks, Clone6(t) PROVE MatchTold'
  <2>1. \A u \in Tasks : Aside(u)  BY <1>9, Clone6Move DEF Aside, Clone6
  <2> QED  BY <1>9, <2>1, MatchFrame DEF Clone6, database, maps, channels
<1>10. ASSUME NEW t \in Tasks, Apply4(t) PROVE MatchTold'
  <2>1. \A u \in Tasks : Aside(u)  BY <1>10, Apply4Move DEF Aside, Apply4
  <2> QED  BY <1>10, <2>1, MatchFrame DEF Apply4, database, channels
<1>11. ASSUME NEW t \in Tasks, Apply6(t) PROVE MatchTold'
  <2>1. t # "devices" /\ task[t].pc = "apply6"  BY <1>11 DEF Apply6, FlowTyped, TasksOK, TaskOK, PcsOf
  <2>2. Idle.pc = "idle"  BY DEF Idle
  <2>3. \A u \in Tasks : Aside(u)  BY <1>11, <2>1, <2>2, FinishMove DEF Aside, Apply6
  <2> QED  BY <1>11, <2>3, MatchFrame DEF Apply6, database, channels
<1>12. ASSUME NEW t \in Tasks, ClearSlots(t) PROVE MatchTold'
  <2>1. task[t].pc = "clear" /\ Idle.pc = "idle"  BY <1>12 DEF ClearSlots, Idle
  <2>2. \A u \in Tasks : Aside(u)  BY <1>12, <2>1, ClearMove DEF Aside
  <2> QED  BY <1>12, <2>2, MatchFrame DEF ClearSlots, database, channels
<1>13. ASSUME NEW f \in Families, NEW s \in SUBSET FlowOwners, SetRoutes(f, s) PROVE MatchTold'
  <2>1. \A u \in Tasks : Aside(u)  BY <1>13 DEF Aside, SetRoutes
  <2> QED  BY <1>13, <2>1, MatchFrame DEF SetRoutes, maps
<1>14. ASSUME SendRouteEvent PROVE MatchTold'
  <2>1. \A u \in Tasks : Aside(u)  BY <1>14 DEF Aside, SendRouteEvent
  <2> QED  BY <1>14, <2>1, MatchFrame DEF SendRouteEvent, maps, database
<1>15. ASSUME RouteEvent PROVE MatchTold'
  <2>1. \A u \in Tasks : Aside(u)  BY <1>15, EventMove DEF Aside, RouteEvent
  <2> QED  BY <1>15, <2>1, MatchFrame DEF RouteEvent, maps, database
<1>16. ASSUME ChangeDevices PROVE MatchTold'
  <2>1. devUnread = DeviceRoom \/ devUnread' > 0  BY <1>16, FlowConstants DEF ChangeDevices, FlowTyped, CountsOK
  <2>2. MatchDue'  BY <1>16, <2>1 DEF ChangeDevices, MatchDue
  <2> QED  BY <1>16, <2>2, MatchDueTold DEF ChangeDevices
<1>17. ASSUME DeviceEvent PROVE MatchTold'
  <2>1. MatchDue'  BY <1>17, EventMove, FlowNames DEF MatchDue
  <2>2. \A u \in Tasks : task'[u].pc \in Matching => task[u].pc \in Matching  BY <1>17, EventMove
  <2> QED  BY <1>17, <2>1, <2>2, MatchDueTold DEF DeviceEvent
<1>18. ASSUME UNCHANGED flowVars PROVE MatchTold'
  <2>1. \A u \in Tasks : Aside(u)  BY <1>18 DEF Aside, flowVars
  <2> QED  BY <1>18, <2>1, MatchFrame DEF flowVars
<1> QED
  BY <1>1, <1>2, <1>3, <1>4, <1>5, <1>6, <1>7, <1>8, <1>9, <1>10, <1>11, <1>12, <1>13, <1>14, <1>15, <1>16, <1>17, <1>18
  DEF FlowNext, TaskStep

(***************************************************************************)
(* The theorem.                                                            *)
(***************************************************************************)
LEMMA FlowInitOK == FlowInit => FlowIInv
<1> SUFFICES ASSUME FlowInit PROVE FlowIInv  OBVIOUS
<1>1. TasksOK
  <2> DEFINE k(p) == [pc |-> p, configs |-> {}, v4 |-> {}, v6 |-> {}, read |-> NoMatch]
  <2>1. \A p : [Idle EXCEPT !.pc = p] = k(p)  BY TaskIdle
  <2>2. Idle = k("idle")  BY DEF Idle
  <2>3. task = [t \in Tasks |-> CASE t = "routes" -> k("mlist") [] t = "devices" -> k("off") [] OTHER -> k("idle")]
    BY <2>1, <2>2 DEF FlowInit
  <2>4. \A p \in FlowPcs : k(p) \in FlowTask  BY FlowNames DEF FlowTask
  <2>5. \A t \in Tasks : TaskOK(t, task[t])
    <3> TAKE t \in Tasks
    <3>1. CASE t = "routes"
      <4>1. task[t] = k("mlist")  BY <2>3, <3>1
      <4> QED  BY <2>4, <3>1, <4>1 DEF TaskOK, PcsOf, FlowPcs, Writers, Clearers
    <3>2. CASE t = "devices"
      <4>1. task[t] = k("off")  BY <2>3, <3>2
      <4> QED  BY <2>4, <3>2, <4>1 DEF TaskOK, PcsOf, FlowPcs, Writers, Clearers
    <3>3. CASE t \notin {"routes", "devices"}
      <4>1. task[t] = k("idle")  BY <2>3, <3>3
      <4> QED  BY <2>2, <2>4, <3>3, <4>1 DEF TaskOK, PcsOf, FlowPcs, Writers, Clearers
    <3> QED  BY <3>1, <3>2, <3>3
  <2>6. task \in [Tasks -> FlowTask]  BY <2>3, <2>5 DEF TaskOK
  <2> QED  BY <2>5, <2>6 DEF TasksOK
<1>2. StoreOK  BY FlowNames DEF FlowInit, StoreOK
<1>3. CountsOK  BY FlowConstants DEF FlowInit, CountsOK
<1>4. FlagsOK  BY DEF FlowInit, FlagsOK
<1>5. \A t \in Tasks : task[t].configs = {}
  BY <1>1 DEF FlowInit, Idle
<1>6. \A t \in Tasks, i \in FlowIds : ~Holds(t, i)  BY <1>5 DEF Holds, IdsOf
<1>7. HeldAsStored /\ StaleTold  BY <1>6 DEF HeldAsStored, HeldIs, StaleTold, StaleIs
<1>8. Stored = {}  BY DEF FlowInit, Stored
<1>9. SlotsTold  BY <1>8 DEF FlowInit, SlotsTold, SlotIs, Want, At
<1>10. OneRow  BY DEF FlowInit, OneRow, NoFlow
<1>11. MatchesTold
  <2>1. match = Current  BY <1>8 DEF FlowInit, NoMatch, Current, Enabled
  <2>2. \A t \in Tasks : task[t].pc \notin Matching  BY TaskIdle DEF FlowInit, Matching, Idle
  <2> QED  BY <2>1, <2>2 DEF MatchesTold
<1> QED  BY <1>1, <1>2, <1>3, <1>4, <1>7, <1>9, <1>10, <1>11 DEF FlowIInv, FlowTyped

LEMMA FlowStep == FlowIInv /\ [FlowNext]_flowVars => FlowIInv'
<1> SUFFICES ASSUME FlowIInv, [FlowNext]_flowVars PROVE FlowIInv'  OBVIOUS
<1>1. FlowTyped /\ FlowTold /\ OneRow /\ MatchTold  BY DEF FlowIInv, FlowTold, MatchTold
<1>2. FlowTyped' /\ MatchTold'  BY <1>1, FlowTypes, MatchSteps
<1>3. ASSUME flowRow' = flowRow, tainted \subseteq tainted' PROVE OneRow'  BY <1>1, <1>3 DEF OneRow
<1>4. FlowTold' /\ OneRow'
  <2>1. ASSUME NEW t \in Operators, NEW r \in Rows, NEW c \in Flow, SetFlow(t, r, c) PROVE FlowTold' /\ OneRow'
    BY <1>1, <2>1, SetFlowTold
  <2>2. ASSUME NEW t \in Operators, NEW r \in Rows, DeleteFlow(t, r) PROVE FlowTold' /\ OneRow'
    BY <1>1, <2>2, DeleteFlowTold
  <2>3. ASSUME NEW t \in Tasks, TaskStep(t) PROVE FlowTold' /\ OneRow'
    <3>1. FlowTold'
      BY <1>1, <2>3, QuietSteps, Clone4Told, Clone6Told, Apply4Told, Apply6Told, ClearTold DEF TaskStep
    <3>2. flowRow' = flowRow /\ tainted \subseteq tainted'
      BY <2>3 DEF TaskStep, ReadMatches, WriteMatches, Clone4, Clone6, Apply4, Apply6, ClearSlots, database
    <3> QED  BY <1>3, <3>1, <3>2
  <2>4. ASSUME NEW t \in Tasks, ReadMatchesFails(t) PROVE FlowTold' /\ OneRow'
    BY <1>1, <1>3, <2>4, QuietSteps DEF ReadMatchesFails, database
  <2>5. ASSUME NEW f \in Families, NEW s \in SUBSET FlowOwners, SetRoutes(f, s) PROVE FlowTold' /\ OneRow'
    BY <1>1, <1>3, <2>5, RoutesTold DEF SetRoutes
  <2>6. CASE ListFlows  BY <1>1, <1>3, <2>6, ListTold DEF ListFlows, database
  <2>7. CASE ListFlowsFails \/ RouteEvent \/ DeviceEvent \/ SendRouteEvent \/ ChangeDevices \/ UNCHANGED flowVars
    <3>1. FlowTold'  BY <1>1, <2>7, QuietSteps
    <3>2. flowRow' = flowRow /\ tainted' = tainted
      BY <2>7 DEF ListFlowsFails, RouteEvent, DeviceEvent, SendRouteEvent, ChangeDevices, flowVars, database
    <3> QED  BY <1>3, <3>1, <3>2
  <2> QED  BY <2>1, <2>2, <2>3, <2>4, <2>5, <2>6, <2>7 DEF FlowNext
<1> QED  BY <1>2, <1>4 DEF FlowIInv, FlowTold, MatchTold

LEMMA FlowInvHolds == FlowIInv => FlowInv
<1> SUFFICES ASSUME FlowIInv PROVE FlowInv  OBVIOUS
<1>0. FlowTyped /\ HeldAsStored  BY DEF FlowIInv
<1>1. FlowTypeOK
  <2>1. /\ flowRow \in [Rows -> Flow \cup {NoFlow}] /\ flowRoute \in [Families -> SUBSET FlowOwners]
        /\ slot \in [Families -> [FlowIds -> SUBSET FlowOwners]] /\ tainted \subseteq FlowIds
        /\ match \in [flows : SUBSET FlowIds, devices : 0 .. MaxChanges]
    BY <1>0 DEF FlowTyped, StoreOK, Matches
  <2>2. /\ devices \in 0 .. MaxChanges /\ owed \in 0 .. MaxChanges /\ unread \in 0 .. EventRoom
        /\ devUnread \in 0 .. DeviceRoom
    BY <1>0, FlowConstants DEF FlowTyped, CountsOK
  <2>3. ASSUME NEW t \in Tasks
        PROVE /\ task[t].pc \in {"off", "idle", "mlist", "mapply", "dmlist", "dmapply", "rmlist", "rmapply",
                          "list", "clone4", "clone6", "apply4", "apply6", "clear"}
              /\ task[t].configs \subseteq Flow /\ task[t].v4 \subseteq FlowOwners /\ task[t].v6 \subseteq FlowOwners
              /\ task[t].pc = "idle" => task[t] = Idle
    <3>1. task[t] \in FlowTask /\ TaskOK(t, task[t])  BY <1>0 DEF FlowTyped, TasksOK
    <3>2. task[t].pc \in FlowPcs /\ (task[t].pc = "idle" => task[t] = Idle)  BY <3>1 DEF FlowTask, TaskOK
    <3>3. task[t].configs \subseteq Flow /\ task[t].v4 \subseteq FlowOwners /\ task[t].v6 \subseteq FlowOwners
      BY <3>1 DEF FlowTask
    <3> QED  BY <3>2, <3>3 DEF FlowPcs, Writers, Clearers
  <2> QED  BY <2>1, <2>2, <2>3 DEF FlowTypeOK
<1>2. ASSUME NothingRuns PROVE \A t \in Tasks : task[t].pc = "idle" /\ \A i : ~Holds(t, i)
  BY <1>0, <1>2 DEF NothingRuns, FlowTyped, TasksOK, TaskOK, Writers, Clearers, Holds, IdsOf
<1>3. SlotsFollow
  <2> SUFFICES ASSUME NothingRuns, RoutesHeard, ~failed, NEW f \in Families, NEW i \in FlowIds \ tainted
               PROVE  slot[f][i] = UNION {Resolve(c, flowRoute[f]) : c \in {d \in Stored : d.fid = i}}
    BY DEF SlotsFollow
  <2>1. SlotIs(i)  BY DEF FlowIInv, SlotsTold
  <2>2. ~Pending  BY <1>2, FlowNames DEF RoutesHeard, Pending
  <2>3. slot[f][i] = Want(f, i)  BY <1>2, <2>1, <2>2 DEF SlotIs, WillWrite, WillClear
  <2> QED  BY <2>3 DEF Want, At
<1>4. MatchesFollow
  <2> SUFFICES ASSUME NothingRuns, devUnread = 0, ~devLost, ~mcross, ~failed PROVE match = Current
    BY DEF MatchesFollow, Current
  <2>1. ~MatchDue /\ \A t \in Tasks : task[t].pc \notin Matching  BY <1>2 DEF MatchDue, ListPcs, Matching
  <2> QED  BY <2>1 DEF FlowIInv, MatchesTold
<1> QED  BY <1>1, <1>3, <1>4 DEF FlowInv

\* Once nobody is at work and every event has been handled, the slots of each flow
\* and the match map of the data plane are those of the stored flows, the routes and
\* the devices, for any number of rows, flow ids, owners and concurrent calls, with
\* the exceptions FlowInv names.
THEOREM FlowsFollow == FlowSpec => []FlowInv
<1>1. FlowInit => FlowIInv  BY FlowInitOK
<1>2. FlowIInv /\ [FlowNext]_flowVars => FlowIInv'  BY FlowStep
<1>3. FlowIInv => FlowInv  BY FlowInvHolds
<1> QED  BY <1>1, <1>2, <1>3, PTL DEF FlowSpec

(***************************************************************************)
(* DnsLookup                                                               *)
(***************************************************************************)
ErrOrNone == Errors \cup {Nothing}
Results == Messages \cup Errors \cup {Nothing}
AskRec ==
    [pc : {"rest", "next", "fan", "retry", "done"}, running : SUBSET UpIps, err : ErrOrNone,
     negative : BOOLEAN, trunc : Cut \cup {Nothing}, stream : BOOLEAN, first : ErrOrNone,
     left : Nat, force : BOOLEAN, final : BOOLEAN, best : ErrOrNone, part : Cut \cup {Nothing},
     hop : Nat, spent : BOOLEAN, res : Results, errs : SUBSET Errors, failed : SUBSET Errors]

\* What the errors kept so far say of the errors met so far.
Weak == {Nothing, "NoConnections"}
BestSoFar(q) ==
    /\ q.best = Nothing => q.failed = {}
    /\ q.best = "NoConnections" => q.failed \subseteq {"NoConnections"}
    /\ q.pc # "done" => "Protocol" \notin q.failed
FanSoFar(q) ==
    /\ "Protocol" \in q.errs => q.err = "Protocol"
    /\ q.err \in Weak /\ q.first \in Weak => q.errs \subseteq {"NoConnections"}
    /\ q.first \notin {"Protocol", "Tls"}
    /\ q.first # Nothing => q.stream
Reports(q) ==
    /\ q.res # "empty"
    /\ q.part = "data" => q.res \notin {"Timeout", "NoConnections"}
    /\ q.res = "NoConnections" => q.failed \subseteq {"NoConnections"}
    /\ "Protocol" \in q.failed => q.res = "Protocol"
AskOK(q) ==
    /\ q \in AskRec
    /\ q.pc \in {"next", "fan", "retry"} => BestSoFar(q)
    /\ q.pc = "fan" => FanSoFar(q)
    /\ q.pc = "done" => Reports(q)
AsksOK == ask \in [Traced -> AskRec] /\ \A c \in Traced : AskOK(ask[c])

(***************************************************************************)
(* The errors.                                                             *)
(***************************************************************************)
LEMMA BetterError ==
    ASSUME NEW b \in ErrOrNone, NEW e \in Errors
    PROVE  /\ select_better_error(b, e) \in Errors
           /\ e = "Protocol" => select_better_error(b, e) = "Protocol"
           /\ select_better_error(b, e) = "NoConnections" => b \in Weak /\ e = "NoConnections"
           /\ select_better_error(b, e) \in {b, e}
           /\ b = Nothing => select_better_error(b, e) = e
           /\ b = "Protocol" => select_better_error(b, e) = "Protocol"
<1>1. /\ error_rank("Protocol") = 0 /\ error_rank("Timeout") = 1 /\ error_rank("Tls") = 1
      /\ error_rank("NoConnections") = 2 /\ error_rank(Nothing) = 255
  BY DEF error_rank, Nothing
<1> QED  BY <1>1 DEF select_better_error, ErrOrNone, Errors, Weak, Nothing

(***************************************************************************)
(* The records.                                                            *)
(***************************************************************************)

LEMMA FanOutIs ==
    ASSUME NEW q \in AskRec, NEW legs \in SUBSET UpIps, NEW stream \in BOOLEAN, NEW first \in ErrOrNone
    PROVE  /\ FanOut(q, legs, stream, first) \in AskRec
           /\ FanOut(q, legs, stream, first).pc = "fan" /\ FanOut(q, legs, stream, first).err = Nothing
           /\ FanOut(q, legs, stream, first).stream = stream /\ FanOut(q, legs, stream, first).first = first
           /\ FanOut(q, legs, stream, first).best = q.best /\ FanOut(q, legs, stream, first).failed = q.failed
           /\ FanOut(q, legs, stream, first).errs = q.errs
<1>1. FanOut(q, legs, stream, first) \in AskRec  BY DEF AskRec, FanOut, ErrOrNone
<1> QED  BY <1>1 DEF AskRec, FanOut

LEMMA ReturnsIs ==
    ASSUME NEW q \in AskRec, NEW r \in Results
    PROVE  /\ Returns(q, r) \in AskRec
           /\ Returns(q, r).pc = "done" /\ Returns(q, r).res = r
           /\ Returns(q, r).part = q.part /\ Returns(q, r).failed = q.failed
BY ZenonT(60) DEF AskRec, Returns, NoAsk, ErrOrNone, Results

LEMMA NewHopIs ==
    ASSUME NEW q \in AskRec, NEW n \in Nat
    PROVE  AskOK(NewHop(q, n)) /\ AskOK(NoAsk)
<1>1. NoAsk \in AskRec /\ NoAsk.pc = "rest" /\ NoAsk.failed = {}  BY DEF AskRec, NoAsk, ErrOrNone, Results
<1>2. NewHop(q, n) \in AskRec
  <2>1. q.spent \in BOOLEAN  BY DEF AskRec
  <2> QED  BY <1>1, <2>1, DnsLookupAssumption DEF AskRec, NewHop
<1>3. NewHop(q, n).pc = "next" /\ NewHop(q, n).failed = {}  BY DEF NewHop, NoAsk
<1> QED  BY <1>1, <1>2, <1>3 DEF AskOK, BestSoFar

(***************************************************************************)
(* What each function of the lookup makes of a record.  Live is what holds *)
(* of a lookup that goes on.                                               *)
(***************************************************************************)
Live(q) == q \in AskRec /\ BestSoFar(q) /\ q.pc # "done"

LEMMA ReturnsOK ==
    ASSUME NEW q \in AskRec, NEW r \in Results, r # "empty",
           q.part = "data" => r \notin {"Timeout", "NoConnections"},
           r = "NoConnections" => q.failed \subseteq {"NoConnections"},
           "Protocol" \in q.failed => r = "Protocol"
    PROVE  AskOK(Returns(q, r))
BY ReturnsIs DEF AskOK, Reports

LEMMA AnsweredOK ==
    ASSUME NEW q, Live(q), NEW m \in Messages, m # "empty"
    PROVE  AskOK(Answered(q, m))
<1>1. q \in AskRec /\ q.hop \in Nat /\ "Protocol" \notin q.failed  BY DEF Live, BestSoFar, AskRec
<1>2. CASE m = "cname" /\ q.hop < MAX_CNAME_DEPTH
  <2>1. AskOK(NewHop(q, q.hop + 1))  BY <1>1, NewHopIs
  <2> QED  BY <1>2, <2>1 DEF Answered
<1>3. CASE ~(m = "cname" /\ q.hop < MAX_CNAME_DEPTH)
  <2>1. m \in Results /\ m \notin Errors  BY DEF Messages, Cut, Results, Errors
  <2>2. AskOK(Returns(q, m))  BY <1>1, <2>1, ReturnsOK DEF Errors
  <2> QED  BY <1>3, <2>2 DEF Answered
<1> QED  BY <1>2, <1>3

LEMMA OrTimeoutOK ==
    ASSUME NEW q, Live(q), q.part # "data"
    PROVE  AskOK(Returns(q, OrTimeout(q.best)))
<1>1. q \in AskRec /\ q.best \in ErrOrNone /\ "Protocol" \notin q.failed  BY DEF Live, BestSoFar, AskRec
<1>2. OrTimeout(q.best) \in Errors /\ (OrTimeout(q.best) = "NoConnections" => q.best = "NoConnections")
  BY <1>1 DEF OrTimeout, ErrOrNone, Errors
<1>3. OrTimeout(q.best) \in Results /\ OrTimeout(q.best) # "empty"  BY <1>2 DEF Results, Errors
<1> QED  BY <1>1, <1>2, <1>3, ReturnsOK DEF Live, BestSoFar

LEMMA DataOK ==
    ASSUME NEW q, Live(q)
    PROVE  AskOK(Returns(q, "data"))
BY ReturnsOK DEF Live, BestSoFar, Results, Messages, Cut

LEMMA LoopLeftOK ==
    ASSUME NEW q, Live(q)
    PROVE  AskOK(LoopLeft(q))
<1>1. AskOK([q EXCEPT !.pc = "retry"])
  <2> DEFINE p == [q EXCEPT !.pc = "retry"]
  <2>1. p \in AskRec /\ p.pc = "retry" /\ p.best = q.best /\ p.failed = q.failed  BY DEF Live, AskRec
  <2> HIDE DEF p
  <2>2. AskOK(p)  BY <2>1 DEF AskOK, Live, BestSoFar
  <2> QED  BY <2>2 DEF p
<1> QED  BY <1>1, OrTimeoutOK, DataOK DEF LoopLeft

LEMMA AttemptOkOK ==
    ASSUME NEW q, Live(q), NEW m \in Messages
    PROVE  AskOK(AttemptOk(q, m))
<1>1. ASSUME m \in Cut PROVE AskOK([q EXCEPT !.pc = "next", !.force = TRUE, !.part = m])
  <2> DEFINE p == [q EXCEPT !.pc = "next", !.force = TRUE, !.part = m]
  <2>1. p \in AskRec  BY <1>1 DEF Live, AskRec
  <2>2. p.pc = "next" /\ p.best = q.best /\ p.failed = q.failed  BY DEF Live, AskRec
  <2> HIDE DEF p
  <2>3. AskOK(p)  BY <2>1, <2>2 DEF AskOK, Live, BestSoFar
  <2> QED  BY <2>3 DEF p
<1> QED  BY <1>1, AnsweredOK, LoopLeftOK, OrTimeoutOK, DataOK DEF AttemptOk

\* The error ends the lookup or is remembered.
LEMMA AttemptErrOK ==
    ASSUME NEW q \in AskRec, NEW e \in Errors, q.pc # "done",
           q.best = Nothing /\ e = "NoConnections" => q.failed \subseteq {"NoConnections"},
           q.best = "NoConnections" /\ e = "NoConnections" => q.failed \subseteq {"NoConnections"},
           "Protocol" \in q.failed => e = "Protocol"
    PROVE  AskOK(AttemptErr(q, e))
<1>1. q.best \in ErrOrNone  BY DEF AskRec
<1>2. /\ select_better_error(q.best, e) \in Errors
      /\ e = "Protocol" => select_better_error(q.best, e) = "Protocol"
      /\ select_better_error(q.best, e) = "NoConnections" => q.best \in Weak /\ e = "NoConnections"
  BY <1>1, BetterError
<1>3. \A r \in Errors : r \in Results /\ r # "empty" /\ r # Nothing  BY DEF Results, Errors, Nothing
<1>4. "data" \in Results /\ "data" \notin Errors  BY DEF Results, Messages, Cut, Errors
<1>5. ASSUME e \in {"Protocol", "Tls"} PROVE AskOK(Returns(q, e))  BY <1>3, <1>5, ReturnsOK
<1>6. ASSUME e # "Protocol" PROVE AskOK(Returns(q, "data"))  BY <1>4, <1>6, ReturnsOK
<1>7. ASSUME q.part # "data" PROVE AskOK(Returns(q, select_better_error(q.best, e)))
  BY <1>2, <1>3, <1>7, ReturnsOK DEF Weak
<1>8. ASSUME e \notin {"Protocol", "Tls"}
      PROVE  AskOK([q EXCEPT !.pc = "next", !.best = select_better_error(@, e)])
  <2> DEFINE p == [q EXCEPT !.pc = "next", !.best = select_better_error(@, e)]
  <2>1. p \in AskRec  BY <1>2 DEF AskRec, ErrOrNone
  <2>2. p.pc = "next" /\ p.best = select_better_error(q.best, e) /\ p.failed = q.failed  BY DEF AskRec
  <2> HIDE DEF p
  <2>3. BestSoFar(p)  BY <1>2, <1>3, <1>8, <2>2 DEF BestSoFar, Weak
  <2>4. AskOK(p)  BY <2>1, <2>2, <2>3 DEF AskOK
  <2> QED  BY <2>4 DEF p
<1> QED  BY <1>5, <1>6, <1>7, <1>8 DEF AttemptErr

LEMMA LegSetsIn == \A legs \in LegSets : legs \in SUBSET UpIps
BY DEF LegSets

\* All legs of a fan-out have failed with e as the most informative error.
LEMMA AllFailedOK ==
    ASSUME NEW q, Live(q), FanSoFar(q), NEW e \in Errors, q.err = Nothing => e = "NoConnections",
           q.err # Nothing => e = q.err, NEW x \in AllFailed(q, e)
    PROVE  AskOK(x)
<1> DEFINE p == [q EXCEPT !.failed = @ \cup q.errs]
<1>1. p \in AskRec /\ p.pc # "done" /\ p.best = q.best /\ p.failed = q.failed \cup q.errs
  <2>1. q \in AskRec /\ q.pc # "done"  BY DEF Live
  <2>2. p \in AskRec  BY <2>1 DEF AskRec
  <2> QED  BY <2>1, <2>2 DEF AskRec
<1>2. q \in AskRec /\ q.first \in ErrOrNone /\ q.stream \in BOOLEAN /\ BestSoFar(q) /\ "Protocol" \notin q.failed
  BY DEF Live, BestSoFar, AskRec
<1>3. e = "NoConnections" => q.err \in Weak  BY DEF Weak
<1>4. "Protocol" \in q.errs => e = "Protocol"  BY DEF FanSoFar, Nothing
<1>p. AllFailed(q, e) = IF e \notin {"Protocol", "Tls"} /\ ~q.stream
        THEN { FanOut(q, legs, TRUE, e) : legs \in LegSets }
        ELSE IF e \in {"Protocol", "Tls"} \/ q.first = Nothing THEN { AttemptErr(p, e) }
        ELSE { AttemptErr(p, select_better_error(q.first, e)) }
  BY DEF AllFailed
<1> HIDE DEF p
<1>5. CASE e \notin {"Protocol", "Tls"} /\ ~q.stream
  <2>1. PICK legs \in LegSets : x = FanOut(q, legs, TRUE, e)  BY <1>p, <1>5
  <2>2. e \in ErrOrNone /\ legs \in SUBSET UpIps  BY LegSetsIn DEF ErrOrNone
  <2>3. /\ x \in AskRec /\ x.pc = "fan" /\ x.err = Nothing /\ x.stream /\ x.first = e
        /\ x.best = q.best /\ x.failed = q.failed /\ x.errs = q.errs
    <3>1. PICK s \in BOOLEAN : s = TRUE  OBVIOUS
    <3>2. x = FanOut(q, legs, s, e)  BY <2>1, <3>1
    <3>3. /\ x \in AskRec /\ x.pc = "fan" /\ x.err = Nothing /\ x.stream = s /\ x.first = e
          /\ x.best = q.best /\ x.failed = q.failed /\ x.errs = q.errs
      <4>1. q \in AskRec  BY <1>2
      <4> QED  BY <4>1, <2>2, <3>2, FanOutIs
    <3> QED  BY <3>1, <3>3
  <2>4. q.first = Nothing  BY <1>5 DEF FanSoFar
  <2>5. e = "NoConnections" => q.errs \subseteq {"NoConnections"}  BY <1>3, <2>4 DEF FanSoFar, Weak
  <2>6. e \in Weak => e = "NoConnections"  BY DEF Weak, Errors, Nothing
  <2>7. FanSoFar(x)  BY <1>4, <1>5, <2>3, <2>5, <2>6 DEF FanSoFar
  <2>8. BestSoFar(x)  BY <1>2, <2>3 DEF BestSoFar
  <2> QED  BY <2>3, <2>7, <2>8 DEF AskOK
<1>6. CASE ~(e \notin {"Protocol", "Tls"} /\ ~q.stream) /\ (e \in {"Protocol", "Tls"} \/ q.first = Nothing)
  <2>1. x = AttemptErr(p, e)  BY <1>p, <1>6
  <2>2. e = "NoConnections" => q.errs \subseteq {"NoConnections"}  BY <1>3, <1>6 DEF FanSoFar, Weak
  <2>3. /\ p.best = Nothing /\ e = "NoConnections" => p.failed \subseteq {"NoConnections"}
        /\ p.best = "NoConnections" /\ e = "NoConnections" => p.failed \subseteq {"NoConnections"}
        /\ "Protocol" \in p.failed => e = "Protocol"
    BY <1>1, <1>2, <1>4, <2>2 DEF BestSoFar
  <2> QED  BY <1>1, <2>1, <2>3, AttemptErrOK
<1>7. CASE ~(e \notin {"Protocol", "Tls"} /\ ~q.stream) /\ ~(e \in {"Protocol", "Tls"} \/ q.first = Nothing)
  <2> DEFINE y == select_better_error(q.first, e)
  <2>1. x = AttemptErr(p, y)  BY <1>p, <1>7
  <2>2. y \in Errors /\ (y = "NoConnections" => q.first \in Weak /\ e = "NoConnections")  BY <1>2, BetterError
  <2>3. y = "NoConnections" => q.errs \subseteq {"NoConnections"}  BY <1>3, <2>2 DEF FanSoFar
  <2> HIDE DEF y
  <2>4. /\ p.best = Nothing /\ y = "NoConnections" => p.failed \subseteq {"NoConnections"}
        /\ p.best = "NoConnections" /\ y = "NoConnections" => p.failed \subseteq {"NoConnections"}
        /\ "Protocol" \in p.failed => y = "Protocol"
    BY <1>1, <1>2, <1>4, <1>7, <2>3 DEF BestSoFar
  <2> QED  BY <1>1, <2>1, <2>2, <2>4, AttemptErrOK
<1> QED  BY <1>5, <1>6, <1>7

LEMMA VerdictOK ==
    ASSUME NEW q, Live(q), FanSoFar(q), NEW x \in Verdict(q)
    PROVE  AskOK(x)
<1>1. q \in AskRec /\ q.trunc \in Cut \cup {Nothing} /\ q.err \in ErrOrNone /\ "Protocol" \notin q.failed /\ q.pc # "done"
  BY DEF Live, BestSoFar, AskRec
<1>2. CASE q.trunc # Nothing
  <2>1. q.trunc \in Messages  BY <1>1, <1>2 DEF Messages
  <2> QED  BY <1>2, <2>1, AttemptOkOK DEF Verdict
<1>3. CASE q.trunc = Nothing /\ q.negative
  <2>1. AskOK(AttemptErr(q, "Protocol"))  BY <1>1, AttemptErrOK DEF Errors
  <2> QED  BY <1>3, <2>1 DEF Verdict
<1>4. CASE q.trunc = Nothing /\ ~q.negative
  <2> DEFINE e == IF q.err = Nothing THEN "NoConnections" ELSE q.err
  <2>1. e \in Errors  BY <1>1 DEF ErrOrNone, Errors
  <2>2. x \in AllFailed(q, e)  BY <1>4 DEF Verdict
  <2>3. (q.err = Nothing => e = "NoConnections") /\ (q.err # Nothing => e = q.err)  OBVIOUS
  <2> HIDE DEF e
  <2> QED  BY <2>1, <2>2, <2>3, AllFailedOK
<1> QED  BY <1>2, <1>3, <1>4

LEMMA FoldOK ==
    ASSUME NEW q, Live(q), q.pc = "fan", FanSoFar(q), NEW i, NEW o \in LegOutcomes
    PROVE  Live(fold_leg_outcome(q, i, o)) /\ FanSoFar(fold_leg_outcome(q, i, o)) /\ fold_leg_outcome(q, i, o).pc = "fan"
<1> DEFINE p == [q EXCEPT !.running = @ \ {i}]
<1>1. p \in AskRec  BY DEF Live, AskRec
<1>2. /\ p.pc = "fan" /\ p.best = q.best /\ p.failed = q.failed /\ p.err = q.err /\ p.errs = q.errs
      /\ p.first = q.first /\ p.stream = q.stream
  BY DEF Live, AskRec
<1>3. fold_leg_outcome(q, i, o) =
        CASE o \in Cut -> [p EXCEPT !.trunc = IF @ = Nothing THEN o ELSE @]
          [] o = "negative" -> [p EXCEPT !.negative = TRUE]
          [] o \in Errors -> [p EXCEPT !.err = select_better_error(@, o), !.errs = @ \cup {o}]
          [] OTHER -> p
  BY DEF fold_leg_outcome
<1> HIDE DEF p
<1>4. \A x : /\ x \in AskRec /\ x.pc = "fan" /\ x.best = q.best /\ x.failed = q.failed /\ x.err = q.err /\ x.errs = q.errs
             /\ x.first = q.first /\ x.stream = q.stream
             => Live(x) /\ FanSoFar(x)
  BY DEF Live, BestSoFar, FanSoFar
<1>5. CASE o \in Cut
  <2> DEFINE x == [p EXCEPT !.trunc = IF @ = Nothing THEN o ELSE @]
  <2>1. fold_leg_outcome(q, i, o) = x  BY <1>3, <1>5 DEF Cut, Errors
  <2>2. x \in AskRec  BY <1>1, <1>5 DEF AskRec
  <2>3. /\ x.pc = "fan" /\ x.best = q.best /\ x.failed = q.failed /\ x.err = q.err /\ x.errs = q.errs
        /\ x.first = q.first /\ x.stream = q.stream
    BY <1>1, <1>2 DEF AskRec
  <2> HIDE DEF x
  <2> QED  BY <1>4, <2>1, <2>2, <2>3
<1>6. CASE o = "negative"
  <2> DEFINE x == [p EXCEPT !.negative = TRUE]
  <2>1. fold_leg_outcome(q, i, o) = x  BY <1>3, <1>6 DEF Cut, Errors
  <2>2. x \in AskRec  BY <1>1 DEF AskRec
  <2>3. /\ x.pc = "fan" /\ x.best = q.best /\ x.failed = q.failed /\ x.err = q.err /\ x.errs = q.errs
        /\ x.first = q.first /\ x.stream = q.stream
    BY <1>1, <1>2 DEF AskRec
  <2> HIDE DEF x
  <2> QED  BY <1>4, <2>1, <2>2, <2>3
<1>7. CASE o \in Errors
  <2> DEFINE x == [p EXCEPT !.err = select_better_error(@, o), !.errs = @ \cup {o}]
  <2>1. fold_leg_outcome(q, i, o) = x  BY <1>3, <1>7 DEF Cut, Errors
  <2>2. q.err \in ErrOrNone /\ q.errs \in SUBSET Errors /\ q.first \in ErrOrNone  BY DEF Live, AskRec
  <2>3. /\ select_better_error(q.err, o) \in Errors
        /\ o = "Protocol" => select_better_error(q.err, o) = "Protocol"
        /\ select_better_error(q.err, o) = "NoConnections" => q.err \in Weak /\ o = "NoConnections"
        /\ q.err = "Protocol" => select_better_error(q.err, o) = "Protocol"
    BY <1>7, <2>2, BetterError
  <2>4. x \in AskRec  BY <1>1, <1>2, <1>7, <2>3 DEF AskRec, ErrOrNone
  <2>5. /\ x.pc = "fan" /\ x.best = q.best /\ x.failed = q.failed /\ x.err = select_better_error(q.err, o)
        /\ x.errs = q.errs \cup {o} /\ x.first = q.first /\ x.stream = q.stream
    BY <1>1, <1>2 DEF AskRec
  <2> HIDE DEF x
  <2>6. Live(x)  BY <2>4, <2>5 DEF Live, BestSoFar
  <2>7. x.err \in Weak => x.err = "NoConnections"  BY <2>3, <2>5 DEF Weak, Errors, Nothing
  <2>8. FanSoFar(x)  BY <2>3, <2>5, <2>7 DEF FanSoFar
  <2> QED  BY <2>1, <2>5, <2>6, <2>8
<1>8. CASE o \notin Cut /\ o # "negative" /\ o \notin Errors
  <2>1. fold_leg_outcome(q, i, o) = p  BY <1>3, <1>8
  <2> QED  BY <1>1, <1>2, <1>4, <2>1
<1> QED  BY <1>5, <1>6, <1>7, <1>8

LEMMA LegSettledOK ==
    ASSUME NEW q, Live(q), q.pc = "fan", FanSoFar(q), NEW i, NEW o \in LegOutcomes, NEW x \in LegSettled(q, i, o)
    PROVE  AskOK(x)
<1> DEFINE f == fold_leg_outcome(q, i, o)
<1>1. Live(f) /\ FanSoFar(f) /\ f.pc = "fan"  BY FoldOK
<1> HIDE DEF f
<1>2. AskOK(f)  BY <1>1 DEF AskOK, Live
<1>3. o \in {"full", "cname"} => AskOK(AttemptOk(q, o))  BY AttemptOkOK DEF Messages
<1> QED  BY <1>1, <1>2, <1>3, VerdictOK DEF LegSettled, f

\* An attempt starts with no errors.
LEMMA AttemptIs ==
    ASSUME NEW q, Live(q), NEW legs \in LegSets
    PROVE  AskOK(Attempt(q, legs))
<1> DEFINE p == [q EXCEPT !.errs = {}]
<1>s. PICK s \in BOOLEAN : s = (q.force \/ ~has_udp)  OBVIOUS
<1> DEFINE x == FanOut(p, legs, s, Nothing)
<1>1. p \in AskRec  BY DEF Live, AskRec
<1>2. p.errs = {} /\ p.best = q.best /\ p.failed = q.failed  BY DEF Live, AskRec
<1>3. Nothing \in ErrOrNone /\ legs \in SUBSET UpIps  BY LegSetsIn DEF ErrOrNone
<1> HIDE DEF p
<1>4. /\ x \in AskRec /\ x.pc = "fan" /\ x.err = Nothing /\ x.first = Nothing /\ x.best = q.best
      /\ x.failed = q.failed /\ x.errs = {}
  BY <1>1, <1>2, <1>3, FanOutIs
<1> HIDE DEF x
<1>5. BestSoFar(x) /\ FanSoFar(x)  BY <1>4 DEF Live, BestSoFar, FanSoFar, Nothing
<1>6. AskOK(x)  BY <1>4, <1>5 DEF AskOK
<1> QED  BY <1>s, <1>6 DEF Attempt, x, p

(***************************************************************************)
(* The steps.                                                              *)
(***************************************************************************)
CallerRec == [pc : {"rest", "asking", "account", "revive", "flip", "spawn"}, res : Results]
CallersOK == caller \in [DnsCallers -> CallerRec] /\ loop \in [ProbeLoops -> {"none", "check", "probe", "revive", "sleep"}]
HealthOK == health \in [offline : BOOLEAN, failures : Nat]
DnsIInv == AsksOK /\ CallersOK /\ HealthOK /\ OfflineIsProbed

LEMMA AskMoves ==
    ASSUME AsksOK, NEW c \in Traced, NEW S, \A x \in S : AskOK(x), Asks(c, S)
    PROVE  AsksOK'
<1>1. PICK x \in S : ask' = [ask EXCEPT ![c] = x]  BY DEF Asks
<1>2. AskOK(x) /\ x \in AskRec  BY DEF AskOK
<1> QED  BY <1>1, <1>2 DEF AsksOK

LEMMA TracedSteps ==
    ASSUME AsksOK, NEW c \in Traced,
           NextAttempt(c) \/ StreamRetry(c) \/ LegSettles(c) \/ GraceEnds(c) \/ DeadlinePasses(c)
    PROVE  AsksOK'
<1>1. PICK q : q = ask[c]  OBVIOUS
<1>2. q \in AskRec /\ AskOK(q)  BY <1>1 DEF AsksOK
<1>3. q.pc \in {"next", "fan", "retry"} => Live(q)  BY <1>2 DEF AskOK, Live
<1>4. q.pc = "fan" => FanSoFar(q)  BY <1>2 DEF AskOK
<1>5. ASSUME NextAttempt(c) PROVE AsksOK'
  <2>1. q.pc = "next" /\ Live(q)  BY <1>1, <1>3, <1>5 DEF NextAttempt
  <2> DEFINE p == [q EXCEPT !.left = @ - 1]
             S == IF q.left = 0 \/ q.spent THEN { LoopLeft(q) } ELSE { Attempt(p, legs) : legs \in LegSets }
  <2>2. ASSUME ~(q.left = 0 \/ q.spent) PROVE Live(p)
    <3>1. q.left \in Nat /\ q.left # 0  BY <1>2, <2>2 DEF AskRec
    <3>2. q.left - 1 \in Nat  BY <3>1
    <3>3. p \in AskRec  BY <1>2, <3>2 DEF AskRec
    <3>4. p.pc = q.pc /\ p.best = q.best /\ p.failed = q.failed  BY <1>2 DEF AskRec
    <3> HIDE DEF p
    <3> QED  BY <2>1, <3>3, <3>4 DEF Live, BestSoFar
  <2> HIDE DEF p
  <2>3. \A x \in S : AskOK(x)  BY <2>1, <2>2, LoopLeftOK, AttemptIs
  <2>4. Asks(c, S)  BY <1>1, <1>5 DEF NextAttempt, p
  <2> HIDE DEF S
  <2> QED  BY <2>3, <2>4, AskMoves
<1>6. ASSUME StreamRetry(c) PROVE AsksOK'
  <2>1. q.pc = "retry" /\ Live(q)  BY <1>1, <1>3, <1>6 DEF StreamRetry
  <2> DEFINE p == [q EXCEPT !.force = TRUE, !.final = TRUE]
             S == { Attempt(p, legs) : legs \in LegSets }
  <2>2. Live(p)
    <3>1. p \in AskRec  BY <1>2 DEF AskRec
    <3>2. p.pc = q.pc /\ p.best = q.best /\ p.failed = q.failed  BY <1>2 DEF AskRec
    <3> HIDE DEF p
    <3> QED  BY <2>1, <3>1, <3>2 DEF Live, BestSoFar
  <2>4. Asks(c, S)  BY <1>1, <1>6 DEF StreamRetry
  <2> HIDE DEF p
  <2>3. \A x \in S : AskOK(x)  BY <2>2, AttemptIs
  <2> HIDE DEF S
  <2> QED  BY <2>3, <2>4, AskMoves
<1>7. ASSUME LegSettles(c) PROVE AsksOK'
  <2>1. q.pc = "fan" /\ Live(q) /\ FanSoFar(q)  BY <1>1, <1>3, <1>4, <1>7 DEF LegSettles
  <2>2. PICK i \in q.running, o \in LegOutcomes : Asks(c, LegSettled(q, i, o))  BY <1>1, <1>7 DEF LegSettles
  <2>3. \A x \in LegSettled(q, i, o) : AskOK(x)  BY <2>1, LegSettledOK
  <2> QED  BY <2>2, <2>3, AskMoves
<1>8. ASSUME GraceEnds(c) PROVE AsksOK'
  <2>1. q.pc = "fan" /\ Live(q) /\ FanSoFar(q)  BY <1>1, <1>3, <1>4, <1>8 DEF GraceEnds
  <2>2. Asks(c, Verdict(q))  BY <1>1, <1>8 DEF GraceEnds
  <2>3. \A x \in Verdict(q) : AskOK(x)  BY <2>1, VerdictOK
  <2> QED  BY <2>2, <2>3, AskMoves
<1>9. ASSUME DeadlinePasses(c) PROVE AsksOK'
  <2>1. q.pc \in {"next", "fan", "retry"} /\ Live(q)  BY <1>1, <1>3, <1>9 DEF DeadlinePasses
  <2> DEFINE p == [q EXCEPT !.spent = TRUE]
             r == [p EXCEPT !.best = select_better_error(@, "Timeout")]
             S == { IF p.pc = "retry" \/ (p.pc = "fan" /\ p.final) THEN LoopLeft(p)
                    ELSE IF p.pc = "fan" THEN LoopLeft(r) ELSE p }
  <2>2. p \in AskRec /\ p.pc = q.pc /\ p.best = q.best /\ p.failed = q.failed
    <3>1. p \in AskRec  BY <1>2 DEF AskRec
    <3> QED  BY <1>2, <3>1 DEF AskRec
  <2>4. Asks(c, S)  BY <1>1, <1>9 DEF DeadlinePasses
  <2> HIDE DEF p
  <2>5. Live(p)  BY <2>1, <2>2 DEF Live, BestSoFar
  <2>6. p.best \in ErrOrNone /\ "Timeout" \in Errors  BY <2>2 DEF AskRec, Errors
  <2>7. select_better_error(p.best, "Timeout") \in Errors /\ select_better_error(p.best, "Timeout") # "NoConnections"
    BY <2>6, BetterError
  <2>8. Live(r)
    <3>1. r \in AskRec  BY <2>2, <2>7 DEF AskRec, ErrOrNone
    <3>2. r.pc = p.pc /\ r.best = select_better_error(p.best, "Timeout") /\ r.failed = p.failed  BY <2>2 DEF AskRec
    <3> HIDE DEF r
    <3> QED  BY <2>5, <2>7, <3>1, <3>2 DEF Live, BestSoFar, Errors, Nothing
  <2> HIDE DEF r
  <2>9. AskOK(LoopLeft(p)) /\ AskOK(LoopLeft(r))  BY <2>5, <2>8, LoopLeftOK
  <2>10. p.pc = "next" => AskOK(p)  BY <2>5 DEF AskOK, Live
  <2>11. \A x \in S : AskOK(x)  BY <2>1, <2>2, <2>9, <2>10
  <2> HIDE DEF S
  <2> QED  BY <2>4, <2>11, AskMoves
<1> QED  BY <1>5, <1>6, <1>7, <1>8, <1>9

\* The lookup is entered, left or dropped; the rest of a caller's steps leave it alone.
LEMMA CallerAsks ==
    ASSUME AsksOK, NEW c \in DnsCallers, CallerStep(c)
    PROVE  AsksOK'
<1>1. AskOK(NoAsk) /\ AskOK(NewHop(NoAsk, 0))
  <2>1. NoAsk \in AskRec  BY DEF AskRec, NoAsk, ErrOrNone, Results
  <2> QED  BY <2>1, NewHopIs
<1>2. ASSUME NEW x, AskOK(x), c \in Traced, ask' = [ask EXCEPT ![c] = x] PROVE AsksOK'
  BY <1>2 DEF AsksOK, AskOK
<1>3. ASSUME ask' = ask PROVE AsksOK'  BY <1>3 DEF AsksOK
<1> QED  BY <1>1, <1>2, <1>3 DEF CallerStep, Lookup, Resolved, DropLookup, Account, Revive, Flip, spawn_revival_probes

\* Moves of one caller.
LEMMA CallerMoves ==
    ASSUME CallersOK, NEW c \in DnsCallers, NEW p \in {"rest", "asking", "account", "revive", "flip", "spawn"},
           NEW r \in Results,
           \/ caller' = [caller EXCEPT ![c] = [pc |-> p, res |-> r]]
           \/ caller' = [caller EXCEPT ![c].pc = p]
    PROVE  /\ caller' \in [DnsCallers -> CallerRec] /\ caller'[c].pc = p
           /\ \A d \in DnsCallers \ {c} : caller'[d] = caller[d]
<1>1. caller \in [DnsCallers -> CallerRec]  BY DEF CallersOK
<1>2. CASE caller' = [caller EXCEPT ![c] = [pc |-> p, res |-> r]]
  BY <1>1, <1>2 DEF CallerRec
<1>3. CASE caller' = [caller EXCEPT ![c].pc = p]
  BY <1>1, <1>3 DEF CallerRec
<1> QED  BY <1>2, <1>3

\* A caller moves between places that are not "spawn", the flag stays or goes down.
LEMMA StillProbed ==
    ASSUME OfflineIsProbed, health'.offline => health.offline,
           \A l \in ProbeLoops : loop[l] # "none" => loop'[l] # "none",
           \A d \in DnsCallers : caller[d].pc = "spawn" => caller'[d].pc = "spawn"
    PROVE  OfflineIsProbed'
BY DEF OfflineIsProbed

LEMMA CallerSteps ==
    ASSUME AsksOK, CallersOK, HealthOK, OfflineIsProbed, NEW c \in DnsCallers, CallerStep(c)
    PROVE  CallersOK' /\ HealthOK' /\ OfflineIsProbed'
<1>0. health \in [offline : BOOLEAN, failures : Nat] /\ caller \in [DnsCallers -> CallerRec]
  BY DEF HealthOK, CallersOK
<1>r. Nothing \in Results /\ \A e \in Errors \cup {"full"} : e \in Results  BY DEF Results, Messages
<1>1. ASSUME Lookup(c) PROVE CallersOK' /\ HealthOK' /\ OfflineIsProbed'
  <2>1. health' = health /\ loop' = loop /\ caller[c].pc = "rest" /\ caller' = [caller EXCEPT ![c].pc = "asking"]
    BY <1>1 DEF Lookup
  <2>2. /\ caller' \in [DnsCallers -> CallerRec] /\ caller'[c].pc = "asking"
        /\ \A d \in DnsCallers \ {c} : caller'[d] = caller[d]
    BY <1>r, <2>1, CallerMoves
  <2>3. OfflineIsProbed'  BY <2>1, <2>2, StillProbed
  <2> QED  BY <2>1, <2>2, <2>3 DEF CallersOK, HealthOK
<1>2. ASSUME Resolved(c) PROVE CallersOK' /\ HealthOK' /\ OfflineIsProbed'
  <2>1. health' = health /\ loop' = loop /\ caller[c].pc = "asking"  BY <1>2 DEF Resolved
  <2>2. PICK r \in Results : caller' = [caller EXCEPT ![c] = [pc |-> "account", res |-> r]]
    <3>1. CASE c \in Traced
      <4>1. ask[c].res \in Results  BY <3>1 DEF AsksOK, AskRec
      <4> QED  BY <1>2, <3>1, <4>1 DEF Resolved
    <3>2. CASE c \notin Traced  BY <1>2, <1>r, <3>2 DEF Resolved
    <3> QED  BY <3>1, <3>2
  <2>3. /\ caller' \in [DnsCallers -> CallerRec] /\ caller'[c].pc = "account"
        /\ \A d \in DnsCallers \ {c} : caller'[d] = caller[d]
    BY <2>2, CallerMoves
  <2>4. OfflineIsProbed'  BY <2>1, <2>3, StillProbed
  <2> QED  BY <2>1, <2>3, <2>4 DEF CallersOK, HealthOK
<1>3. ASSUME DropLookup(c) PROVE CallersOK' /\ HealthOK' /\ OfflineIsProbed'
  <2>1. health' = health /\ loop' = loop /\ caller[c].pc = "asking" /\ caller' = [caller EXCEPT ![c].pc = "rest"]
    BY <1>3 DEF DropLookup
  <2>2. /\ caller' \in [DnsCallers -> CallerRec] /\ caller'[c].pc = "rest"
        /\ \A d \in DnsCallers \ {c} : caller'[d] = caller[d]
    BY <1>r, <2>1, CallerMoves
  <2>3. OfflineIsProbed'  BY <2>1, <2>2, StillProbed
  <2> QED  BY <2>1, <2>2, <2>3 DEF CallersOK, HealthOK
<1>4. ASSUME Account(c) PROVE CallersOK' /\ HealthOK' /\ OfflineIsProbed'
  <2>1. loop' = loop /\ caller[c].pc = "account"  BY <1>4 DEF Account
  <2>2. health' = health \/ \E n \in Nat : health' = [health EXCEPT !.failures = n]
    <3>1. health.failures \in Nat /\ Longer(health.failures) \in Nat
      BY <1>0, DnsLookupAssumption DEF Longer
    <3> QED  BY <1>4, <3>1 DEF Account
  <2>3. HealthOK' /\ health'.offline = health.offline  BY <1>0, <2>2 DEF HealthOK
  <2>4. PICK p \in {"rest", "revive", "flip"} : caller' = [caller EXCEPT ![c] = [pc |-> p, res |-> Nothing]]
    BY <1>4 DEF Account, AtCaller
  <2>5. /\ caller' \in [DnsCallers -> CallerRec] /\ caller'[c].pc = p
        /\ \A d \in DnsCallers \ {c} : caller'[d] = caller[d]
    BY <1>r, <2>4, CallerMoves
  <2>6. OfflineIsProbed'  BY <2>1, <2>3, <2>5, StillProbed
  <2> QED  BY <2>1, <2>3, <2>5, <2>6 DEF CallersOK
<1>5. ASSUME Revive(c) PROVE CallersOK' /\ HealthOK' /\ OfflineIsProbed'
  <2>1. loop' = loop /\ health' = [health EXCEPT !.offline = FALSE]
        /\ caller' = [caller EXCEPT ![c] = [pc |-> "rest", res |-> Nothing]]
    BY <1>5 DEF Revive, AtCaller
  <2>2. HealthOK' /\ ~health'.offline  BY <1>0, <2>1 DEF HealthOK
  <2>3. caller' \in [DnsCallers -> CallerRec]  BY <1>r, <2>1, CallerMoves
  <2> QED  BY <2>1, <2>2, <2>3 DEF CallersOK, OfflineIsProbed
<1>6. ASSUME Flip(c) PROVE CallersOK' /\ HealthOK' /\ OfflineIsProbed'
  <2>1. loop' = loop /\ health' = [health EXCEPT !.offline = TRUE] /\ caller[c].pc = "flip"  BY <1>6 DEF Flip
  <2>2. HealthOK'  BY <1>0, <2>1 DEF HealthOK
  <2>3. PICK p \in {"rest", "spawn"} : /\ caller' = [caller EXCEPT ![c] = [pc |-> p, res |-> Nothing]]
                                       /\ ~health.offline => p = "spawn"
    BY <1>6 DEF Flip, AtCaller
  <2>4. /\ caller' \in [DnsCallers -> CallerRec] /\ caller'[c].pc = p
        /\ \A d \in DnsCallers \ {c} : caller'[d] = caller[d]
    BY <1>r, <2>3, CallerMoves
  <2>5. OfflineIsProbed'
    <3>1. CASE health.offline  BY <2>1, <2>4, <3>1, StillProbed
    <3>2. CASE ~health.offline  BY <2>3, <2>4, <3>2 DEF OfflineIsProbed
    <3> QED  BY <3>1, <3>2
  <2> QED  BY <2>1, <2>2, <2>4, <2>5 DEF CallersOK
<1>7. ASSUME spawn_revival_probes(c) PROVE CallersOK' /\ HealthOK' /\ OfflineIsProbed'
  <2>1. health' = health /\ caller' = [caller EXCEPT ![c] = [pc |-> "rest", res |-> Nothing]]
    BY <1>7 DEF spawn_revival_probes, AtCaller
  <2>2. PICK l \in ProbeLoops : loop' = [loop EXCEPT ![l] = "check"]  BY <1>7 DEF spawn_revival_probes
  <2>3. loop'[l] = "check" /\ loop' \in [ProbeLoops -> {"none", "check", "probe", "revive", "sleep"}]
    BY <2>2 DEF CallersOK
  <2>4. caller' \in [DnsCallers -> CallerRec]  BY <1>r, <2>1, CallerMoves
  <2> QED  BY <2>1, <2>3, <2>4 DEF CallersOK, HealthOK, OfflineIsProbed
<1> QED  BY <1>1, <1>2, <1>3, <1>4, <1>5, <1>6, <1>7 DEF CallerStep

LEMMA LoopSteps ==
    ASSUME AsksOK, CallersOK, HealthOK, OfflineIsProbed, NEW l \in ProbeLoops,
           LoopChecks(l) \/ Probed(l) \/ LoopWakes(l)
    PROVE  AsksOK' /\ CallersOK' /\ HealthOK' /\ OfflineIsProbed'
<1>1. ask' = ask /\ caller' = caller  BY DEF LoopChecks, Probed, LoopWakes
<1>2. \E s \in {"none", "check", "probe", "revive", "sleep"} : loop' = [loop EXCEPT ![l] = s]
  BY DEF LoopChecks, Probed, LoopWakes, AtLoop
<1>3. CallersOK'  BY <1>1, <1>2 DEF CallersOK
<1>4. \/ health' = health
      \/ health' = [health EXCEPT !.failures = 0]
      \/ health' = [health EXCEPT !.offline = FALSE]
  BY DEF LoopChecks, Probed, LoopWakes
<1>5. HealthOK' /\ (health'.offline => health.offline)
  <2>1. CASE health' = health  BY <2>1 DEF HealthOK
  <2>2. CASE health' = [health EXCEPT !.failures = 0]
    <3>1. HealthOK' /\ health'.offline = health.offline  BY <2>2 DEF HealthOK
    <3> QED  BY <3>1
  <2>3. CASE health' = [health EXCEPT !.offline = FALSE]
    <3>1. HealthOK' /\ health'.offline = FALSE  BY <2>3 DEF HealthOK
    <3> QED  BY <3>1
  <2> QED  BY <1>4, <2>1, <2>2, <2>3
<1>6. health'.offline => \A k \in ProbeLoops : loop[k] # "none" => loop'[k] # "none"
  <2>1. CASE LoopChecks(l)  BY <2>1 DEF LoopChecks, AtLoop, CallersOK
  <2>2. CASE Probed(l)  BY <2>2 DEF Probed, AtLoop, CallersOK
  <2>3. CASE LoopWakes(l)  BY <2>3 DEF LoopWakes, AtLoop, CallersOK
  <2> QED  BY <2>1, <2>2, <2>3
<1>7. OfflineIsProbed'  BY <1>1, <1>5, <1>6 DEF OfflineIsProbed
<1> QED  BY <1>1, <1>3, <1>5, <1>7 DEF AsksOK

\* Whatever its legs return, in whatever order and under whatever deadline, a lookup
\* reports the most informative of the errors it met, never an empty truncated
\* answer, and keeps a partial one; and an upstream that was taken offline always
\* has a probe loop, however failures, answers and loops interleave.
THEOREM LookupReports == DnsLookupSpec => []DnsLookupInv
<1>1. DnsLookupInit => DnsIInv
  <2> SUFFICES ASSUME DnsLookupInit PROVE DnsIInv  OBVIOUS
  <2>1. NoAsk \in AskRec  BY DEF AskRec, NoAsk, ErrOrNone, Results
  <2>2. AskOK(NoAsk)  BY <2>1, NewHopIs
  <2>3. AsksOK  BY <2>1, <2>2 DEF DnsLookupInit, AsksOK
  <2>4. CallersOK
    <3>1. [pc |-> "rest", res |-> Nothing] \in CallerRec  BY DEF CallerRec, Results
    <3> QED  BY <3>1 DEF DnsLookupInit, CallersOK
  <2>5. HealthOK /\ OfflineIsProbed  BY DEF DnsLookupInit, HealthOK, OfflineIsProbed
  <2> QED  BY <2>3, <2>4, <2>5 DEF DnsIInv
<1>2. DnsIInv /\ [DnsLookupNext]_dnsLookupVars => DnsIInv'
  <2> SUFFICES ASSUME DnsIInv, [DnsLookupNext]_dnsLookupVars PROVE DnsIInv'  OBVIOUS
  <2>0. AsksOK /\ CallersOK /\ HealthOK /\ OfflineIsProbed  BY DEF DnsIInv
  <2>1. ASSUME NEW c \in DnsCallers, CallerStep(c) PROVE DnsIInv'
    BY <2>0, <2>1, CallerAsks, CallerSteps DEF DnsIInv
  <2>2. ASSUME NEW c \in Traced, NextAttempt(c) \/ StreamRetry(c) \/ LegSettles(c) \/ GraceEnds(c) \/ DeadlinePasses(c)
        PROVE  DnsIInv'
    <3>1. AsksOK'  BY <2>0, <2>2, TracedSteps
    <3>2. health' = health /\ caller' = caller /\ loop' = loop
      BY <2>2 DEF NextAttempt, StreamRetry, LegSettles, GraceEnds, DeadlinePasses, Asks
    <3> QED  BY <2>0, <3>1, <3>2 DEF DnsIInv, CallersOK, HealthOK, OfflineIsProbed
  <2>3. ASSUME NEW l \in ProbeLoops, LoopChecks(l) \/ Probed(l) \/ LoopWakes(l) PROVE DnsIInv'
    BY <2>0, <2>3, LoopSteps DEF DnsIInv
  <2>4. CASE UNCHANGED dnsLookupVars
    BY <2>0, <2>4 DEF dnsLookupVars, DnsIInv, AsksOK, CallersOK, HealthOK, OfflineIsProbed
  <2> QED  BY <2>1, <2>2, <2>3, <2>4 DEF DnsLookupNext
<1>3. DnsIInv => DnsLookupInv
  <2> SUFFICES ASSUME DnsIInv PROVE DnsLookupInv  OBVIOUS
  <2>1. \A c \in Traced : AskDone(c) => Reports(ask[c])  BY DEF DnsIInv, AsksOK, AskOK, AskDone
  <2>2. NeverEmpty /\ PartialKept /\ ErrorInformative  BY <2>1 DEF Reports, NeverEmpty, PartialKept, ErrorInformative
  <2> QED  BY <2>2 DEF DnsIInv, DnsLookupInv
<1> QED  BY <1>1, <1>2, <1>3, PTL DEF DnsLookupSpec

(***************************************************************************)
(* DdnsTasks                                                               *)
(***************************************************************************)
Sources == Ips \cup {0}
Runtime == [st : {"none", "idle", "wait", "ok", "error"}, pub : Sources, due : BOOLEAN]
Caller == [pc : {"idle", "load", "mark", "cas"}, id : Entries \cup {0}, stale : BOOLEAN]
BeforeCall == {"resolve", "publish"}
AfterCall == {"find", "save"}
AfterSave == {"check", "fload", "fswap", "fcas"}
Task == [pc : {"idle", "start", "clean"} \cup BeforeCall \cup AfterCall \cup AfterSave, id : Entries \cup {0},
         local : Runtime, ip : Sources, stale : BOOLEAN, keep : BOOLEAN]
Call == [pc : {"idle", "capture", "store", "notify", "cleanup", "refresh"}, want : {"none", "off", "on"}, targets : BOOLEAN]

\* Types of the job, its record and runtime, the flags and the counters.
DdnsTyped ==
  /\ job \in {"none", "off", "on"} /\ src \in Sources /\ remote \in Sources /\ rt \in Runtime
  /\ pend \in [Entries -> BOOLEAN] /\ canc \in [Entries -> BOOLEAN]
  /\ wanUnread \in 0 .. WanRoom

HistoryTyped == skipped \in BOOLEAN /\ dropped \in BOOLEAN /\ untold \in BOOLEAN /\ orphan \in BOOLEAN

\* A caller whose compare-and-swap can still succeed holds the entry of the map.
CallersHold ==
  /\ trig \in [Triggers -> Caller]
  /\ \A t \in Triggers :
       /\ trig[t].pc \in {"mark", "cas"} /\ ~trig[t].stale => trig[t].id = cur
       /\ trig[t].pc = "mark" => trig[t].id # 0

Runs(w) == worker[w].pc # "idle"

\* The registry's entry is the one running task's.
TasksHold ==
  /\ cur \in Entries \cup {0} /\ worker \in [WorkerSlots -> Task]
  /\ \A w \in WorkerSlots : worker[w].id = (IF Runs(w) THEN cur ELSE 0)
  /\ \A w \in WorkerSlots : Runs(w) => cur # 0
  /\ \A v, w \in WorkerSlots : Runs(v) /\ Runs(w) => v = w
  /\ cur # 0 => \E w \in WorkerSlots : Runs(w)

\* An API call past its save stands for the job as stored; a clean-up runs for a
\* job that is off and keeps further calls out.
CallsHold ==
  /\ api \in Call
  /\ api.pc \in {"notify", "cleanup"} => job = api.want
  /\ api.pc = "cleanup" => api.want # "on"
  /\ api.pc = "refresh" => job = "off"
  /\ \A w \in WorkerSlots : worker[w].pc = "clean" => job # "on" /\ api.pc \in {"idle", "refresh"}

\* What is reported as published is the record, in the runtime or in the copy of
\* the round that is about to replace it.
ReportsHold ==
  ~untold =>
    /\ \A w \in WorkerSlots : worker[w].pc \in BeforeCall \cup AfterCall /\ worker[w].local.st = "ok" => worker[w].local.pub = remote
    /\ (\A w \in WorkerSlots : worker[w].pc \notin AfterCall) /\ rt.st = "ok" => rt.pub = remote

\* No task starts behind an API call's check, and a round that has found its job
\* enabled is over before the job is disabled.
ChecksHold ==
  ~orphan =>
    /\ cur # 0 => api.pc \in {"idle", "refresh"}
    /\ \A w \in WorkerSlots : worker[w].pc \in {"save"} \cup AfterSave => job = "on"

\* The runtime knows the record of an enabled job, so that the call that disables
\* it cleans up; the record of a job that is off is gone.
RecordsHold ==
  ~orphan /\ ~untold =>
    /\ cur = 0 /\ api.pc \in {"idle", "capture", "store", "refresh"} => rt.pub = remote /\ (job # "on" => remote = 0)
    /\ api.pc = "notify" /\ api.want = "on" => rt.pub = remote
    /\ api.pc \in {"store", "notify"} /\ api.want # "on" /\ ~api.targets => remote = 0
    /\ api.pc = "cleanup" => api.targets
    /\ \A w \in WorkerSlots : job = "on" =>
         /\ worker[w].pc \in {"start"} \cup AfterSave => rt.pub = remote
         /\ worker[w].pc \in BeforeCall \cup AfterCall => worker[w].local.pub = remote

\* A caller that will still start or mark a task.
Calling(t) == trig[t].pc \in {"load", "mark"} \/ (trig[t].pc = "cas" /\ (trig[t].stale \/ trig[t].id = 0))

\* A task that will still read the source, or end with the mark or the attempt noted.
Again(w) ==
  /\ Runs(w)
  /\ \/ worker[w].pc \in {"start", "resolve"}
     \/ pend[cur]
     \/ worker[w].pc \in {"fload", "fswap", "fcas"} /\ worker[w].keep
     \/ worker[w].pc \in {"publish", "find", "save", "check"} /\ canc[cur]

\* A task will be started or marked, or need not be.
Called ==
  \/ job # "on" \/ skipped \/ dropped \/ wanUnread > 0 \/ api.pc = "notify"
  \/ \E t \in Triggers : Calling(t)

\* What the running round has of the source, or else what the runtime has.
Seen ==
  /\ \A w \in WorkerSlots :
       /\ worker[w].pc = "publish" => worker[w].ip = src
       /\ worker[w].pc \in AfterCall /\ worker[w].local.st = "ok" => worker[w].local.pub = src
  /\ (\A w \in WorkerSlots : worker[w].pc \in {"idle"} \cup AfterSave) /\ rt.st = "ok" => rt.pub = src

\* The source will be looked at again, or has been since it changed.
MarksHold == Called \/ (\E w \in WorkerSlots : Again(w)) \/ Seen

DdnsIInv ==
  /\ DdnsTyped /\ HistoryTyped /\ CallersHold /\ TasksHold /\ CallsHold
  /\ ReportsHold /\ ChecksHold /\ RecordsHold /\ MarksHold

(***************************************************************************)
(* The map, its callers and its tasks                                      *)
(***************************************************************************)
LEMMA BuildKeeps ==
  ASSUME rt \in Runtime
  PROVE  /\ Build(TRUE, rt) \in Runtime /\ Build(TRUE, rt).pub = rt.pub
         /\ Build(TRUE, rt).st = "ok" => rt.st = "ok"
  BY DEF Build, Runtime, Fresh, NoRuntime, Sources

\* Callers in the middle of an attempt know nothing any more.
LEMMA StaleCallers ==
  ASSUME CallersHold
  PROVE  /\ StaleTrig \in [Triggers -> Caller]
         /\ \A t \in Triggers : StaleTrig[t].pc = trig[t].pc /\ StaleTrig[t].id = trig[t].id
         /\ \A t \in Triggers : trig[t].pc \in {"mark", "cas"} => StaleTrig[t].stale
         /\ \A t \in Triggers : trig[t].pc \notin {"mark", "cas"} => StaleTrig[t] = trig[t]
  BY DEF CallersHold, StaleTrig, Caller

LEMMA StaleCallersHold ==
  ASSUME CallersHold, trig' = StaleTrig
  PROVE  CallersHold' /\ \A t \in Triggers : Calling(t) => Calling(t)'
<1>1. CallersHold'
  BY StaleCallers DEF CallersHold
<1>2. \A t \in Triggers : Calling(t) => Calling(t)'
  BY StaleCallers DEF Calling
<1> QED BY <1>1, <1>2

LEMMA StaleTasks ==
  ASSUME TasksHold, NEW v \in WorkerSlots
  PROVE  /\ StaleWork[v] \in Task /\ StaleWork[v].pc = worker[v].pc /\ StaleWork[v].id = worker[v].id
         /\ StaleWork[v].local = worker[v].local /\ StaleWork[v].ip = worker[v].ip /\ StaleWork[v].keep = worker[v].keep
  BY DEF TasksHold, StaleWork, Task

LEMMA Alone ==
  ASSUME TasksHold, NEW w \in WorkerSlots, Runs(w)
  PROVE  /\ cur \in Entries /\ cur # 0 /\ worker[w].id = cur /\ worker[w] \in Task
         /\ \A v \in WorkerSlots : v # w => worker[v].pc = "idle" /\ worker[v].id = 0
  BY DEF TasksHold, Runs, Entries

\* A step of the running task within its loop.
LEMMA SetHolds ==
  ASSUME TasksHold, NEW w \in WorkerSlots, Runs(w), UNCHANGED cur,
         NEW r \in Task, r.pc # "idle", r.id = worker[w].id,
         Set(w, r) \/ worker' = [StaleWork EXCEPT ![w] = r]
  PROVE  /\ TasksHold' /\ worker'[w] = r
         /\ \A v \in WorkerSlots : v # w => worker'[v].pc = "idle"
<1>1. /\ worker' \in [WorkerSlots -> Task] /\ worker'[w] = r
      /\ \A v \in WorkerSlots : v # w => worker'[v].pc = "idle" /\ worker'[v].id = 0
  BY Alone, StaleTasks, ZenonT(60) DEF Set, StaleWork, TasksHold
<1>2. r.id = cur /\ cur # 0
  BY Alone
<1> QED
  BY <1>1, <1>2 DEF TasksHold, Runs

\* The running task ends.
LEMMA RemoveHolds ==
  ASSUME TasksHold, DdnsTyped, NEW w \in WorkerSlots, Runs(w), RemoveEntry(w)
  PROVE  /\ TasksHold' /\ cur' = 0 /\ \A v \in WorkerSlots : worker'[v].pc = "idle"
         /\ pend' \in [Entries -> BOOLEAN] /\ canc' \in [Entries -> BOOLEAN]
<1>1. NoWork \in Task /\ NoWork.pc = "idle" /\ NoWork.id = 0
  BY DEF NoWork, NoRuntime, Task, Runtime, Sources
<1>2. /\ worker' \in [WorkerSlots -> Task]
      /\ \A v \in WorkerSlots : worker'[v].pc = "idle" /\ worker'[v].id = 0
  BY <1>1, Alone, StaleTasks DEF RemoveEntry, StaleWork
<1>3. cur' = 0 /\ pend' \in [Entries -> BOOLEAN] /\ canc' \in [Entries -> BOOLEAN]
  BY Alone DEF RemoveEntry, DdnsTyped
<1> QED
  BY <1>2, <1>3 DEF TasksHold, Runs

\* There is an entry nobody holds.
LEMMA NewEntry ==
  ASSUME TasksHold, CallersHold, cur = 0
  PROVE  NewId \in Entries
<1>1. PICK i \in Entries : i # trig["tick"].id /\ i # trig["wan"].id /\ i # trig["api"].id
  <2>1. \A a, b, c : \E i \in 1 .. 4 : i # a /\ i # b /\ i # c
    BY Z3
  <2>2. \A i \in 1 .. 4 : i \in Entries
    BY DEF Entries
  <2> QED BY <2>1, <2>2
<1>2. \A w \in WorkerSlots : worker[w].id = 0
  BY DEF TasksHold
<1>3. i \notin Used
  BY <1>1, <1>2 DEF Used, Triggers, Entries
<1> QED BY <1>3 DEF NewId

LEMMA SpawnHolds ==
  ASSUME TasksHold, CallersHold, DdnsTyped, cur = 0, NEW pc \in {"start", "clean"}, Spawn(pc)
  PROVE  /\ TasksHold' /\ cur' # 0 /\ pend' \in [Entries -> BOOLEAN] /\ canc' \in [Entries -> BOOLEAN]
         /\ \E w \in WorkerSlots :
              worker'[w].pc = pc /\ \A v \in WorkerSlots : v # w => worker'[v].pc = "idle"
         /\ \A w \in WorkerSlots : worker[w].pc = "idle"
<1>1. PICK w \in WorkerSlots : w = FreeSlot /\ worker[w].pc = "idle"
  BY DEF Spawn, FreeSlot
<1>2. PICK i \in Entries : i = NewId
  BY NewEntry
<1>3. i # 0
  BY DEF Entries
<1>4. PICK r : r = [NoWork EXCEPT !.pc = pc, !.id = i]
  OBVIOUS
<1>5. r \in Task /\ r.pc = pc /\ r.id = i
  BY <1>4 DEF NoWork, NoRuntime, Task, Runtime, Sources
<1>6. \A v \in WorkerSlots : worker[v].pc = "idle" /\ worker[v].id = 0
  BY DEF TasksHold, Runs
<1>7. cur' = i /\ worker' = [StaleWork EXCEPT ![w] = r]
  BY <1>1, <1>2, <1>4 DEF Spawn
<1>8. /\ worker' \in [WorkerSlots -> Task] /\ worker'[w] = r
      /\ \A v \in WorkerSlots : v # w => worker'[v].pc = "idle" /\ worker'[v].id = 0
  BY <1>5, <1>6, <1>7, StaleTasks DEF StaleWork
<1>9. pend' \in [Entries -> BOOLEAN] /\ canc' \in [Entries -> BOOLEAN]
  BY <1>2 DEF Spawn, DdnsTyped
<1>10. TasksHold'
  BY <1>3, <1>5, <1>7, <1>8 DEF TasksHold, Runs
<1> QED
  BY <1>3, <1>5, <1>6, <1>7, <1>8, <1>9, <1>10

(***************************************************************************)
(* The rounds of the reconcile loop                                        *)
(***************************************************************************)
\* What every step of the running sync keeps.
LEMMA RoundHolds ==
  ASSUME DdnsIInv, NEW w \in WorkerSlots, Runs(w), worker[w].pc # "clean",
         NEW r \in Task, r.pc \notin {"idle", "clean"}, r.id = worker[w].id,
         Set(w, r) \/ worker' = [StaleWork EXCEPT ![w] = r],
         r.pc \in {"save"} \cup AfterSave => job = "on" \/ worker[w].pc \in {"save"} \cup AfterSave,
         UNCHANGED << cur, job, api, orphan >>
  PROVE  /\ TasksHold' /\ CallsHold' /\ ChecksHold' /\ worker'[w] = r
         /\ \A v \in WorkerSlots : v # w => worker[v].pc = "idle" /\ worker'[v].pc = "idle"
<1>1. TasksHold' /\ worker'[w] = r /\ \A v \in WorkerSlots : v # w => worker'[v].pc = "idle"
  BY SetHolds DEF DdnsIInv
<1>2. \A v \in WorkerSlots : v # w => worker[v].pc = "idle"
  BY Alone DEF DdnsIInv
<1>3. CallsHold'
  BY <1>1 DEF DdnsIInv, CallsHold
<1>4. ChecksHold'
  BY <1>1 DEF DdnsIInv, ChecksHold, AfterSave
<1> QED BY <1>1, <1>2, <1>3, <1>4

LEMMA RoundRecords ==
  ASSUME DdnsIInv, NEW w \in WorkerSlots, Runs(w), UNCHANGED << cur, job, api, orphan >>,
         \A v \in WorkerSlots : v # w => worker'[v].pc = "idle",
         ~orphan /\ ~untold' /\ job = "on" =>
           /\ worker'[w].pc \in {"start"} \cup AfterSave => rt'.pub = remote'
           /\ worker'[w].pc \in BeforeCall \cup AfterCall => worker'[w].local.pub = remote'
  PROVE  RecordsHold'
<1>1. cur # 0 /\ (~orphan => api.pc \in {"idle", "refresh"})
  BY Alone DEF DdnsIInv, ChecksHold
<1> QED
  BY <1>1 DEF RecordsHold, BeforeCall, AfterCall, AfterSave

LEMMA CalledStays ==
  ASSUME UNCHANGED << job, skipped, dropped, wanUnread, api, trig >>
  PROVE  Called' = Called
  BY DEF Called, Calling

LEMMA SyncStartHolds ==
  ASSUME DdnsIInv, NEW w \in WorkerSlots, SyncStart(w)
  PROVE  DdnsIInv'
<1>1. PICK r : r = [worker[w] EXCEPT !.pc = "resolve", !.local = Build(TRUE, rt), !.keep = FALSE]
  OBVIOUS
<1>2. Runs(w) /\ worker[w].pc = "start" /\ Set(w, r)
  BY <1>1 DEF SyncStart, Runs
<1>3. r \in Task /\ r.pc = "resolve" /\ r.local = Build(TRUE, rt) /\ r.id = worker[w].id
  BY <1>1, BuildKeeps DEF DdnsIInv, DdnsTyped, TasksHold, Task, BeforeCall
<1>4. UNCHANGED << job, src, remote, rt, cur, pend, canc, trig, api, wanUnread, skipped, dropped, untold, orphan >>
  BY DEF SyncStart, outside, flags, past
<1>5. /\ TasksHold' /\ CallsHold' /\ ChecksHold' /\ worker'[w] = r
      /\ \A v \in WorkerSlots : v # w => worker[v].pc = "idle" /\ worker'[v].pc = "idle"
  BY <1>2, <1>3, <1>4, RoundHolds DEF AfterSave
<1>6. DdnsTyped' /\ HistoryTyped' /\ CallersHold'
  BY <1>4 DEF DdnsIInv, DdnsTyped, HistoryTyped, CallersHold
<1>7. ReportsHold'
  BY <1>2, <1>3, <1>4, <1>5, BuildKeeps DEF DdnsIInv, DdnsTyped, ReportsHold, BeforeCall, AfterCall
<1>8. RecordsHold'
  <2>1. ~orphan /\ ~untold /\ job = "on" => rt.pub = remote
    BY <1>2 DEF DdnsIInv, RecordsHold
  <2> QED
    BY <2>1, <1>2, <1>3, <1>4, <1>5, BuildKeeps, RoundRecords DEF DdnsIInv, DdnsTyped, AfterSave
<1>9. MarksHold'
  BY <1>3, <1>5 DEF MarksHold, Again, Runs
<1> QED BY <1>5, <1>6, <1>7, <1>8, <1>9 DEF DdnsIInv

LEMMA NoProfileHolds ==
  ASSUME DdnsIInv, NEW w \in WorkerSlots, NoProfile(w)
  PROVE  DdnsIInv'
<1>1. PICK l : l = [Build(TRUE, rt) EXCEPT !.st = "error", !.due = FALSE]
  OBVIOUS
<1>2. l \in Runtime /\ l.st = "error" /\ l.pub = rt.pub
  BY <1>1, BuildKeeps DEF DdnsIInv, DdnsTyped, Runtime
<1>3. PICK r : r = [worker[w] EXCEPT !.pc = "find", !.local = l, !.keep = FALSE]
  OBVIOUS
<1>4. Runs(w) /\ worker[w].pc = "start" /\ Set(w, r)
  BY <1>1, <1>3 DEF NoProfile, Runs
<1>5. r \in Task /\ r.pc = "find" /\ r.local = l /\ r.id = worker[w].id
  BY <1>2, <1>3 DEF DdnsIInv, TasksHold, Task, AfterCall
<1>6. UNCHANGED << job, src, remote, rt, cur, pend, canc, trig, api, wanUnread, skipped, dropped, untold, orphan >>
  BY DEF NoProfile, outside, flags, past
<1>7. /\ TasksHold' /\ CallsHold' /\ ChecksHold' /\ worker'[w] = r
      /\ \A v \in WorkerSlots : v # w => worker[v].pc = "idle" /\ worker'[v].pc = "idle"
  BY <1>4, <1>5, <1>6, RoundHolds DEF AfterSave
<1>8. DdnsTyped' /\ HistoryTyped' /\ CallersHold'
  BY <1>6 DEF DdnsIInv, DdnsTyped, HistoryTyped, CallersHold
<1>9. ReportsHold'
  BY <1>2, <1>5, <1>6, <1>7 DEF DdnsIInv, ReportsHold, BeforeCall, AfterCall
<1>10. RecordsHold'
  <2>1. ~orphan /\ ~untold /\ job = "on" => rt.pub = remote
    BY <1>4 DEF DdnsIInv, RecordsHold
  <2> QED
    BY <2>1, <1>2, <1>4, <1>5, <1>6, <1>7, RoundRecords DEF AfterSave
<1>11. MarksHold'
  BY <1>2, <1>5, <1>7 DEF MarksHold, Seen, AfterCall, AfterSave
<1> QED BY <1>7, <1>8, <1>9, <1>10, <1>11 DEF DdnsIInv

LEMMA ResolveHolds ==
  ASSUME DdnsIInv, NEW w \in WorkerSlots, resolve_record_ip(w)
  PROVE  DdnsIInv'
<1>1. PICK r : r = IF cancelled(w) THEN Pc(w, "find") ELSE [worker[w] EXCEPT !.pc = "publish", !.ip = src]
  OBVIOUS
<1>2. Runs(w) /\ worker[w].pc = "resolve" /\ Set(w, r)
  BY <1>1 DEF resolve_record_ip, Runs
<1>3. /\ r \in Task /\ r.local = worker[w].local /\ r.id = worker[w].id
      /\ \/ r.pc = "find" /\ canc[cur]
         \/ r.pc = "publish" /\ r.ip = src
  BY <1>1, <1>2, Alone DEF DdnsIInv, DdnsTyped, TasksHold, Task, Pc, cancelled, BeforeCall, AfterCall
<1>4. UNCHANGED << job, src, remote, rt, cur, pend, canc, trig, api, wanUnread, skipped, dropped, untold, orphan >>
  BY DEF resolve_record_ip, outside, flags, past
<1>5. /\ TasksHold' /\ CallsHold' /\ ChecksHold' /\ worker'[w] = r
      /\ \A v \in WorkerSlots : v # w => worker[v].pc = "idle" /\ worker'[v].pc = "idle"
  BY <1>2, <1>3, <1>4, RoundHolds DEF AfterSave
<1>6. DdnsTyped' /\ HistoryTyped' /\ CallersHold'
  BY <1>4 DEF DdnsIInv, DdnsTyped, HistoryTyped, CallersHold
<1>7. ReportsHold'
  BY <1>2, <1>3, <1>4, <1>5 DEF DdnsIInv, ReportsHold, BeforeCall, AfterCall
<1>8. RecordsHold'
  <2>1. ~orphan /\ ~untold /\ job = "on" => worker[w].local.pub = remote
    BY <1>2 DEF DdnsIInv, RecordsHold, BeforeCall
  <2> QED
    BY <2>1, <1>2, <1>3, <1>4, <1>5, RoundRecords DEF AfterSave
<1>9. MarksHold'
  BY <1>3, <1>4, <1>5 DEF MarksHold, Again, Runs, Seen, AfterCall, AfterSave
<1> QED BY <1>5, <1>6, <1>7, <1>8, <1>9 DEF DdnsIInv

\* What a step that ends the round's publishing must bring along.
LEMMA PublishHolds ==
  ASSUME DdnsIInv, NEW w \in WorkerSlots, worker[w].pc = "publish", NEW r \in Task,
         r.pc = "find", r.id = worker[w].id, Set(w, r),
         UNCHANGED << job, src, rt, cur, pend, canc, trig, api, wanUnread, skipped, dropped, orphan >>,
         remote' \in Sources, untold' \in BOOLEAN,
         ~untold' /\ r.local.st = "ok" => r.local.pub = remote',
         ~untold' /\ ~orphan /\ job = "on" => r.local.pub = remote',
         canc[cur] \/ (r.local.st = "ok" => r.local.pub = worker[w].ip)
  PROVE  DdnsIInv'
<1>1. Runs(w)
  BY DEF Runs
<1>2. /\ TasksHold' /\ CallsHold' /\ ChecksHold' /\ worker'[w] = r
      /\ \A v \in WorkerSlots : v # w => worker[v].pc = "idle" /\ worker'[v].pc = "idle"
  BY <1>1, RoundHolds DEF AfterSave
<1>3. DdnsTyped' /\ HistoryTyped' /\ CallersHold'
  BY DEF DdnsIInv, DdnsTyped, HistoryTyped, CallersHold
<1>4. ReportsHold'
  BY <1>2 DEF ReportsHold, BeforeCall, AfterCall
<1>5. RecordsHold'
  BY <1>1, <1>2, RoundRecords DEF AfterSave
<1>6. MarksHold'
  <2>1. CASE Called
    BY <2>1, CalledStays DEF MarksHold
  <2>2. CASE \E v \in WorkerSlots : Again(v)
    <3>1. Again(w)'
      BY <2>2, <1>2 DEF Again, Runs
    <3> QED BY <3>1 DEF MarksHold
  <2>3. CASE Seen
    <3>1. CASE canc[cur]
      <4>1. Again(w)'
        BY <1>2, <3>1 DEF Again, Runs
      <4> QED BY <4>1 DEF MarksHold
    <3>2. CASE r.local.st = "ok" => r.local.pub = worker[w].ip
      <4>1. worker[w].ip = src
        BY <2>3 DEF Seen
      <4>2. Seen'
        BY <1>2, <3>2, <4>1 DEF Seen, AfterCall, AfterSave
      <4> QED BY <4>2 DEF MarksHold
    <3> QED BY <3>1, <3>2
  <2> QED BY <2>1, <2>2, <2>3 DEF DdnsIInv, MarksHold
<1> QED BY <1>2, <1>3, <1>4, <1>5, <1>6 DEF DdnsIInv

LEMMA PublishKnows ==
  ASSUME DdnsIInv, NEW w \in WorkerSlots, worker[w].pc = "publish"
  PROVE  /\ worker[w] \in Task /\ worker[w].local \in Runtime /\ worker[w].ip \in Sources
         /\ worker[w].id = cur /\ remote \in Sources /\ untold \in BOOLEAN
         /\ ~untold /\ worker[w].local.st = "ok" => worker[w].local.pub = remote
         /\ ~untold /\ ~orphan /\ job = "on" => worker[w].local.pub = remote
<1>1. worker[w] \in Task /\ worker[w].id = cur
  BY Alone DEF DdnsIInv, Runs
<1>2. worker[w].local \in Runtime /\ worker[w].ip \in Sources
  BY <1>1 DEF Task
<1>3. remote \in Sources /\ untold \in BOOLEAN
  BY DEF DdnsIInv, DdnsTyped, HistoryTyped
<1>4. ~untold /\ worker[w].local.st = "ok" => worker[w].local.pub = remote
  BY DEF DdnsIInv, ReportsHold, BeforeCall
<1>5. ~untold /\ ~orphan /\ job = "on" => worker[w].local.pub = remote
  BY DEF DdnsIInv, RecordsHold, BeforeCall
<1> QED BY <1>1, <1>2, <1>3, <1>4, <1>5

LEMMA LocalIs ==
  ASSUME NEW w \in WorkerSlots, worker[w] \in Task, NEW st \in {"wait", "ok", "error"}, NEW pub \in Sources
  PROVE  /\ Local(w, st, pub) \in Task /\ Local(w, st, pub).pc = "find" /\ Local(w, st, pub).id = worker[w].id
         /\ Local(w, st, pub).local.st = st /\ Local(w, st, pub).local.pub = pub
  BY DEF Local, Task, Runtime, AfterCall

LEMMA NothingToPublishHolds ==
  ASSUME DdnsIInv, NEW w \in WorkerSlots, NothingToPublish(w)
  PROVE  DdnsIInv'
<1>1. worker[w].pc = "publish"
  BY DEF NothingToPublish
<1>2. UNCHANGED << job, src, remote, rt, cur, pend, canc, trig, api, wanUnread, skipped, dropped, untold, orphan >>
  BY DEF NothingToPublish, outside, flags, past
<1>3. worker[w].local.pub \in Sources
  BY <1>1, PublishKnows DEF Runtime
<1>4. CASE worker[w].ip = 0
  <2>1. Set(w, Local(w, "wait", worker[w].local.pub))
    BY <1>4 DEF NothingToPublish
  <2>2. PICK r : r = Local(w, "wait", worker[w].local.pub)
    OBVIOUS
  <2>3. r \in Task /\ r.pc = "find" /\ r.id = worker[w].id /\ r.local.st = "wait" /\ r.local.pub = worker[w].local.pub
    BY <1>1, <1>3, <2>2, PublishKnows, LocalIs
  <2>4. Set(w, r)
    BY <2>1, <2>2
  <2> QED BY <1>1, <1>2, <2>3, <2>4, PublishKnows, PublishHolds
<1>5. CASE worker[w].ip # 0
  <2>1. Set(w, Local(w, "ok", worker[w].ip))
    BY <1>5 DEF NothingToPublish
  <2>2. PICK r : r = Local(w, "ok", worker[w].ip)
    OBVIOUS
  <2>3. r \in Task /\ r.pc = "find" /\ r.id = worker[w].id /\ r.local.st = "ok" /\ r.local.pub = worker[w].ip
    BY <1>1, <2>2, PublishKnows, LocalIs
  <2>4. Set(w, r)
    BY <2>1, <2>2
  <2>5. worker[w].local.st = "ok" /\ worker[w].local.pub = worker[w].ip
    BY <1>5 DEF NothingToPublish, UpToDate
  <2> QED BY <1>1, <1>2, <2>3, <2>4, <2>5, PublishKnows, PublishHolds
<1> QED BY <1>4, <1>5

LEMMA ReconcileHolds ==
  ASSUME DdnsIInv, NEW w \in WorkerSlots, reconcile_dns_records(w)
  PROVE  DdnsIInv'
<1>1. worker[w].pc = "publish"
  BY DEF reconcile_dns_records, Calls
<1>2. PICK r : r = Local(w, "ok", worker[w].ip)
  OBVIOUS
<1>3. r \in Task /\ r.pc = "find" /\ r.id = worker[w].id /\ r.local.st = "ok" /\ r.local.pub = worker[w].ip
  BY <1>1, <1>2, PublishKnows, LocalIs
<1>4. Set(w, r) /\ remote' = worker[w].ip /\ untold' = FALSE
  BY <1>2 DEF reconcile_dns_records
<1>5. UNCHANGED << job, src, rt, cur, pend, canc, trig, api, wanUnread, skipped, dropped, orphan >>
  BY DEF reconcile_dns_records, flags
<1> QED BY <1>1, <1>3, <1>4, <1>5, PublishKnows, PublishHolds

LEMMA PublishFailsHolds ==
  ASSUME DdnsIInv, NEW w \in WorkerSlots, PublishFails(w)
  PROVE  DdnsIInv'
<1>1. worker[w].pc = "publish"
  BY DEF PublishFails, Calls
<1>2. PICK r : r = Local(w, "error", worker[w].local.pub)
  OBVIOUS
<1>3. r \in Task /\ r.pc = "find" /\ r.id = worker[w].id /\ r.local.st = "error" /\ r.local.pub = worker[w].local.pub
  BY <1>1, <1>2, PublishKnows, LocalIs DEF Runtime
<1>4. Set(w, r) /\ remote' \in {remote, worker[w].ip}
  BY <1>2 DEF PublishFails
<1>5. untold' \in BOOLEAN /\ (~untold' => ~untold /\ remote' = remote)
  BY DEF PublishFails
<1>6. UNCHANGED << job, src, rt, cur, pend, canc, trig, api, wanUnread, skipped, dropped, orphan >>
  BY DEF PublishFails, flags
<1>7. remote' \in Sources
  BY <1>1, <1>4, PublishKnows
<1> QED BY <1>1, <1>3, <1>4, <1>5, <1>6, <1>7, PublishKnows, PublishHolds

LEMMA PublishSkippedHolds ==
  ASSUME DdnsIInv, NEW w \in WorkerSlots, PublishSkipped(w)
  PROVE  DdnsIInv'
<1>1. worker[w].pc = "publish" /\ canc[cur]
  BY PublishKnows DEF PublishSkipped, cancelled
<1>2. PICK r : r = Pc(w, "find")
  OBVIOUS
<1>3. r \in Task /\ r.pc = "find" /\ r.id = worker[w].id /\ r.local = worker[w].local
  BY <1>1, <1>2, PublishKnows DEF Pc, Task, AfterCall
<1>4. Set(w, r)
  BY <1>2 DEF PublishSkipped
<1>5. UNCHANGED << job, src, remote, rt, cur, pend, canc, trig, api, wanUnread, skipped, dropped, untold, orphan >>
  BY DEF PublishSkipped, outside, flags, past
<1> QED BY <1>1, <1>3, <1>4, <1>5, PublishKnows, PublishHolds

LEMMA PublishCutHolds ==
  ASSUME DdnsIInv, NEW w \in WorkerSlots, PublishCut(w)
  PROVE  DdnsIInv'
<1>1. worker[w].pc = "publish" /\ canc[cur]
  BY PublishKnows DEF PublishCut, Calls, cancelled
<1>2. PICK l : l = [worker[w].local EXCEPT !.due = FALSE]
  OBVIOUS
<1>3. l \in Runtime /\ l.st = worker[w].local.st /\ l.pub = worker[w].local.pub
  BY <1>1, <1>2, PublishKnows DEF Runtime
<1>4. PICK r : r = [worker[w] EXCEPT !.pc = "find", !.local = l]
  OBVIOUS
<1>5. r \in Task /\ r.pc = "find" /\ r.id = worker[w].id /\ r.local = l
  BY <1>1, <1>3, <1>4, PublishKnows DEF Task, AfterCall
<1>6. Set(w, r) /\ remote' \in {remote, worker[w].ip}
  BY <1>2, <1>4 DEF PublishCut
<1>7. untold' \in BOOLEAN /\ (~untold' => ~untold /\ remote' = remote)
  BY DEF PublishCut
<1>8. UNCHANGED << job, src, rt, cur, pend, canc, trig, api, wanUnread, skipped, dropped, orphan >>
  BY DEF PublishCut, flags
<1>9. remote' \in Sources
  BY <1>1, <1>6, PublishKnows
<1> QED BY <1>1, <1>3, <1>5, <1>6, <1>7, <1>8, <1>9, PublishKnows, PublishHolds

LEMMA SaveRuntimeHolds ==
  ASSUME DdnsIInv, NEW w \in WorkerSlots, SaveRuntime(w)
  PROVE  DdnsIInv'
<1>1. PICK r : r = [NoWork EXCEPT !.pc = "check", !.id = worker[w].id]
  OBVIOUS
<1>2. Runs(w) /\ worker[w].pc = "save" /\ Set(w, r) /\ rt' = worker[w].local
  BY <1>1 DEF SaveRuntime, Runs
<1>3. r \in Task /\ r.pc = "check" /\ r.id = worker[w].id
  BY <1>1, <1>2, Alone DEF DdnsIInv, Task, Runtime, Sources, NoWork, NoRuntime, AfterSave
<1>4. UNCHANGED << job, src, remote, cur, pend, canc, trig, api, wanUnread, skipped, dropped, untold, orphan >>
  BY DEF SaveRuntime, outside, flags, past
<1>5. /\ TasksHold' /\ CallsHold' /\ ChecksHold' /\ worker'[w] = r
      /\ \A v \in WorkerSlots : v # w => worker[v].pc = "idle" /\ worker'[v].pc = "idle"
  BY <1>2, <1>3, <1>4, RoundHolds DEF AfterSave
<1>6. rt' \in Runtime
  BY <1>2, Alone DEF DdnsIInv, Task
<1>7. DdnsTyped' /\ HistoryTyped' /\ CallersHold'
  BY <1>4, <1>6 DEF DdnsIInv, DdnsTyped, HistoryTyped, CallersHold
<1>8. ReportsHold'
  BY <1>2, <1>3, <1>4, <1>5 DEF DdnsIInv, ReportsHold, BeforeCall, AfterCall
<1>9. RecordsHold'
  <2>1. ~orphan /\ ~untold /\ job = "on" => worker[w].local.pub = remote
    BY <1>2 DEF DdnsIInv, RecordsHold, AfterCall
  <2> QED
    BY <2>1, <1>2, <1>3, <1>4, <1>5, RoundRecords DEF BeforeCall, AfterCall
<1>10. MarksHold'
  <2>1. CASE Called
    BY <2>1, <1>4, CalledStays DEF MarksHold
  <2>2. CASE \E v \in WorkerSlots : Again(v)
    <3>1. Again(w)'
      BY <2>2, <1>2, <1>3, <1>4, <1>5 DEF Again, Runs
    <3> QED BY <3>1 DEF MarksHold
  <2>3. CASE Seen
    <3>1. Seen'
      BY <2>3, <1>2, <1>3, <1>4, <1>5 DEF Seen, AfterCall
    <3> QED BY <3>1 DEF MarksHold
  <2> QED BY <2>1, <2>2, <2>3 DEF DdnsIInv, MarksHold
<1> QED BY <1>5, <1>7, <1>8, <1>9, <1>10 DEF DdnsIInv

\* A step of the task after its save, to another such place or to the next round.
LEMMA FinishHolds ==
  ASSUME DdnsIInv, NEW w \in WorkerSlots, worker[w].pc \in AfterSave, NEW r \in Task,
         r.pc \in {"start"} \cup AfterSave, r.id = worker[w].id,
         Set(w, r) \/ worker' = [StaleWork EXCEPT ![w] = r],
         UNCHANGED << job, src, remote, rt, cur, canc, api, wanUnread, skipped, untold, orphan >>,
         CallersHold', \A t \in Triggers : Calling(t) => Calling(t)',
         pend' \in [Entries -> BOOLEAN], dropped' \in BOOLEAN, dropped => dropped',
         Again(w) => (r.pc = "start" \/ pend'[cur] \/ (r.pc \in {"fload", "fswap", "fcas"} /\ r.keep))
  PROVE  DdnsIInv'
<1>1. Runs(w) /\ worker[w].pc # "clean" /\ r.pc \notin {"idle", "clean"}
  BY DEF Runs, AfterSave
<1>2. /\ TasksHold' /\ CallsHold' /\ ChecksHold' /\ worker'[w] = r
      /\ \A v \in WorkerSlots : v # w => worker[v].pc = "idle" /\ worker'[v].pc = "idle"
  BY <1>1, RoundHolds DEF AfterSave
<1>3. DdnsTyped' /\ HistoryTyped'
  BY DEF DdnsIInv, DdnsTyped, HistoryTyped
<1>4. ReportsHold'
  BY <1>2 DEF DdnsIInv, ReportsHold, BeforeCall, AfterCall, AfterSave
<1>5. RecordsHold'
  <2>1. ~orphan /\ ~untold /\ job = "on" => rt.pub = remote
    BY DEF DdnsIInv, RecordsHold
  <2> QED
    BY <2>1, <1>1, <1>2, RoundRecords DEF BeforeCall, AfterCall, AfterSave
<1>6. MarksHold'
  <2>1. CASE Called
    <3>1. Called'
      BY <2>1 DEF Called
    <3> QED BY <3>1 DEF MarksHold
  <2>2. CASE \E v \in WorkerSlots : Again(v)
    <3>1. Again(w)
      BY <2>2, <1>2 DEF Again, Runs
    <3>2. Again(w)'
      BY <3>1, <1>1, <1>2 DEF Again, Runs
    <3> QED BY <3>2 DEF MarksHold
  <2>3. CASE Seen
    <3>1. CASE r.pc = "start"
      <4>1. Again(w)'
        BY <3>1, <1>2 DEF Again, Runs
      <4> QED BY <4>1 DEF MarksHold
    <3>2. CASE r.pc \in AfterSave
      <4>1. Seen'
        BY <2>3, <3>2, <1>2 DEF Seen, AfterCall, AfterSave
      <4> QED BY <4>1 DEF MarksHold
    <3> QED BY <3>1, <3>2
  <2> QED BY <2>1, <2>2, <2>3 DEF DdnsIInv, MarksHold
<1> QED BY <1>2, <1>3, <1>4, <1>5, <1>6 DEF DdnsIInv

LEMMA FinishLoadHolds ==
  ASSUME DdnsIInv, NEW w \in WorkerSlots, FinishLoad(w)
  PROVE  DdnsIInv'
<1>1. PICK r : r = [worker[w] EXCEPT !.pc = "fswap", !.stale = FALSE]
  OBVIOUS
<1>2. worker[w].pc = "fload" /\ Set(w, r)
  BY <1>1 DEF FinishLoad
<1>3. r \in Task /\ r.pc = "fswap" /\ r.id = worker[w].id /\ r.keep = worker[w].keep
  BY <1>1, <1>2, Alone DEF DdnsIInv, Runs, Task, AfterSave
<1>4. UNCHANGED << job, src, remote, rt, cur, pend, canc, trig, api, wanUnread, skipped, dropped, untold, orphan >>
  BY DEF FinishLoad, outside, flags, past
<1>5. CallersHold' /\ \A t \in Triggers : Calling(t) => Calling(t)'
  BY <1>4 DEF DdnsIInv, CallersHold, Calling
<1>6. Again(w) => pend'[cur] \/ (r.pc \in {"fload", "fswap", "fcas"} /\ r.keep)
  BY <1>2, <1>3, <1>4 DEF Again
<1>7. pend' \in [Entries -> BOOLEAN] /\ dropped' \in BOOLEAN /\ (dropped => dropped')
  BY <1>4 DEF DdnsIInv, DdnsTyped, HistoryTyped
<1>8. worker[w].pc \in AfterSave /\ r.pc \in {"start"} \cup AfterSave
  BY <1>2, <1>3 DEF AfterSave
<1> QED BY <1>2, <1>3, <1>4, <1>5, <1>6, <1>7, <1>8, FinishHolds

LEMMA FinishSwapHolds ==
  ASSUME DdnsIInv, NEW w \in WorkerSlots, FinishSwap(w)
  PROVE  DdnsIInv'
<1>1. worker[w].pc = "fswap" /\ worker[w] \in Task /\ worker[w].id = cur /\ cur \in Entries
  BY Alone DEF FinishSwap, DdnsIInv, Runs
<1>2. PICK k \in BOOLEAN : k = (worker[w].keep \/ pend[cur])
  OBVIOUS
<1>3. PICK r : r = [worker[w] EXCEPT !.pc = "fcas", !.keep = k]
  OBVIOUS
<1>4. Set(w, r) /\ pend' = [pend EXCEPT ![cur] = FALSE]
  BY <1>1, <1>2, <1>3 DEF FinishSwap
<1>5. r \in Task /\ r.pc = "fcas" /\ r.id = worker[w].id /\ r.keep = k
  BY <1>1, <1>3 DEF Task, AfterSave
<1>6. UNCHANGED << job, src, remote, rt, cur, canc, trig, api, wanUnread, skipped, dropped, untold, orphan >>
  BY DEF FinishSwap, outside, past
<1>7. CallersHold' /\ \A t \in Triggers : Calling(t) => Calling(t)'
  BY <1>6 DEF DdnsIInv, CallersHold, Calling
<1>8. Again(w) => r.pc \in {"fload", "fswap", "fcas"} /\ r.keep
  BY <1>1, <1>2, <1>5 DEF Again
<1>9. pend' \in [Entries -> BOOLEAN] /\ dropped' \in BOOLEAN /\ (dropped => dropped')
  BY <1>1, <1>4, <1>6 DEF DdnsIInv, DdnsTyped, HistoryTyped
<1>10. worker[w].pc \in AfterSave /\ r.pc \in {"start"} \cup AfterSave
  BY <1>1, <1>5 DEF AfterSave
<1> QED BY <1>4, <1>5, <1>6, <1>7, <1>8, <1>9, <1>10, FinishHolds

\* What a task must leave behind when it ends.
LEMMA EndHolds ==
  ASSUME DdnsIInv, NEW w \in WorkerSlots, Runs(w), RemoveEntry(w),
         UNCHANGED << job, src, api, wanUnread >>, HistoryTyped', rt' \in Runtime, remote' \in Sources,
         ~untold' /\ rt'.st = "ok" => rt'.pub = remote',
         ~orphan' /\ ~untold' => ~orphan /\ rt'.pub = remote' /\ (job # "on" => remote' = 0),
         Called' \/ (rt'.st = "ok" => rt'.pub = src)
  PROVE  DdnsIInv'
<1>1. /\ TasksHold' /\ cur' = 0 /\ \A v \in WorkerSlots : worker'[v].pc = "idle"
      /\ pend' \in [Entries -> BOOLEAN] /\ canc' \in [Entries -> BOOLEAN]
  BY RemoveHolds DEF DdnsIInv
<1>2. CallersHold'
  BY StaleCallersHold DEF DdnsIInv, RemoveEntry
<1>3. DdnsTyped'
  BY <1>1 DEF DdnsIInv, DdnsTyped
<1>4. CallsHold'
  BY <1>1 DEF DdnsIInv, CallsHold
<1>5. ReportsHold'
  BY <1>1 DEF ReportsHold, BeforeCall, AfterCall
<1>6. ChecksHold'
  BY <1>1 DEF ChecksHold, AfterSave
<1>7. RecordsHold'
  <2>1. ~orphan => api.pc \in {"idle", "refresh"}
    BY Alone DEF DdnsIInv, ChecksHold
  <2> QED BY <2>1, <1>1 DEF RecordsHold, BeforeCall, AfterCall, AfterSave
<1>8. MarksHold'
  <2>1. CASE Called'
    BY <2>1 DEF MarksHold
  <2>2. CASE rt'.st = "ok" => rt'.pub = src
    <3>1. Seen'
      BY <2>2, <1>1 DEF Seen, AfterCall
    <3> QED BY <3>1 DEF MarksHold
  <2> QED BY <2>1, <2>2
<1> QED BY <1>1, <1>2, <1>3, <1>4, <1>5, <1>6, <1>7, <1>8 DEF DdnsIInv

\* A task after its save leaves what the runtime says.
LEMMA AfterSaveKnows ==
  ASSUME DdnsIInv, NEW w \in WorkerSlots, worker[w].pc \in AfterSave
  PROVE  /\ Runs(w) /\ worker[w].pc # "clean" /\ worker[w] \in Task /\ worker[w].id = cur /\ cur \in Entries
         /\ rt \in Runtime /\ remote \in Sources
         /\ ~untold /\ rt.st = "ok" => rt.pub = remote
         /\ ~orphan /\ ~untold => rt.pub = remote /\ job = "on"
<1>1. Runs(w) /\ worker[w].pc # "clean"
  BY DEF Runs, AfterSave
<1>2. worker[w] \in Task /\ worker[w].id = cur /\ cur \in Entries /\ \A v \in WorkerSlots : v # w => worker[v].pc = "idle"
  BY <1>1, Alone DEF DdnsIInv
<1>3. rt \in Runtime /\ remote \in Sources
  BY DEF DdnsIInv, DdnsTyped
<1>4. ~untold /\ rt.st = "ok" => rt.pub = remote
  BY <1>2 DEF DdnsIInv, ReportsHold, AfterCall, AfterSave
<1>5. ~orphan /\ ~untold => rt.pub = remote /\ job = "on"
  BY DEF DdnsIInv, RecordsHold, ChecksHold
<1> QED BY <1>1, <1>2, <1>3, <1>4, <1>5

LEMMA FinishCasHolds ==
  ASSUME DdnsIInv, NEW w \in WorkerSlots, FinishCas(w)
  PROVE  DdnsIInv'
<1>1. worker[w].pc = "fcas" /\ worker[w].pc \in AfterSave
  BY DEF FinishCas, AfterSave
<1>2. UNCHANGED << job, src, remote, rt, api, wanUnread, skipped, untold, orphan >>
  BY DEF FinishCas, outside
<1>3. dropped' \in BOOLEAN /\ (dropped => dropped')
  BY DEF FinishCas
<1>4. CASE worker[w].stale
  <2>1. PICK r : r = Pc(w, "fload")
    OBVIOUS
  <2>2. Set(w, r) /\ UNCHANGED << cur, pend, canc, trig >>
    BY <1>4, <2>1 DEF FinishCas, flags
  <2>3. r \in Task /\ r.pc = "fload" /\ r.id = worker[w].id /\ r.keep = worker[w].keep
    BY <1>1, <2>1, AfterSaveKnows DEF Task, Pc, AfterSave
  <2>4. CallersHold' /\ \A t \in Triggers : Calling(t) => Calling(t)'
    BY <2>2 DEF DdnsIInv, CallersHold, Calling
  <2>5. Again(w) => pend'[cur] \/ (r.pc \in {"fload", "fswap", "fcas"} /\ r.keep)
    BY <1>1, <2>2, <2>3 DEF Again
  <2>6. pend' \in [Entries -> BOOLEAN] /\ r.pc \in {"start"} \cup AfterSave
    BY <2>2, <2>3 DEF DdnsIInv, DdnsTyped, AfterSave
  <2> QED BY <1>1, <1>2, <1>3, <2>2, <2>3, <2>4, <2>5, <2>6, FinishHolds
<1>5. CASE ~worker[w].stale /\ worker[w].keep
  <2>1. PICK r : r = Pc(w, "start")
    OBVIOUS
  <2>2. worker' = [StaleWork EXCEPT ![w] = r] /\ trig' = StaleTrig /\ UNCHANGED << cur, pend, canc >>
    BY <1>5, <2>1 DEF FinishCas, flags
  <2>3. r \in Task /\ r.pc = "start" /\ r.id = worker[w].id
    BY <1>1, <2>1, AfterSaveKnows DEF Task, Pc
  <2>4. CallersHold' /\ \A t \in Triggers : Calling(t) => Calling(t)'
    BY <2>2, StaleCallersHold DEF DdnsIInv
  <2>5. pend' \in [Entries -> BOOLEAN] /\ r.pc \in {"start"} \cup AfterSave
    BY <2>2, <2>3 DEF DdnsIInv, DdnsTyped
  <2> QED BY <1>1, <1>2, <1>3, <2>2, <2>3, <2>4, <2>5, FinishHolds
<1>6. CASE ~worker[w].stale /\ ~worker[w].keep
  <2>1. RemoveEntry(w) /\ Runs(w)
    BY <1>1, <1>6 DEF FinishCas, Runs
  <2>2. HistoryTyped'
    BY <1>2, <1>3 DEF DdnsIInv, HistoryTyped
  <2>3. Called' \/ (rt'.st = "ok" => rt'.pub = src)
    <3>1. CASE Called
      <4>1. \A t \in Triggers : Calling(t) => Calling(t)'
        BY <2>1, StaleCallersHold DEF DdnsIInv, RemoveEntry
      <4> QED BY <3>1, <4>1, <1>2, <1>3 DEF Called
    <3>2. CASE \E v \in WorkerSlots : Again(v)
      <4>1. Again(w)
        BY <3>2, <2>1, Alone DEF DdnsIInv, Again, Runs
      <4>2. pend[worker[w].id]
        BY <4>1, <1>1, <1>6, AfterSaveKnows DEF Again
      <4>3. dropped'
        BY <4>2, <1>6 DEF FinishCas
      <4> QED BY <4>3 DEF Called
    <3>3. CASE Seen
      <4>1. \A v \in WorkerSlots : worker[v].pc \in {"idle"} \cup AfterSave
        BY <2>1, <1>1, Alone DEF DdnsIInv
      <4> QED BY <3>3, <4>1, <1>2 DEF Seen
    <3> QED BY <3>1, <3>2, <3>3 DEF DdnsIInv, MarksHold
  <2> QED BY <1>1, <1>2, <2>1, <2>2, <2>3, AfterSaveKnows, EndHolds
<1> QED BY <1>4, <1>5, <1>6

LEMMA CheckCancelHolds ==
  ASSUME DdnsIInv, NEW w \in WorkerSlots, CheckCancel(w)
  PROVE  DdnsIInv'
<1>1. worker[w].pc = "check" /\ worker[w].pc \in AfterSave
  BY DEF CheckCancel, AfterSave
<1>2. UNCHANGED << job, src, remote, rt, api, wanUnread, dropped, untold, orphan >>
  BY DEF CheckCancel, outside
<1>3. CASE cancelled(w)
  <2>1. RemoveEntry(w) /\ skipped' = TRUE
    BY <1>3 DEF CheckCancel
  <2>2. HistoryTyped' /\ Called'
    BY <1>2, <2>1 DEF DdnsIInv, HistoryTyped, Called
  <2> QED BY <1>1, <1>2, <2>1, <2>2, AfterSaveKnows, EndHolds
<1>4. CASE ~cancelled(w)
  <2>1. PICK r : r = Pc(w, "fload")
    OBVIOUS
  <2>2. Set(w, r) /\ UNCHANGED << cur, pend, canc, trig, skipped >>
    BY <1>4, <2>1 DEF CheckCancel, flags
  <2>3. r \in Task /\ r.pc = "fload" /\ r.id = worker[w].id
    BY <1>1, <2>1, AfterSaveKnows DEF Task, Pc, AfterSave
  <2>4. CallersHold' /\ \A t \in Triggers : Calling(t) => Calling(t)'
    BY <2>2 DEF DdnsIInv, CallersHold, Calling
  <2>5. Again(w) => pend'[cur]
    BY <1>1, <1>4, <2>2, AfterSaveKnows DEF Again, cancelled
  <2>6. pend' \in [Entries -> BOOLEAN] /\ dropped' \in BOOLEAN /\ r.pc \in {"start"} \cup AfterSave
    BY <1>2, <2>2, <2>3 DEF DdnsIInv, DdnsTyped, HistoryTyped, AfterSave
  <2> QED BY <1>1, <1>2, <2>2, <2>3, <2>4, <2>5, <2>6, FinishHolds
<1> QED BY <1>3, <1>4

LEMMA FindJobHolds ==
  ASSUME DdnsIInv, NEW w \in WorkerSlots, FindJob(w)
  PROVE  DdnsIInv'
<1>1. worker[w].pc = "find" /\ Runs(w)
  BY DEF FindJob, Runs
<1>2. UNCHANGED << job, src, remote, rt, api, wanUnread, dropped >>
  BY DEF FindJob, outside
<1>3. CASE job = "on"
  <2>1. PICK r : r = Pc(w, "save")
    OBVIOUS
  <2>2. Set(w, r) /\ UNCHANGED << cur, pend, canc, trig, untold, orphan, skipped >>
    BY <1>3, <2>1 DEF FindJob, flags
  <2>3. r \in Task /\ r.pc = "save" /\ r.id = worker[w].id /\ r.local = worker[w].local
    BY <1>1, <2>1, Alone DEF DdnsIInv, Task, Pc, AfterCall
  <2>4. /\ TasksHold' /\ CallsHold' /\ ChecksHold' /\ worker'[w] = r
        /\ \A v \in WorkerSlots : v # w => worker[v].pc = "idle" /\ worker'[v].pc = "idle"
    BY <1>1, <1>2, <1>3, <2>2, <2>3, RoundHolds
  <2>5. DdnsTyped' /\ HistoryTyped' /\ CallersHold'
    BY <1>2, <2>2 DEF DdnsIInv, DdnsTyped, HistoryTyped, CallersHold
  <2>6. ReportsHold'
    BY <1>1, <1>2, <2>2, <2>3, <2>4 DEF DdnsIInv, ReportsHold, BeforeCall, AfterCall
  <2>7. RecordsHold'
    <3>1. ~orphan /\ ~untold /\ job = "on" => worker[w].local.pub = remote
      BY <1>1 DEF DdnsIInv, RecordsHold, AfterCall
    <3> QED
      BY <3>1, <1>1, <1>2, <2>2, <2>3, <2>4, RoundRecords DEF AfterSave
  <2>8. MarksHold'
    <3>1. CASE Called
      BY <3>1, <1>2, <2>2, CalledStays DEF MarksHold
    <3>2. CASE \E v \in WorkerSlots : Again(v)
      <4>1. Again(w)'
        BY <3>2, <1>1, <2>2, <2>3, <2>4 DEF Again, Runs
      <4> QED BY <4>1 DEF MarksHold
    <3>3. CASE Seen
      <4>1. Seen'
        BY <3>3, <1>1, <1>2, <2>2, <2>3, <2>4 DEF Seen, AfterCall, AfterSave
      <4> QED BY <4>1 DEF MarksHold
    <3> QED BY <3>1, <3>2, <3>3 DEF DdnsIInv, MarksHold
  <2> QED BY <2>4, <2>5, <2>6, <2>7, <2>8 DEF DdnsIInv
<1>4. CASE job # "on"
  <2>1. RemoveEntry(w) /\ skipped' = TRUE
    BY <1>4 DEF FindJob
  <2>2. /\ untold' \in BOOLEAN /\ (~untold' => remote = rt.pub)
        /\ orphan' \in BOOLEAN /\ (~orphan' => ~orphan /\ remote = 0)
    BY <1>4 DEF FindJob
  <2>3. HistoryTyped' /\ Called' /\ rt \in Runtime /\ remote \in Sources
    BY <1>2, <2>1, <2>2 DEF DdnsIInv, DdnsTyped, HistoryTyped, Called
  <2> QED BY <1>1, <1>2, <2>1, <2>2, <2>3, EndHolds
<1> QED BY <1>3, <1>4

(***************************************************************************)
(* The clean-up                                                            *)
(***************************************************************************)
LEMMA CleanKnows ==
  ASSUME DdnsIInv, NEW w \in WorkerSlots, worker[w].pc = "clean"
  PROVE  /\ Runs(w) /\ job # "on" /\ rt \in Runtime /\ remote \in Sources /\ 0 \in Sources
         /\ ~untold /\ rt.st = "ok" => rt.pub = remote
<1>1. Runs(w)
  BY DEF Runs
<1>2. \A v \in WorkerSlots : v # w => worker[v].pc = "idle"
  BY <1>1, Alone DEF DdnsIInv
<1>3. ~untold /\ rt.st = "ok" => rt.pub = remote
  BY <1>2 DEF DdnsIInv, ReportsHold, AfterCall
<1> QED BY <1>1, <1>3 DEF DdnsIInv, DdnsTyped, CallsHold, Sources

LEMMA CleanUpHolds ==
  ASSUME DdnsIInv, NEW w \in WorkerSlots, CleanUp(w)
  PROVE  DdnsIInv'
<1>1. worker[w].pc = "clean" /\ RemoveEntry(w) /\ remote' = 0 /\ untold' = FALSE
  BY DEF CleanUp
<1>2. UNCHANGED << job, src, api, wanUnread, skipped, dropped, orphan >>
  BY DEF CleanUp
<1>3. rt' \in Runtime /\ rt'.pub = 0 /\ rt'.st # "ok"
  BY <1>1, CleanKnows DEF CleanUp, Runtime, NoRuntime
<1>4. HistoryTyped' /\ Called'
  BY <1>1, <1>2, CleanKnows DEF DdnsIInv, HistoryTyped, Called
<1> QED BY <1>1, <1>2, <1>3, <1>4, CleanKnows, EndHolds

LEMMA CleanUpFailsHolds ==
  ASSUME DdnsIInv, NEW w \in WorkerSlots, CleanUpFails(w)
  PROVE  DdnsIInv'
<1>1. worker[w].pc = "clean" /\ RemoveEntry(w) /\ orphan' = TRUE
  BY DEF CleanUpFails
<1>2. untold' \in BOOLEAN /\ (~untold' => ~untold /\ remote' = remote)
  BY DEF CleanUpFails
<1>3. UNCHANGED << job, src, api, wanUnread, skipped, dropped >>
  BY DEF CleanUpFails
<1>4. remote' \in Sources
  BY <1>1, CleanKnows DEF CleanUpFails
<1>5. rt' \in Runtime /\ (rt'.st = "ok" => rt' = rt)
  <2>1. rt' = rt \/ rt' = [st |-> "error", pub |-> rt.pub, due |-> FALSE]
    BY DEF CleanUpFails
  <2>2. rt \in Runtime
    BY <1>1, CleanKnows
  <2>3. PICK r : r = [st |-> "error", pub |-> rt.pub, due |-> FALSE]
    OBVIOUS
  <2>4. r \in Runtime /\ r.st = "error"
    BY <2>2, <2>3 DEF Runtime
  <2> QED BY <2>1, <2>2, <2>3, <2>4
<1>6. HistoryTyped' /\ Called'
  BY <1>1, <1>2, <1>3, CleanKnows DEF DdnsIInv, HistoryTyped, Called
<1> QED BY <1>1, <1>2, <1>3, <1>4, <1>5, <1>6, CleanKnows, EndHolds

LEMMA CleanUpCutHolds ==
  ASSUME DdnsIInv, NEW w \in WorkerSlots, CleanUpCut(w)
  PROVE  DdnsIInv'
<1>1. worker[w].pc = "clean" /\ RemoveEntry(w) /\ orphan' = TRUE
  BY DEF CleanUpCut
<1>2. untold' \in BOOLEAN /\ (~untold' => ~untold /\ remote' = remote)
  BY DEF CleanUpCut
<1>3. UNCHANGED << job, src, rt, api, wanUnread, skipped, dropped >>
  BY DEF CleanUpCut
<1>4. remote' \in Sources
  BY <1>1, CleanKnows DEF CleanUpCut
<1>5. HistoryTyped' /\ Called'
  BY <1>1, <1>2, <1>3, CleanKnows DEF DdnsIInv, HistoryTyped, Called
<1> QED BY <1>1, <1>2, <1>3, <1>4, <1>5, CleanKnows, EndHolds

(***************************************************************************)
(* The callers                                                             *)
(***************************************************************************)
\* A step of a caller leaves the tasks and what they know alone.
LEMMA CallerHolds ==
  ASSUME DdnsIInv, UNCHANGED << job, src, remote, rt, cur, canc, worker, api, untold, orphan >>,
         CallersHold', HistoryTyped', wanUnread' \in 0 .. WanRoom, pend' \in [Entries -> BOOLEAN], MarksHold'
  PROVE  DdnsIInv'
<1>1. DdnsTyped'
  BY DEF DdnsIInv, DdnsTyped
<1>2. TasksHold'
  BY DEF DdnsIInv, TasksHold, Runs
<1>3. CallsHold' /\ ReportsHold' /\ ChecksHold' /\ RecordsHold'
  BY DEF DdnsIInv, CallsHold, ReportsHold, ChecksHold, RecordsHold
<1> QED BY <1>1, <1>2, <1>3 DEF DdnsIInv

LEMMA EnterHolds ==
  ASSUME CallersHold, NEW t \in Triggers, Enter(t), UNCHANGED cur
  PROVE  CallersHold' /\ Calling(t)'
<1>1. PICK r : r = [NoTrig EXCEPT !.pc = "load"]
  OBVIOUS
<1>2. r \in Caller /\ r.pc = "load"
  BY <1>1 DEF NoTrig, Caller
<1>3. trig' = [trig EXCEPT ![t] = r]
  BY <1>1 DEF Enter
<1> QED BY <1>2, <1>3 DEF CallersHold, Calling

LEMMA SyncTickHolds ==
  ASSUME DdnsIInv, SyncTick
  PROVE  DdnsIInv'
<1>1. UNCHANGED << job, src, remote, rt, cur, pend, canc, worker, api, wanUnread, untold, orphan >>
  BY DEF SyncTick, outside, flags
<1>2. CallersHold' /\ Calling("tick")'
  BY <1>1, EnterHolds DEF DdnsIInv, SyncTick, Triggers
<1>3. HistoryTyped' /\ wanUnread' \in 0 .. WanRoom /\ pend' \in [Entries -> BOOLEAN]
  BY <1>1 DEF DdnsIInv, SyncTick, HistoryTyped, DdnsTyped
<1>4. MarksHold'
  BY <1>2 DEF MarksHold, Called, Triggers
<1> QED BY <1>1, <1>2, <1>3, <1>4, CallerHolds

LEMMA WanEventHolds ==
  ASSUME DdnsIInv, WanEvent
  PROVE  DdnsIInv'
<1>1. UNCHANGED << job, src, remote, rt, cur, pend, canc, worker, api, skipped, dropped, untold, orphan >>
  BY DEF WanEvent, outside, flags, past
<1>2. HistoryTyped' /\ pend' \in [Entries -> BOOLEAN]
  BY <1>1 DEF DdnsIInv, HistoryTyped, DdnsTyped
<1>3. wanUnread' \in 0 .. WanRoom
  BY DdnsConstants DEF DdnsIInv, WanEvent, DdnsTyped
<1>4. CASE job = "on"
  <2>1. CallersHold' /\ Calling("wan")'
    BY <1>1, <1>4, EnterHolds DEF DdnsIInv, WanEvent, Triggers
  <2>2. MarksHold'
    BY <2>1 DEF MarksHold, Called, Triggers
  <2> QED BY <1>1, <1>2, <1>3, <2>1, <2>2, CallerHolds
<1>5. CASE job # "on"
  <2>1. CallersHold'
    BY <1>1, <1>5 DEF DdnsIInv, WanEvent, CallersHold
  <2>2. MarksHold'
    BY <1>1, <1>5 DEF MarksHold, Called
  <2> QED BY <1>1, <1>2, <1>3, <2>1, <2>2, CallerHolds
<1> QED BY <1>4, <1>5

LEMMA CasRetryHolds ==
  ASSUME DdnsIInv, NEW t \in Triggers, CasRetry(t)
  PROVE  DdnsIInv'
<1>1. UNCHANGED << job, src, remote, rt, cur, pend, canc, worker, api, wanUnread, skipped, dropped, untold, orphan >>
  BY DEF CasRetry, outside, flags, past
<1>2. CallersHold' /\ Calling(t)'
  BY <1>1, EnterHolds DEF DdnsIInv, CasRetry
<1>3. HistoryTyped' /\ wanUnread' \in 0 .. WanRoom /\ pend' \in [Entries -> BOOLEAN]
  BY <1>1 DEF DdnsIInv, HistoryTyped, DdnsTyped
<1>4. MarksHold'
  BY <1>2 DEF MarksHold, Called
<1> QED BY <1>1, <1>2, <1>3, <1>4, CallerHolds

LEMMA LoadHolds ==
  ASSUME DdnsIInv, NEW t \in Triggers, Load(t)
  PROVE  DdnsIInv'
<1>1. UNCHANGED << job, src, remote, rt, cur, pend, canc, worker, api, wanUnread, skipped, dropped, untold, orphan >>
  BY DEF Load, outside, flags, past
<1>2. PICK r : r = [pc |-> IF cur = 0 THEN "cas" ELSE "mark", id |-> cur, stale |-> FALSE]
  OBVIOUS
<1>3. /\ r \in Caller /\ r.id = cur /\ (r.pc = "mark" => r.id # 0)
      /\ r.pc = "mark" \/ (r.pc = "cas" /\ r.id = 0)
  BY <1>2 DEF DdnsIInv, TasksHold, Caller
<1>4. trig' = [trig EXCEPT ![t] = r]
  BY <1>2 DEF Load
<1>5. CallersHold' /\ Calling(t)'
  BY <1>1, <1>3, <1>4 DEF DdnsIInv, CallersHold, Calling
<1>6. HistoryTyped' /\ wanUnread' \in 0 .. WanRoom /\ pend' \in [Entries -> BOOLEAN]
  BY <1>1 DEF DdnsIInv, HistoryTyped, DdnsTyped
<1>7. MarksHold'
  BY <1>5 DEF MarksHold, Called
<1> QED BY <1>1, <1>5, <1>6, <1>7, CallerHolds

LEMMA MarkHolds ==
  ASSUME DdnsIInv, NEW t \in Triggers, Mark(t)
  PROVE  DdnsIInv'
<1>1. UNCHANGED << job, src, remote, rt, cur, canc, worker, api, wanUnread, skipped, dropped, untold, orphan >>
  BY DEF Mark, outside, past
<1>2. PICK r : r = [trig[t] EXCEPT !.pc = "cas"]
  OBVIOUS
<1>3. trig[t] \in Caller /\ trig[t].pc = "mark" /\ trig[t].id # 0 /\ (~trig[t].stale => trig[t].id = cur)
  BY DEF Mark, DdnsIInv, CallersHold
<1>4. r \in Caller /\ r.pc = "cas" /\ r.id = trig[t].id /\ r.stale = trig[t].stale
  BY <1>2, <1>3 DEF Caller
<1>5. trig' = [trig EXCEPT ![t] = r]
  BY <1>2 DEF Mark
<1>6. CallersHold'
  BY <1>1, <1>3, <1>4, <1>5 DEF DdnsIInv, CallersHold
<1>7. pend' \in [Entries -> BOOLEAN]
  BY DEF DdnsIInv, DdnsTyped, TasksHold, Mark
<1>8. HistoryTyped' /\ wanUnread' \in 0 .. WanRoom
  BY <1>1 DEF DdnsIInv, HistoryTyped, DdnsTyped
<1>9. MarksHold'
  <2>1. CASE trig[t].stale
    <3>1. Calling(t)'
      BY <2>1, <1>4, <1>5 DEF DdnsIInv, CallersHold, Calling
    <3> QED BY <3>1 DEF MarksHold, Called
  <2>2. CASE ~trig[t].stale
    <3>1. cur # 0 /\ trig[t].id = cur
      BY <2>2, <1>3
    <3>2. PICK w \in WorkerSlots : Runs(w)
      BY <3>1 DEF DdnsIInv, TasksHold
    <3>3. cur \in Entries
      BY <3>1 DEF DdnsIInv, TasksHold
    <3>4. pend'[cur]
      BY <3>1, <3>3 DEF Mark, DdnsIInv, DdnsTyped
    <3>5. Again(w)'
      BY <3>2, <3>4, <1>1 DEF Again, Runs
    <3> QED BY <3>5 DEF MarksHold
  <2> QED BY <2>1, <2>2
<1> QED BY <1>1, <1>6, <1>7, <1>8, <1>9, CallerHolds

LEMMA NoTrigIs == NoTrig \in Caller /\ NoTrig.pc = "idle"
  BY DEF NoTrig, Caller

LEMMA CasMarkedHolds ==
  ASSUME DdnsIInv, NEW t \in Triggers, CasMarked(t)
  PROVE  DdnsIInv'
<1>1. UNCHANGED << job, src, remote, rt, cur, pend, canc, worker, api, wanUnread, skipped, dropped, untold, orphan >>
  BY DEF CasMarked, outside, flags, past
<1>2. trig' = [trig EXCEPT ![t] = NoTrig] /\ ~Calling(t)
  BY DEF CasMarked, Calling
<1>3. CallersHold' /\ \A u \in Triggers : Calling(u) => Calling(u)'
  BY <1>1, <1>2, NoTrigIs DEF DdnsIInv, CallersHold, Calling
<1>4. HistoryTyped' /\ wanUnread' \in 0 .. WanRoom /\ pend' \in [Entries -> BOOLEAN]
  BY <1>1 DEF DdnsIInv, HistoryTyped, DdnsTyped
<1>5. Called => Called'
  BY <1>1, <1>3 DEF Called
<1>6. (\E w \in WorkerSlots : Again(w)) => (\E w \in WorkerSlots : Again(w))'
  BY <1>1 DEF Again, Runs
<1>7. Seen => Seen'
  BY <1>1 DEF Seen
<1>8. MarksHold'
  BY <1>5, <1>6, <1>7 DEF DdnsIInv, MarksHold
<1> QED BY <1>1, <1>3, <1>4, <1>8, CallerHolds

\* Another entry changes: attempts on the map are lost, nothing else.
LEMMA OtherEntryHolds ==
  ASSUME DdnsIInv, OtherEntry
  PROVE  DdnsIInv'
<1>1. UNCHANGED << job, src, remote, rt, cur, pend, canc, api, wanUnread, skipped, dropped, untold, orphan >>
  BY DEF OtherEntry, outside, flags, past
<1>2. CallersHold' /\ \A t \in Triggers : Calling(t) => Calling(t)'
  BY StaleCallersHold DEF DdnsIInv, OtherEntry
<1>3. /\ worker' \in [WorkerSlots -> Task]
      /\ \A v \in WorkerSlots : /\ worker'[v].pc = worker[v].pc /\ worker'[v].id = worker[v].id
                                /\ worker'[v].local = worker[v].local /\ worker'[v].ip = worker[v].ip
                                /\ worker'[v].keep = worker[v].keep
  BY StaleTasks DEF DdnsIInv, OtherEntry, StaleWork
<1>4. DdnsTyped' /\ HistoryTyped'
  BY <1>1 DEF DdnsIInv, DdnsTyped, HistoryTyped
<1>5. TasksHold'
  BY <1>1, <1>3 DEF DdnsIInv, TasksHold, Runs
<1>6. CallsHold' /\ ChecksHold'
  BY <1>1, <1>3 DEF DdnsIInv, CallsHold, ChecksHold
<1>7. ReportsHold'
  BY <1>1, <1>3 DEF DdnsIInv, ReportsHold
<1>8. RecordsHold'
  BY <1>1, <1>3 DEF DdnsIInv, RecordsHold
<1>9. MarksHold'
  <2>1. Called => Called'
    BY <1>1, <1>2 DEF Called
  <2>2. \A w \in WorkerSlots : Again(w) => Again(w)'
    BY <1>1, <1>3 DEF Again, Runs
  <2>3. Seen => Seen'
    BY <1>1, <1>3 DEF Seen
  <2> QED BY <2>1, <2>2, <2>3 DEF DdnsIInv, MarksHold
<1> QED BY <1>2, <1>4, <1>5, <1>6, <1>7, <1>8, <1>9 DEF DdnsIInv

\* A sync starts.
LEMMA SpawnedHolds ==
  ASSUME DdnsIInv, cur = 0, Spawn("start"), Hasty, CallersHold',
         UNCHANGED << job, src, remote, rt, api, wanUnread, skipped, dropped, untold >>
  PROVE  DdnsIInv'
<1>1. /\ TasksHold' /\ cur' # 0 /\ pend' \in [Entries -> BOOLEAN] /\ canc' \in [Entries -> BOOLEAN]
      /\ \E w \in WorkerSlots :
           worker'[w].pc = "start" /\ \A v \in WorkerSlots : v # w => worker'[v].pc = "idle"
      /\ \A w \in WorkerSlots : worker[w].pc = "idle"
  BY SpawnHolds DEF DdnsIInv
<1>2. PICK w \in WorkerSlots :
        worker'[w].pc = "start" /\ \A v \in WorkerSlots : v # w => worker'[v].pc = "idle"
  BY <1>1
<1>3. orphan' \in BOOLEAN /\ (~orphan' => ~orphan /\ api.pc = "idle")
  BY DEF Hasty
<1>4. DdnsTyped' /\ HistoryTyped'
  BY <1>1, <1>3 DEF DdnsIInv, DdnsTyped, HistoryTyped
<1>5. CallsHold'
  BY <1>2 DEF DdnsIInv, CallsHold
<1>6. ReportsHold'
  BY <1>1, <1>2 DEF DdnsIInv, ReportsHold, BeforeCall, AfterCall
<1>7. ChecksHold'
  BY <1>2, <1>3 DEF ChecksHold, AfterSave
<1>8. RecordsHold'
  <2>1. ~orphan' /\ ~untold => rt.pub = remote
    BY <1>3 DEF DdnsIInv, RecordsHold
  <2> QED BY <2>1, <1>1, <1>2, <1>3 DEF RecordsHold, BeforeCall, AfterCall, AfterSave
<1>9. MarksHold'
  BY <1>2 DEF MarksHold, Again, Runs
<1> QED BY <1>1, <1>4, <1>5, <1>6, <1>7, <1>8, <1>9 DEF DdnsIInv

LEMMA CasStartedHolds ==
  ASSUME DdnsIInv, NEW t \in Triggers, CasStarted(t)
  PROVE  DdnsIInv'
<1>1. UNCHANGED << job, src, remote, rt, api, wanUnread, skipped, dropped, untold >>
  BY DEF CasStarted, outside
<1>2. cur = 0 /\ Spawn("start") /\ Hasty
  BY DEF CasStarted, DdnsIInv, CallersHold
<1>3. CallersHold'
  BY StaleCallers, NoTrigIs DEF DdnsIInv, CallersHold, CasStarted
<1> QED BY <1>1, <1>2, <1>3, SpawnedHolds

LEMMA SyncJobNowHolds ==
  ASSUME DdnsIInv, SyncJobNow
  PROVE  DdnsIInv'
<1>1. UNCHANGED << job, src, remote, rt, api, wanUnread, skipped, dropped, untold >>
  BY DEF SyncJobNow, outside
<1>2. cur = 0 /\ Spawn("start") /\ Hasty
  BY DEF SyncJobNow
<1>3. CallersHold'
  BY StaleCallersHold DEF DdnsIInv, SyncJobNow
<1> QED BY <1>1, <1>2, <1>3, SpawnedHolds

(***************************************************************************)
(* The API                                                                 *)
(***************************************************************************)
\* No task runs while a call is under way that started on its heels.
LEMMA NobodyRuns ==
  ASSUME DdnsIInv, cur = 0
  PROVE  \A w \in WorkerSlots : worker[w].pc = "idle"
  BY DEF DdnsIInv, TasksHold, Runs

LEMMA MarksStay ==
  ASSUME DdnsIInv, UNCHANGED << job, src, rt, cur, pend, trig, worker, wanUnread, skipped, dropped >>,
         api.pc # "notify" \/ api'.pc = "notify", \A i \in Entries : canc[i] => canc'[i]
  PROVE  MarksHold'
<1>1. Called => Called'
  BY DEF Called, Calling
<1>2. \A w \in WorkerSlots : Again(w) => Again(w)'
  BY Alone DEF DdnsIInv, Again, Runs
<1>3. Seen => Seen'
  BY DEF Seen
<1> QED BY <1>1, <1>2, <1>3 DEF DdnsIInv, MarksHold

LEMMA ApiCallHolds ==
  ASSUME DdnsIInv, NEW want \in {"none", "off", "on"}, ApiCall(want)
  PROVE  DdnsIInv'
<1>1. UNCHANGED << job, src, remote, rt, cur, pend, canc, trig, worker, wanUnread, skipped, dropped, untold, orphan >>
  BY DEF ApiCall, outside, flags, past
<1>2. api' \in Call /\ api'.pc = "capture" /\ api.pc = "idle" /\ cur = 0
  BY DEF ApiCall, NoApi, Call
<1>3. \A w \in WorkerSlots : worker[w].pc = "idle"
  BY <1>2, NobodyRuns
<1>4. DdnsTyped' /\ HistoryTyped' /\ CallersHold' /\ TasksHold'
  BY <1>1 DEF DdnsIInv, DdnsTyped, HistoryTyped, CallersHold, TasksHold, Runs
<1>5. CallsHold' /\ ReportsHold'
  BY <1>1, <1>2, <1>3 DEF DdnsIInv, CallsHold, ReportsHold
<1>6. ChecksHold' /\ RecordsHold'
  BY <1>1, <1>2, <1>3 DEF DdnsIInv, ChecksHold, RecordsHold, BeforeCall, AfterCall, AfterSave
<1>7. MarksHold'
  BY <1>1, <1>2, MarksStay
<1> QED BY <1>4, <1>5, <1>6, <1>7 DEF DdnsIInv

LEMMA CaptureHolds ==
  ASSUME DdnsIInv, Capture
  PROVE  DdnsIInv'
<1>1. UNCHANGED << job, src, remote, rt, cur, pend, canc, trig, worker, wanUnread, skipped, dropped, untold, orphan >>
  BY DEF Capture, outside, flags, past
<1>2. PICK b \in BOOLEAN : b = ((api.want = "none" \/ (api.want = "off" /\ job = "on")) /\ rt.pub # 0)
  OBVIOUS
<1>3. api.pc = "capture" /\ api' = [api EXCEPT !.pc = "store", !.targets = b] /\ api \in Call
  BY <1>2 DEF Capture, DdnsIInv, CallsHold
<1>4. api' \in Call /\ api'.pc = "store" /\ api'.want = api.want /\ api'.targets = b
  BY <1>3 DEF Call
<1>5. DdnsTyped' /\ HistoryTyped' /\ CallersHold' /\ TasksHold'
  BY <1>1 DEF DdnsIInv, DdnsTyped, HistoryTyped, CallersHold, TasksHold, Runs
<1>6. CallsHold' /\ ReportsHold'
  BY <1>1, <1>3, <1>4 DEF DdnsIInv, CallsHold, ReportsHold
<1>7. ChecksHold'
  BY <1>1, <1>3, <1>4 DEF DdnsIInv, ChecksHold
<1>8. RecordsHold'
  <2>1. ~orphan => cur = 0
    BY <1>3 DEF DdnsIInv, ChecksHold
  <2>2. ~orphan /\ ~untold => rt.pub = remote /\ (job # "on" => remote = 0)
    BY <2>1, <1>3 DEF DdnsIInv, RecordsHold
  <2>3. ~orphan /\ ~untold /\ api.want # "on" /\ ~b => remote = 0
    BY <2>2, <1>2, <1>3 DEF Call
  <2>4. ~orphan => \A w \in WorkerSlots : worker[w].pc = "idle"
    BY <2>1, NobodyRuns
  <2> QED BY <2>1, <2>2, <2>3, <2>4, <1>1, <1>4 DEF RecordsHold, BeforeCall, AfterCall, AfterSave
<1>9. MarksHold'
  BY <1>1, <1>3, MarksStay
<1> QED BY <1>5, <1>6, <1>7, <1>8, <1>9 DEF DdnsIInv

LEMMA StoreJobHolds ==
  ASSUME DdnsIInv, StoreJob
  PROVE  DdnsIInv'
<1>1. UNCHANGED << src, remote, rt, cur, pend, canc, trig, worker, wanUnread, skipped, dropped, untold, orphan >>
  BY DEF StoreJob, flags, past
<1>2. api.pc = "store" /\ api' = [api EXCEPT !.pc = "notify"] /\ job' = api.want /\ api \in Call
  BY DEF StoreJob, DdnsIInv, CallsHold
<1>3. api' \in Call /\ api'.pc = "notify" /\ api'.want = api.want /\ api'.targets = api.targets
  BY <1>2 DEF Call
<1>4. ~orphan => cur = 0 /\ \A w \in WorkerSlots : worker[w].pc = "idle"
  BY <1>2, NobodyRuns DEF DdnsIInv, ChecksHold
<1>5. DdnsTyped' /\ HistoryTyped' /\ CallersHold' /\ TasksHold'
  BY <1>1, <1>2 DEF DdnsIInv, DdnsTyped, HistoryTyped, CallersHold, TasksHold, Runs, Call
<1>6. CallsHold' /\ ReportsHold'
  BY <1>1, <1>2, <1>3 DEF DdnsIInv, CallsHold, ReportsHold
<1>7. ChecksHold'
  BY <1>1, <1>4 DEF ChecksHold, AfterSave
<1>8. RecordsHold'
  <2>1. ~orphan /\ ~untold => rt.pub = remote /\ (api.want # "on" /\ ~api.targets => remote = 0)
    BY <1>2, <1>4 DEF DdnsIInv, RecordsHold
  <2> QED BY <2>1, <1>1, <1>3, <1>4 DEF RecordsHold, BeforeCall, AfterCall, AfterSave
<1>9. MarksHold'
  BY <1>3 DEF MarksHold, Called
<1> QED BY <1>5, <1>6, <1>7, <1>8, <1>9 DEF DdnsIInv

LEMMA NotifyJobHolds ==
  ASSUME DdnsIInv, NotifyJob
  PROVE  DdnsIInv'
<1>1. UNCHANGED << job, src, remote, cur, pend, canc, worker, wanUnread, skipped, dropped, untold, orphan >>
  BY DEF NotifyJob, outside, flags, past
<1>2. api.pc = "notify" /\ api \in Call /\ job = api.want /\ rt \in Runtime
  BY DEF NotifyJob, DdnsIInv, CallsHold, DdnsTyped
<1>3. ~orphan => cur = 0 /\ \A w \in WorkerSlots : worker[w].pc = "idle"
  BY <1>2, NobodyRuns DEF DdnsIInv, ChecksHold
<1>4. HistoryTyped' /\ TasksHold'
  BY <1>1 DEF DdnsIInv, HistoryTyped, TasksHold, Runs
<1>5. \A w \in WorkerSlots : worker[w].pc # "clean"
  BY <1>2 DEF DdnsIInv, CallsHold
<1>6. CASE api.want = "on"
  <2>1. PICK r : r = [Build(TRUE, rt) EXCEPT !.due = TRUE]
    OBVIOUS
  <2>2. r \in Runtime /\ r.pub = rt.pub /\ (r.st = "ok" => rt.st = "ok")
    BY <2>1, <1>2, BuildKeeps DEF Runtime
  <2>3. rt' = r /\ Enter("api") /\ api' = NoApi
    BY <1>6, <2>1 DEF NotifyJob
  <2>4. NoApi \in Call /\ NoApi.pc = "idle"
    BY DEF NoApi, Call
  <2>5. CallersHold' /\ Calling("api")'
    BY <2>3, <1>1, EnterHolds DEF DdnsIInv, Triggers
  <2>6. DdnsTyped'
    BY <1>1, <2>2, <2>3 DEF DdnsIInv, DdnsTyped
  <2>7. CallsHold'
    BY <1>1, <1>5, <2>3, <2>4 DEF CallsHold
  <2>8. ReportsHold'
    BY <1>1, <2>2, <2>3 DEF DdnsIInv, ReportsHold
  <2>9. ChecksHold'
    BY <1>1, <1>3 DEF ChecksHold, AfterSave
  <2>10. RecordsHold'
    <3>1. ~orphan /\ ~untold => rt.pub = remote
      BY <1>2, <1>6 DEF DdnsIInv, RecordsHold
    <3> QED
      BY <3>1, <1>1, <1>2, <1>3, <1>6, <2>2, <2>3, <2>4 DEF RecordsHold, BeforeCall, AfterCall, AfterSave
  <2>11. MarksHold'
    BY <2>5 DEF MarksHold, Called, Triggers
  <2> QED BY <1>4, <2>5, <2>6, <2>7, <2>8, <2>9, <2>10, <2>11 DEF DdnsIInv
<1>7. CASE api.want # "on"
  <2>1. rt' \in Runtime /\ rt'.st # "ok" /\ rt'.pub = 0
    BY <1>7 DEF NotifyJob, Fresh, NoRuntime, Runtime, Sources
  <2>2. /\ api' \in Call
        /\ \/ api'.pc = "cleanup" /\ api'.want = api.want /\ api'.targets /\ api.targets
           \/ api'.pc = "refresh" /\ job = "off" /\ ~api.targets
           \/ api'.pc = "idle" /\ ~api.targets
    <3>1. CASE api.targets
      <4>1. api' = [api EXCEPT !.pc = "cleanup"]
        BY <3>1, <1>7 DEF NotifyJob
      <4> QED BY <4>1, <3>1, <1>2 DEF Call
    <3>2. CASE ~api.targets
      <4>1. api' = Last(api.want)
        BY <3>2, <1>7 DEF NotifyJob
      <4>2. (Last(api.want) = [NoApi EXCEPT !.pc = "refresh"] /\ api.want = "off") \/ Last(api.want) = NoApi
        BY DEF Last
      <4>3. CASE api' = [NoApi EXCEPT !.pc = "refresh"] /\ api.want = "off"
        BY <4>3, <3>2, <1>2 DEF NoApi, Call
      <4>4. CASE api' = NoApi
        BY <4>4, <3>2 DEF NoApi, Call
      <4> QED BY <4>1, <4>2, <4>3, <4>4
    <3> QED BY <3>1, <3>2, <1>2 DEF Call
  <2>3. UNCHANGED trig
    BY <1>7 DEF NotifyJob
  <2>4. CallersHold' /\ DdnsTyped'
    BY <1>1, <2>1, <2>3 DEF DdnsIInv, CallersHold, DdnsTyped
  <2>5. CallsHold'
    BY <1>1, <1>2, <1>5, <1>7, <2>2 DEF CallsHold
  <2>6. ReportsHold'
    BY <1>1, <2>1 DEF DdnsIInv, ReportsHold
  <2>7. ChecksHold'
    BY <1>1, <1>3 DEF ChecksHold, AfterSave
  <2>8. RecordsHold'
    <3>1. ~orphan /\ ~untold /\ ~api.targets => remote = 0
      BY <1>2, <1>7 DEF DdnsIInv, RecordsHold
    <3> QED
      BY <3>1, <1>1, <1>2, <1>3, <1>7, <2>1, <2>2 DEF RecordsHold
  <2>9. MarksHold'
    BY <1>1, <1>2, <1>7 DEF MarksHold, Called
  <2> QED BY <1>4, <2>4, <2>5, <2>6, <2>7, <2>8, <2>9 DEF DdnsIInv
<1> QED BY <1>6, <1>7

LEMMA SpawnCleanupHolds ==
  ASSUME DdnsIInv, SpawnCleanup
  PROVE  DdnsIInv'
<1>1. UNCHANGED << job, src, remote, rt, wanUnread, skipped, dropped, untold >>
  BY DEF SpawnCleanup, outside
<1>2. api.pc = "cleanup" /\ api \in Call /\ job = api.want /\ job # "on"
  BY DEF SpawnCleanup, DdnsIInv, CallsHold
<1>3. api' \in Call /\ api'.pc \in {"idle", "refresh"} /\ (api'.pc = "refresh" => job = "off")
  BY <1>2 DEF SpawnCleanup, Last, NoApi, Call
<1>4. MarksHold'
  BY <1>1, <1>2 DEF MarksHold, Called
<1>5. CASE cur = 0
  <2>1. Spawn("clean") /\ trig' = StaleTrig /\ UNCHANGED orphan
    BY <1>5 DEF SpawnCleanup
  <2>2. /\ TasksHold' /\ cur' # 0 /\ pend' \in [Entries -> BOOLEAN] /\ canc' \in [Entries -> BOOLEAN]
        /\ \E w \in WorkerSlots :
             worker'[w].pc = "clean" /\ \A v \in WorkerSlots : v # w => worker'[v].pc = "idle"
        /\ \A w \in WorkerSlots : worker[w].pc = "idle"
    BY <1>5, <2>1, SpawnHolds DEF DdnsIInv
  <2>3. \A w \in WorkerSlots : worker'[w].pc \in {"clean", "idle"}
    BY <2>2
  <2>4. CallersHold'
    BY <2>1, StaleCallersHold DEF DdnsIInv
  <2>5. DdnsTyped' /\ HistoryTyped'
    BY <1>1, <2>1, <2>2 DEF DdnsIInv, DdnsTyped, HistoryTyped
  <2>6. CallsHold'
    BY <1>1, <1>2, <1>3 DEF CallsHold
  <2>7. ReportsHold'
    BY <1>1, <2>2, <2>3 DEF DdnsIInv, ReportsHold, BeforeCall, AfterCall
  <2>8. ChecksHold' /\ RecordsHold'
    BY <1>1, <1>2, <1>3, <2>2, <2>3 DEF ChecksHold, RecordsHold, AfterSave
  <2> QED BY <1>4, <2>2, <2>4, <2>5, <2>6, <2>7, <2>8 DEF DdnsIInv
<1>6. CASE cur # 0
  <2>1. canc' = [canc EXCEPT ![cur] = TRUE] /\ orphan' = TRUE /\ UNCHANGED << cur, pend, worker, trig >>
    BY <1>6 DEF SpawnCleanup
  <2>2. DdnsTyped' /\ HistoryTyped' /\ CallersHold' /\ TasksHold'
    BY <1>1, <2>1 DEF DdnsIInv, DdnsTyped, HistoryTyped, CallersHold, TasksHold, Runs
  <2>3. CallsHold' /\ ReportsHold'
    BY <1>1, <1>2, <1>3, <2>1 DEF DdnsIInv, CallsHold, ReportsHold
  <2>4. ChecksHold' /\ RecordsHold'
    BY <2>1 DEF ChecksHold, RecordsHold
  <2> QED BY <1>4, <2>2, <2>3, <2>4 DEF DdnsIInv
<1> QED BY <1>5, <1>6

\* The runtime of a job that is off is built again.
LEMMA FreshHolds ==
  ASSUME DdnsIInv, job = "off", rt' = Fresh, api' \in Call,
         \/ UNCHANGED api
         \/ api.pc = "refresh" /\ api'.pc = "idle",
         UNCHANGED << job, src, remote, cur, pend, canc, trig, worker, wanUnread, skipped, dropped, untold, orphan >>
  PROVE  DdnsIInv'
<1>1. Fresh \in Runtime /\ Fresh.st # "ok" /\ Fresh.pub = 0
  BY DEF Fresh, Runtime, Sources
<1>2. DdnsTyped' /\ HistoryTyped' /\ CallersHold' /\ TasksHold'
  BY <1>1 DEF DdnsIInv, DdnsTyped, HistoryTyped, CallersHold, TasksHold, Runs
<1>3. CallsHold' /\ ReportsHold'
  BY <1>1 DEF DdnsIInv, CallsHold, ReportsHold
<1>4. ChecksHold'
  BY DEF DdnsIInv, ChecksHold
<1>5. RecordsHold'
  <2>1. api.pc = "notify" => api.want # "on"
    BY DEF DdnsIInv, CallsHold
  <2> QED BY <1>1, <2>1 DEF DdnsIInv, RecordsHold
<1>6. MarksHold'
  BY DEF MarksHold, Called
<1> QED BY <1>2, <1>3, <1>4, <1>5, <1>6 DEF DdnsIInv

LEMMA RefreshHolds ==
  ASSUME DdnsIInv, RefreshRuntime \/ SyncDisabledNow
  PROVE  DdnsIInv'
<1>1. UNCHANGED << job, src, remote, cur, pend, canc, trig, worker, wanUnread, skipped, dropped, untold, orphan >>
  BY DEF RefreshRuntime, SyncDisabledNow, outside, flags, past
<1>2. job = "off" /\ rt' = Fresh
  BY DEF RefreshRuntime, SyncDisabledNow, DdnsIInv, CallsHold
<1>3. api' \in Call /\ (UNCHANGED api \/ (api.pc = "refresh" /\ api'.pc = "idle"))
  <2>1. NoApi \in Call /\ NoApi.pc = "idle" /\ api \in Call
    BY DEF NoApi, Call, DdnsIInv, CallsHold
  <2> QED BY <2>1 DEF RefreshRuntime, SyncDisabledNow
<1> QED BY <1>1, <1>2, <1>3, FreshHolds

LEMMA CancelHolds ==
  ASSUME DdnsIInv, CancelJobSync
  PROVE  DdnsIInv'
<1>1. UNCHANGED << job, src, remote, rt, cur, pend, trig, worker, api, wanUnread, skipped, dropped, untold, orphan >>
  BY DEF CancelJobSync, outside, past
<1>2. canc' \in [Entries -> BOOLEAN] /\ \A i \in Entries : canc[i] => canc'[i]
  BY DEF CancelJobSync, DdnsIInv, DdnsTyped
<1>3. DdnsTyped' /\ HistoryTyped' /\ CallersHold' /\ TasksHold'
  BY <1>1, <1>2 DEF DdnsIInv, DdnsTyped, HistoryTyped, CallersHold, TasksHold, Runs
<1>4. CallsHold' /\ ReportsHold' /\ ChecksHold' /\ RecordsHold'
  BY <1>1 DEF DdnsIInv, CallsHold, ReportsHold, ChecksHold, RecordsHold
<1>5. MarksHold'
  BY <1>1, <1>2, MarksStay
<1> QED BY <1>3, <1>4, <1>5 DEF DdnsIInv

LEMMA SourceChangesHolds ==
  ASSUME DdnsIInv, NEW ip \in Ips \cup {0}, SourceChanges(ip)
  PROVE  DdnsIInv'
<1>1. UNCHANGED << job, remote, rt, cur, pend, canc, trig, worker, api, dropped, untold, orphan >>
  BY DEF SourceChanges, flags
<1>2. wanUnread' \in 0 .. WanRoom /\ wanUnread' > 0
  BY DdnsConstants DEF SourceChanges, DdnsIInv, DdnsTyped
<1>3. src' \in Sources
  BY DEF SourceChanges, Sources
<1>4. DdnsTyped'
  BY <1>1, <1>2, <1>3 DEF DdnsIInv, DdnsTyped
<1>5. HistoryTyped'
  BY <1>1 DEF DdnsIInv, HistoryTyped, SourceChanges
<1>6. CallersHold' /\ TasksHold'
  BY <1>1 DEF DdnsIInv, CallersHold, TasksHold, Runs
<1>7. CallsHold' /\ ReportsHold' /\ ChecksHold' /\ RecordsHold'
  BY <1>1 DEF DdnsIInv, CallsHold, ReportsHold, ChecksHold, RecordsHold
<1>8. MarksHold'
  BY <1>2 DEF MarksHold, Called
<1> QED BY <1>4, <1>5, <1>6, <1>7, <1>8 DEF DdnsIInv

LEMMA DdnsStarts == DdnsInit => DdnsIInv
<1> SUFFICES ASSUME DdnsInit PROVE DdnsIInv
  OBVIOUS
<1>1. DdnsTyped /\ HistoryTyped
  <2>1. Fresh \in Runtime
    BY DEF Fresh, Runtime, Sources
  <2>2. wanUnread \in 0 .. WanRoom
    BY DdnsConstants DEF DdnsInit
  <2> QED BY <2>1, <2>2 DEF DdnsInit, DdnsTyped, HistoryTyped, Sources
<1>2. CallersHold
  BY DEF DdnsInit, CallersHold, NoTrig, Caller
<1>3. NoWork \in Task /\ NoWork.pc = "idle" /\ NoWork.id = 0
  BY DEF NoWork, NoRuntime, Task, Runtime, Sources
<1>4. TasksHold
  BY <1>3 DEF DdnsInit, TasksHold, Runs
<1>5. \A w \in WorkerSlots : worker[w].pc = "idle"
  BY <1>3 DEF DdnsInit
<1>6. CallsHold
  BY <1>5 DEF DdnsInit, CallsHold, NoApi, Call
<1>7. Fresh.st = "idle" /\ Fresh.pub = 0
  BY DEF Fresh
<1>8. ReportsHold /\ ChecksHold
  BY <1>5, <1>7 DEF DdnsInit, ReportsHold, ChecksHold, BeforeCall, AfterCall, AfterSave
<1>9. RecordsHold
  BY <1>5, <1>7 DEF DdnsInit, RecordsHold, NoApi, BeforeCall, AfterCall, AfterSave
<1>10. MarksHold
  BY DEF DdnsInit, MarksHold, Called
<1> QED BY <1>1, <1>2, <1>4, <1>6, <1>8, <1>9, <1>10 DEF DdnsIInv

LEMMA DdnsStep == DdnsIInv /\ [DdnsNext]_ddnsVars => DdnsIInv'
<1> SUFFICES ASSUME DdnsIInv, [DdnsNext]_ddnsVars PROVE DdnsIInv'
  OBVIOUS
<1>1. ASSUME NEW t \in Triggers, TrigStep(t) PROVE DdnsIInv'
  BY <1>1, LoadHolds, MarkHolds, CasRetryHolds, CasMarkedHolds, CasStartedHolds DEF TrigStep
<1>2. ASSUME NEW w \in WorkerSlots, WorkStep(w) PROVE DdnsIInv'
  BY <1>2, SyncStartHolds, ResolveHolds, NothingToPublishHolds, ReconcileHolds, FindJobHolds, SaveRuntimeHolds,
     CheckCancelHolds, FinishLoadHolds, FinishSwapHolds, FinishCasHolds, CleanUpHolds DEF WorkStep
<1>3. ASSUME NEW w \in WorkerSlots,
             NoProfile(w) \/ PublishFails(w) \/ PublishSkipped(w) \/ PublishCut(w) \/ CleanUpFails(w) \/ CleanUpCut(w)
      PROVE  DdnsIInv'
  BY <1>3, NoProfileHolds, PublishFailsHolds, PublishSkippedHolds, PublishCutHolds, CleanUpFailsHolds, CleanUpCutHolds
<1>4. ASSUME NEW want \in {"none", "off", "on"}, ApiCall(want) PROVE DdnsIInv'
  BY <1>4, ApiCallHolds
<1>5. CASE ApiStep
  BY <1>5, CaptureHolds, StoreJobHolds, NotifyJobHolds, SpawnCleanupHolds, RefreshHolds DEF ApiStep
<1>6. CASE SyncTick \/ WanEvent \/ OtherEntry \/ SyncDisabledNow \/ SyncJobNow \/ CancelJobSync
  BY <1>6, SyncTickHolds, WanEventHolds, OtherEntryHolds, RefreshHolds, SyncJobNowHolds, CancelHolds
<1>7. ASSUME NEW ip \in Ips \cup {0}, SourceChanges(ip) PROVE DdnsIInv'
  BY <1>7, SourceChangesHolds
<1>8. CASE UNCHANGED ddnsVars
  <2>1. UNCHANGED << job, src, remote, rt, cur, pend, canc, trig, worker, api, wanUnread, skipped, dropped, untold, orphan >>
    BY <1>8 DEF ddnsVars
  <2>2. CallersHold' /\ HistoryTyped' /\ wanUnread' \in 0 .. WanRoom /\ pend' \in [Entries -> BOOLEAN]
    BY <2>1 DEF DdnsIInv, CallersHold, HistoryTyped, DdnsTyped
  <2>3. MarksHold'
    BY <2>1, MarksStay
  <2> QED BY <2>1, <2>2, <2>3, CallerHolds
<1> QED BY <1>1, <1>2, <1>3, <1>4, <1>5, <1>6, <1>7, <1>8 DEF DdnsNext

LEMMA DdnsIInvShows == DdnsIInv => DdnsInv
<1> SUFFICES ASSUME DdnsIInv PROVE DdnsInv
  OBVIOUS
<1>1. DdnsTypeOK
  <2>1. rt.st \in {"none", "idle", "wait", "ok", "error"} /\ rt.pub \in Ips \cup {0}
    BY DEF DdnsIInv, DdnsTyped, Runtime, Sources
  <2>2. \A t \in Triggers : trig[t].pc \in {"idle", "load", "mark", "cas"} /\ (trig[t].pc = "mark" => trig[t].id # 0)
    BY DEF DdnsIInv, CallersHold, Caller
  <2>3. \A w \in WorkerSlots : worker[w].pc # "idle" => worker[w].id \in Entries
    BY Alone DEF DdnsIInv, Runs
  <2> QED BY <2>1, <2>2, <2>3 DEF DdnsIInv, DdnsTyped, TasksHold, DdnsTypeOK, Sources
<1>2. OneTask
  BY Alone DEF DdnsIInv, OneTask, Runs
<1>3. ReportIsTrue
  BY DEF DdnsIInv, ReportsHold, ReportIsTrue, NoTask, AfterCall
<1>4. PublishedIsCurrent
  <2> SUFFICES ASSUME DdnsQuiet, ~skipped, ~dropped, job = "on", rt.st = "ok" PROVE rt.pub = src
    BY DEF PublishedIsCurrent
  <2>1. ~Called
    BY DEF DdnsQuiet, Called, Calling
  <2>2. \A w \in WorkerSlots : worker[w].pc = "idle"
    BY DEF DdnsQuiet, NoTask
  <2>3. Seen
    BY <2>1, <2>2 DEF DdnsIInv, MarksHold, Again, Runs
  <2> QED BY <2>2, <2>3 DEF Seen
<1>5. CleanWhenOff
  <2>1. NoTask => cur = 0
    BY DEF DdnsIInv, TasksHold, NoTask, Runs
  <2> QED BY <2>1 DEF DdnsIInv, RecordsHold, CleanWhenOff, DdnsQuiet
<1> QED BY <1>1, <1>2, <1>3, <1>4, <1>5 DEF DdnsInv

\* One task per job that tells the truth about its record, with the exceptions
\* DdnsInv names, for every set of addresses and any number of task slots: the
\* compare-and-swap of the registry, the marks, the cancellations and the
\* clean-ups of ddns/task_registry.rs and ddns/mod.rs interleave in any order.
THEOREM DdnsTellsTheTruth == DdnsSpec => []DdnsInv
<1>1. DdnsSpec => []DdnsIInv
  BY DdnsStarts, DdnsStep, PTL DEF DdnsSpec
<1> QED BY <1>1, DdnsIInvShows, PTL

(***************************************************************************)
(* StoreWriter: the inductive invariant, in four parts.                    *)
(***************************************************************************)
\* Call numbers: those of running calls are different, and none of them has
\* an outcome yet.
CallsNumbered ==
  /\ \A n \in 1 .. MaxCalls : n > calls => outcome[n] = "none"
  /\ \A c \in Clients : tx[c].pc # "idle" => outcome[tx[c].call] = "none"
  /\ \A c, d \in Clients : c # d /\ tx[c].pc # "idle" /\ tx[d].pc # "idle" => tx[c].call # tx[d].call

\* The keys a transaction has written so far.
Done(c) ==
  {tx[c].keys[j] : j \in {n \in 1 .. Len(tx[c].keys) : n < tx[c].i \/ tx[c].pc = "commit"}}

\* A snapshot is the database as of the commit it names, and everything a
\* transaction did not write itself is still as in the snapshot; only the
\* holder of the write lock is past its first key.
Snapshot(c) ==
  /\ tx[c].at <= commits
  /\ tx[c].pc = "write" => tx[c].old = tx[c].work[Key(c)]
  /\ lock = c => /\ tx[c].pc \in {"read", "write", "commit"}
                 /\ tx[c].pc = "read" => tx[c].i > 1
                 /\ tx[c].at = commits
                 /\ \A k \in Keys : k \notin Done(c) => tx[c].work[k] = rows[k]
  /\ lock # c => /\ tx[c].pc \in {"read", "write", "commit"} => tx[c].i = 1
                 /\ tx[c].pc = "write" /\ tx[c].at = commits => tx[c].work = rows
                 /\ tx[c].pc = "commit" => tx[c].kind = "delete"
  /\ tx[c].kind = "delete" => Len(tx[c].keys) = 1 \/ tx[c].pc = "idle"

Snapshots == \A c \in Clients : Snapshot(c)

\* What the lock holder is about to commit for a key: the row as it is, no row
\* (a deletion), or a new row of this call with a higher version.
PendingFor(c) ==
  lock = c =>
    \A k \in Keys :
      \/ tx[c].work[k] = rows[k] /\ (tx[c].kind = "delete" => k \notin Done(c))
      \/ tx[c].kind = "delete" /\ tx[c].work[k] = NoRow
      \/ /\ tx[c].kind # "delete"
         /\ tx[c].work[k].ver > rows[k].ver /\ tx[c].work[k].by = tx[c].call /\ tx[c].work[k].era = era[k]

PendingRows == \A c \in Clients : PendingFor(c)

\* A copy of a row that was not deleted since is the row or an older version.
Copy(s, k) ==
  s = NoRow \/ (/\ s.ver > 0 /\ s.era <= era[k]
                /\ s.era = era[k] => rows[k] # NoRow /\ (s = rows[k] \/ s.ver < rows[k].ver))

Copies ==
  \A k \in Keys :
    /\ rows[k] = NoRow \/ (rows[k].ver > 0 /\ rows[k].era = era[k] /\ rows[k].by \in 1 .. MaxCalls)
    /\ \A c \in Clients : Copy(seen[c][k], k) /\ (tx[c].pc # "idle" => Copy(tx[c].base[k], k))

\* Checked writes so far replaced what their client had read.
CheckedFor(c) ==
  lock = c /\ tx[c].kind = "checked" =>
    \A k \in Done(c) : rows[k] \in {NoRow, tx[c].base[k]} \/ era[k] # tx[c].base[k].era

CheckedSoFar == \A c \in Clients : CheckedFor(c)

StoreIInv ==
  StoreTypeOK /\ CallsNumbered /\ Snapshots /\ PendingRows /\ Copies /\ CheckedSoFar /\ FailuresLeaveNothing

(***************************************************************************)
(* Facts about the data                                                    *)
(***************************************************************************)
\* A batch is a non-empty sequence of keys.
LEMMA BatchIsSeq ==
  ASSUME NEW ks \in Batches
  PROVE  /\ Len(ks) \in Nat /\ Len(ks) >= 1 /\ DOMAIN ks = 1 .. Len(ks)
         /\ \A j \in 1 .. Len(ks) : ks[j] \in Keys
  <1>1. PICK n \in 1 .. MaxBatch : ks \in [1 .. n -> Keys]
    BY DEF Batches
  <1>2. n \in Nat /\ n >= 1
    BY StoreConstants
  <1>3. ks \in Seq(Keys)
    BY <1>1, <1>2, SeqDef
  <1>4. Len(ks) = n
    BY <1>1, <1>2, <1>3, LenProperties
  <1> QED
    BY <1>1, <1>2, <1>4

\* No row is a row, and no key of an empty table has one.
LEMMA NoRowTypes == NoRow \in Row /\ NoRows \in [Keys -> Row] /\ NoRow.ver = 0
  BY DEF NoRow, NoRows, Row

LEMMA NoTxType == NoTx \in TxRecord /\ NoTx.pc = "idle"
  BY NoRowTypes, StoreConstants DEF NoTx, TxRecord, Pcs, Kinds

\* The key at hand is a key of the table.
LEMMA KeyType ==
  ASSUME StoreTypeOK, NEW c \in Clients, tx[c].pc # "idle"
  PROVE  Key(c) \in Keys
  BY BatchIsSeq DEF StoreTypeOK, Key

\* The keys of other clients' transactions.
LEMMA OtherTx ==
  ASSUME NEW d \in Clients, tx'[d] = tx[d]
  PROVE  Done(d)' = Done(d) /\ Key(d)' = Key(d) /\ Written(d)' = Written(d)
  BY DEF Done, Key, Written

\* The keys written when a transaction is about to commit.
LEMMA DoneAtCommit ==
  ASSUME NEW c \in Clients, tx[c].pc = "commit"
  PROVE  Done(c) = Written(c)
  BY DEF Done, Written

LEMMA DoneInWritten ==
  ASSUME NEW c \in Clients
  PROVE  Done(c) \subseteq Written(c)
  BY DEF Done, Written

(***************************************************************************)
(* Each action preserves the invariant.                                    *)
(***************************************************************************)
\* A transaction that returns, starts over or begins: it gives the lock back
\* and has read nothing.
LEMMA LetGo ==
  ASSUME StoreIInv, NEW c \in Clients, tx[c].pc # "idle", NEW t \in TxRecord,
         NEW r \in {"ok", "conflict", "exhausted", "error"},
         tx' = [tx EXCEPT ![c] = t], t.pc \in {"idle", "begin", "read"}, t.at = 0, t.i = 1,
         t.pc # "idle" => t.keys = tx[c].keys /\ t.base = tx[c].base /\ t.call = tx[c].call /\ t.kind = tx[c].kind,
         Unlock(c),
         IF t.pc = "idle" THEN outcome' = [outcome EXCEPT ![tx[c].call] = r] ELSE outcome' = outcome,
         UNCHANGED << rows, commits, seen, calls, era >>
  PROVE  StoreIInv'
  <1>0. /\ StoreTypeOK /\ CallsNumbered /\ Snapshots /\ PendingRows /\ Copies /\ CheckedSoFar
        /\ FailuresLeaveNothing
    BY DEF StoreIInv
  <1>1. /\ tx'[c] = t /\ \A d \in Clients : d # c => tx'[d] = tx[d]
        /\ tx' \in [Clients -> TxRecord]
    BY <1>0 DEF StoreTypeOK
  <1>2. /\ tx[c].call \in 1 .. MaxCalls /\ tx[c].call <= calls /\ calls \in Nat
        /\ tx[c].keys \in Batches /\ commits \in Nat
    BY <1>0, StoreConstants DEF StoreTypeOK
  <1>3. /\ lock' # c /\ lock' \in Clients \cup {NoClient}
        /\ \A d \in Clients : d # c => (lock' = d <=> lock = d)
    BY <1>0, StoreConstants DEF Unlock, StoreTypeOK
  <1>4. /\ outcome' \in [1 .. MaxCalls -> {"none", "ok", "conflict", "exhausted", "error"}]
        /\ \A n \in 1 .. MaxCalls : n # tx[c].call \/ t.pc # "idle" => outcome'[n] = outcome[n]
    BY <1>0, <1>2 DEF StoreTypeOK
  <1>5. StoreTypeOK'
    <2>1. ASSUME NEW d \in Clients, tx'[d].pc # "idle"
          PROVE  tx'[d].keys \in Batches /\ tx'[d].i \in 1 .. Len(tx'[d].keys) /\ tx'[d].call \in 1 .. calls
      <3>1. CASE d = c
        BY <3>1, <2>1, <1>0, <1>1, <1>2, BatchIsSeq DEF StoreTypeOK
      <3>2. CASE d # c
        BY <3>2, <2>1, <1>0, <1>1 DEF StoreTypeOK
      <3> QED
        BY <3>1, <3>2
    <2> QED
      BY <2>1, <1>0, <1>1, <1>3, <1>4 DEF StoreTypeOK
  <1>6. CallsNumbered'
    <2>1. ASSUME NEW d \in Clients, tx'[d].pc # "idle"
          PROVE  /\ tx[d].pc # "idle" /\ tx'[d].call = tx[d].call
                 /\ d # c \/ t.pc # "idle"
      <3>1. CASE d = c
        BY <3>1, <2>1, <1>1
      <3>2. CASE d # c
        BY <3>2, <2>1, <1>1
      <3> QED
        BY <3>1, <3>2
    <2>2. ASSUME NEW d \in Clients, tx'[d].pc # "idle"
          PROVE  outcome'[tx'[d].call] = "none"
      <3>1. tx[d].call \in 1 .. MaxCalls
        BY <2>1, <2>2, <1>0, StoreConstants DEF StoreTypeOK
      <3>2. tx[d].call # tx[c].call \/ t.pc # "idle"
        BY <2>1, <2>2, <1>0, <1>1 DEF CallsNumbered
      <3> QED
        BY <2>1, <2>2, <3>1, <3>2, <1>0, <1>4 DEF CallsNumbered
    <2>3. ASSUME NEW n \in 1 .. MaxCalls, n > calls
          PROVE  outcome'[n] = "none"
      BY <2>3, <1>0, <1>2, <1>4 DEF CallsNumbered
    <2>4. ASSUME NEW d \in Clients, NEW e \in Clients, d # e, tx'[d].pc # "idle", tx'[e].pc # "idle"
          PROVE  tx'[d].call # tx'[e].call
      BY <2>1, <2>4, <1>0 DEF CallsNumbered
    <2> QED
      BY <2>2, <2>3, <2>4 DEF CallsNumbered
  <1>7. Snapshots'
    <2> SUFFICES ASSUME NEW d \in Clients
                 PROVE  Snapshot(d)'
      BY DEF Snapshots
    <2>1. CASE d = c
      BY <2>1, <1>0, <1>1, <1>2, <1>3 DEF Snapshots, Snapshot
    <2>2. CASE d # c
      BY <2>2, <1>0, <1>1, <1>3, OtherTx DEF Snapshots, Snapshot
    <2> QED
      BY <2>1, <2>2
  <1>8. PendingRows'
    BY <1>0, <1>1, <1>3, OtherTx DEF PendingRows, PendingFor
  <1>9. Copies'
    <2>1. \A d \in Clients : tx'[d].pc # "idle" => tx[d].pc # "idle" /\ tx'[d].base = tx[d].base
      BY <1>1
    <2> QED
      BY <2>1, <1>0 DEF Copies, Copy
  <1>10. CheckedSoFar'
    BY <1>0, <1>1, <1>3, OtherTx DEF CheckedSoFar, CheckedFor
  <1>11. FailuresLeaveNothing'
    <2> SUFFICES ASSUME NEW k \in Keys, rows[k] # NoRow
                 PROVE  outcome'[rows[k].by] = "ok"
      BY DEF FailuresLeaveNothing
    <2>1. outcome[rows[k].by] = "ok" /\ rows[k].by \in 1 .. MaxCalls
      BY <1>0 DEF FailuresLeaveNothing, Copies
    <2>2. rows[k].by # tx[c].call
      BY <2>1, <1>0 DEF CallsNumbered
    <2> QED
      BY <2>1, <2>2, <1>4
  <1> QED
    BY <1>5, <1>6, <1>7, <1>8, <1>9, <1>10, <1>11 DEF StoreIInv

\* The call returns, or runs again.
LEMMA ReturnPreserves ==
  ASSUME StoreIInv, NEW c \in Clients, tx[c].pc # "idle", NEW r \in {"ok", "conflict", "exhausted", "error"},
         Return(c, r), UNCHANGED << rows, commits, seen, calls, era >>
  PROVE  StoreIInv'
  <1>1. NoTx \in TxRecord /\ NoTx.pc = "idle" /\ NoTx.at = 0 /\ NoTx.i = 1
    BY NoTxType DEF NoTx
  <1> QED
    BY <1>1, LetGo DEF Return

LEMMA TryAgainPreserves ==
  ASSUME StoreIInv, NEW c \in Clients, tx[c].pc # "idle",
         TryAgain(c), UNCHANGED << rows, commits, seen, calls, era >>
  PROVE  StoreIInv'
  <1> DEFINE t == [pc |-> "begin", kind |-> tx[c].kind, keys |-> tx[c].keys, i |-> 1,
                   base |-> tx[c].base, at |-> 0, work |-> NoRows, old |-> NoRow,
                   retries |-> tx[c].retries + 1, call |-> tx[c].call]
  <1>1. CASE tx[c].retries + 1 >= MAX_RETRIES
    BY <1>1, ReturnPreserves DEF TryAgain
  <1>2. CASE ~(tx[c].retries + 1 >= MAX_RETRIES)
    <2>1. tx' = [tx EXCEPT ![c] = t] /\ Unlock(c) /\ outcome' = outcome
      BY <1>2 DEF TryAgain
    <2>2. tx[c] \in TxRecord /\ tx[c].retries + 1 \in 0 .. (MAX_RETRIES - 1)
      BY <1>2, StoreConstants DEF StoreIInv, StoreTypeOK, TxRecord
    <2>3. t \in TxRecord
      BY <2>2, NoRowTypes DEF TxRecord, Pcs
    <2>4. t.pc = "begin" /\ t.at = 0 /\ t.i = 1 /\ t.keys = tx[c].keys /\ t.base = tx[c].base
          /\ t.call = tx[c].call /\ t.kind = tx[c].kind
      OBVIOUS
    <2> HIDE DEF t
    <2> QED
      BY <2>1, <2>3, <2>4, LetGo
  <1> QED
    BY <1>1, <1>2

LEMMA BeginPreserves ==
  ASSUME StoreIInv, NEW c \in Clients, Begin(c)
  PROVE  StoreIInv'
  <1> DEFINE t == Tx(tx[c], "read", 1, 0, NoRows, NoRow)
  <1>1. tx[c].pc = "begin" /\ tx' = [tx EXCEPT ![c] = t] /\ outcome' = outcome
        /\ UNCHANGED << rows, commits, lock, seen, calls, era >>
    BY DEF Begin
  <1>2. tx[c] \in TxRecord
    BY DEF StoreIInv, StoreTypeOK
  <1>3. t \in TxRecord
    BY <1>2, NoRowTypes DEF TxRecord, Pcs, Tx
  <1>4. t.pc = "read" /\ t.at = 0 /\ t.i = 1 /\ t.keys = tx[c].keys /\ t.base = tx[c].base
        /\ t.call = tx[c].call /\ t.kind = tx[c].kind
    BY DEF Tx
  <1>5. Unlock(c)
    BY <1>1 DEF Unlock, StoreIInv, Snapshots, Snapshot
  <1> HIDE DEF t
  <1> QED
    BY <1>1, <1>3, <1>4, <1>5, LetGo

\* A client reads a row.
LEMMA FindPreserves ==
  ASSUME StoreIInv, NEW c \in Clients, NEW k \in Keys, Find(c, k)
  PROVE  StoreIInv'
  <1>1. /\ UNCHANGED << rows, commits, lock, tx, calls, outcome, era >>
        /\ seen' = [seen EXCEPT ![c] = [seen[c] EXCEPT ![k] = rows[k]]]
    BY DEF Find
  <1>2. seen' \in [Clients -> [Keys -> Row]]
    BY <1>1 DEF StoreIInv, StoreTypeOK
  <1>3. \A d \in Clients, q \in Keys : seen'[d][q] = seen[d][q] \/ seen'[d][q] = rows[q]
    BY <1>1 DEF StoreIInv, StoreTypeOK
  <1>4. StoreTypeOK' /\ CallsNumbered' /\ Snapshots' /\ PendingRows' /\ CheckedSoFar' /\ FailuresLeaveNothing'
    <2>1. \A d \in Clients : Done(d)' = Done(d) /\ Key(d)' = Key(d)
      BY <1>1, OtherTx
    <2>2. StoreTypeOK' /\ CallsNumbered'
      BY <1>1, <1>2 DEF StoreIInv, StoreTypeOK, CallsNumbered
    <2>3. Snapshots'
      BY <1>1, <2>1 DEF StoreIInv, Snapshots, Snapshot
    <2>4. PendingRows'
      BY <1>1, <2>1 DEF StoreIInv, PendingRows, PendingFor
    <2>5. CheckedSoFar' /\ FailuresLeaveNothing'
      BY <1>1, <2>1 DEF StoreIInv, CheckedSoFar, CheckedFor, FailuresLeaveNothing
    <2> QED
      BY <2>2, <2>3, <2>4, <2>5
  <1>5. Copies'
    <2> SUFFICES ASSUME NEW q \in Keys, NEW d \in Clients
                 PROVE  Copy(seen[d][q], q)'
      BY <1>1 DEF StoreIInv, Copies, Copy
    <2>1. rows[q] \in Row /\ era[q] \in Nat
      BY DEF StoreIInv, StoreTypeOK
    <2> QED
      BY <1>1, <1>3, <2>1 DEF StoreIInv, Copies, Copy, Row
  <1> QED
    BY <1>4, <1>5 DEF StoreIInv

\* A call starts.
LEMMA CallPreserves ==
  ASSUME StoreIInv, NEW c \in Clients, NEW kind \in Kinds, NEW ks \in Batches, CallStore(c, kind, ks)
  PROVE  StoreIInv'
  <1> DEFINE t == [pc |-> "begin", kind |-> kind, keys |-> ks, i |-> 1, base |-> seen[c],
                   at |-> 0, work |-> NoRows, old |-> NoRow, retries |-> 0, call |-> calls + 1]
  <1>0. /\ StoreTypeOK /\ CallsNumbered /\ Snapshots /\ PendingRows /\ Copies /\ CheckedSoFar
        /\ FailuresLeaveNothing
    BY DEF StoreIInv
  <1>1. /\ tx' = [tx EXCEPT ![c] = t] /\ calls' = calls + 1 /\ tx[c].pc = "idle" /\ calls < MaxCalls
        /\ kind = "delete" => Len(ks) = 1
        /\ UNCHANGED << rows, commits, lock, seen, outcome, era >>
    BY DEF CallStore
  <1>2. calls \in Nat /\ calls + 1 \in 1 .. MaxCalls /\ seen[c] \in [Keys -> Row] /\ commits \in Nat
    BY <1>0, <1>1, StoreConstants DEF StoreTypeOK
  <1>3. t \in TxRecord
    BY <1>2, NoRowTypes, StoreConstants DEF TxRecord, Pcs
  <1>4. t.pc = "begin" /\ t.at = 0 /\ t.i = 1 /\ t.keys = ks /\ t.base = seen[c]
        /\ t.call = calls + 1 /\ t.kind = kind
    OBVIOUS
  <1> HIDE DEF t
  <1>5. /\ tx'[c] = t /\ \A d \in Clients : d # c => tx'[d] = tx[d]
        /\ tx' \in [Clients -> TxRecord]
    BY <1>0, <1>1, <1>3 DEF StoreTypeOK
  <1>6. lock # c
    BY <1>0, <1>1 DEF Snapshots, Snapshot
  <1>7. StoreTypeOK'
    <2>1. ASSUME NEW d \in Clients, tx'[d].pc # "idle"
          PROVE  tx'[d].keys \in Batches /\ tx'[d].i \in 1 .. Len(tx'[d].keys) /\ tx'[d].call \in 1 .. (calls + 1)
      <3>1. CASE d = c
        BY <3>1, <1>2, <1>4, <1>5, BatchIsSeq
      <3>2. CASE d # c
        BY <3>2, <2>1, <1>0, <1>2, <1>5 DEF StoreTypeOK
      <3> QED
        BY <3>1, <3>2
    <2> QED
      BY <2>1, <1>0, <1>1, <1>2, <1>5 DEF StoreTypeOK
  <1>8. CallsNumbered'
    <2>1. \A n \in 1 .. MaxCalls : n > calls' => outcome'[n] = "none"
      BY <1>0, <1>1, <1>2 DEF CallsNumbered
    <2>2. \A d \in Clients : tx'[d].pc # "idle" => outcome'[tx'[d].call] = "none"
      BY <1>0, <1>1, <1>2, <1>4, <1>5 DEF CallsNumbered
    <2>3. \A d \in Clients : tx[d].pc # "idle" => tx[d].call \in Nat /\ tx[d].call < calls + 1
      BY <1>0, <1>2 DEF StoreTypeOK
    <2>4. \A d, e \in Clients : d # e /\ tx'[d].pc # "idle" /\ tx'[e].pc # "idle" => tx'[d].call # tx'[e].call
      BY <2>3, <1>0, <1>2, <1>4, <1>5 DEF CallsNumbered
    <2> QED
      BY <2>1, <2>2, <2>4 DEF CallsNumbered
  <1>9. Snapshots'
    <2> SUFFICES ASSUME NEW d \in Clients
                 PROVE  Snapshot(d)'
      BY DEF Snapshots
    <2>1. CASE d = c
      BY <2>1, <1>1, <1>2, <1>4, <1>5, <1>6 DEF Snapshot
    <2>2. CASE d # c
      BY <2>2, <1>0, <1>1, <1>5, OtherTx DEF Snapshots, Snapshot
    <2> QED
      BY <2>1, <2>2
  <1>10. PendingRows' /\ CheckedSoFar'
    BY <1>0, <1>1, <1>5, <1>6, OtherTx DEF PendingRows, PendingFor, CheckedSoFar, CheckedFor
  <1>11. Copies'
    BY <1>0, <1>1, <1>4, <1>5 DEF Copies, Copy
  <1>12. FailuresLeaveNothing'
    BY <1>0, <1>1 DEF FailuresLeaveNothing
  <1> QED
    BY <1>7, <1>8, <1>9, <1>10, <1>11, <1>12 DEF StoreIInv

\* A transaction goes on: the rest of the invariant follows from what holds of
\* this transaction.
LEMMA GoesOn ==
  ASSUME StoreIInv, NEW c \in Clients, tx[c].pc # "idle", NEW t \in TxRecord,
         tx' = [tx EXCEPT ![c] = t], t.pc # "idle", t.i \in 1 .. Len(t.keys),
         t.keys = tx[c].keys, t.base = tx[c].base, t.call = tx[c].call,
         lock' \in Clients \cup {NoClient}, \A d \in Clients : d # c => (lock' = d <=> lock = d),
         UNCHANGED << rows, commits, seen, calls, outcome, era >>,
         Snapshot(c)', PendingFor(c)', CheckedFor(c)'
  PROVE  StoreIInv'
  <1>0. /\ StoreTypeOK /\ CallsNumbered /\ Snapshots /\ PendingRows /\ Copies /\ CheckedSoFar
        /\ FailuresLeaveNothing
    BY DEF StoreIInv
  <1>1. /\ tx'[c] = t /\ \A d \in Clients : d # c => tx'[d] = tx[d]
        /\ tx' \in [Clients -> TxRecord]
    BY <1>0 DEF StoreTypeOK
  <1>2. \A d \in Clients : /\ tx'[d].pc # "idle" => tx[d].pc # "idle"
                           /\ tx'[d].call = tx[d].call /\ tx'[d].base = tx[d].base /\ tx'[d].keys = tx[d].keys
    BY <1>1
  <1>3. StoreTypeOK'
    <2>1. \A d \in Clients : tx'[d].pc # "idle" => tx'[d].i \in 1 .. Len(tx'[d].keys)
      BY <1>0, <1>1 DEF StoreTypeOK
    <2> QED
      BY <2>1, <1>0, <1>1, <1>2 DEF StoreTypeOK
  <1>4. CallsNumbered'
    BY <1>0, <1>2 DEF CallsNumbered
  <1>5. Snapshots' /\ PendingRows' /\ CheckedSoFar'
    <2> SUFFICES ASSUME NEW d \in Clients, d # c
                 PROVE  Snapshot(d)' /\ PendingFor(d)' /\ CheckedFor(d)'
      BY DEF Snapshots, PendingRows, CheckedSoFar
    <2>1. tx'[d] = tx[d] /\ (lock' = d <=> lock = d)
      BY <1>1
    <2>2. Snapshot(d) /\ PendingFor(d) /\ CheckedFor(d)
      BY <1>0 DEF Snapshots, PendingRows, CheckedSoFar
    <2>3. Snapshot(d)'
      BY <2>1, <2>2, OtherTx DEF Snapshot
    <2>4. PendingFor(d)' /\ CheckedFor(d)'
      BY <2>1, <2>2, OtherTx DEF PendingFor, CheckedFor
    <2> QED
      BY <2>3, <2>4
  <1>6. Copies'
    BY <1>0, <1>2 DEF Copies, Copy
  <1>7. FailuresLeaveNothing'
    BY <1>0 DEF FailuresLeaveNothing
  <1> QED
    BY <1>3, <1>4, <1>5, <1>6, <1>7 DEF StoreIInv

\* The stored row is read.
LEMMA ReadPreserves ==
  ASSUME StoreIInv, NEW c \in Clients, ReadOld(c)
  PROVE  StoreIInv'
  <1> DEFINE work == IF tx[c].i = 1 THEN rows ELSE tx[c].work
             at == IF tx[c].i = 1 THEN commits ELSE tx[c].at
             done == tx[c].kind = "delete" /\ work[Key(c)] = NoRow
             t == Tx(tx[c], IF done THEN "commit" ELSE "write", tx[c].i, at, work, work[Key(c)])
  <1>1. tx[c].pc = "read" /\ tx' = [tx EXCEPT ![c] = t]
        /\ UNCHANGED << rows, commits, lock, seen, calls, outcome, era >>
    BY DEF ReadOld
  <1>2. /\ tx[c] \in TxRecord /\ tx[c].i \in 1 .. Len(tx[c].keys) /\ Key(c) \in Keys
        /\ rows \in [Keys -> Row] /\ commits \in Nat /\ lock \in Clients \cup {NoClient}
        /\ tx[c].i \in Nat /\ tx[c].at \in Nat
    BY <1>1, KeyType DEF StoreIInv, StoreTypeOK, TxRecord
  <1>3. work \in [Keys -> Row] /\ at \in Nat
    BY <1>2 DEF TxRecord
  <1>4. t \in TxRecord
    BY <1>2, <1>3 DEF TxRecord, Tx, Pcs
  <1>5. /\ t.pc = (IF done THEN "commit" ELSE "write") /\ t.i = tx[c].i /\ t.keys = tx[c].keys
        /\ t.base = tx[c].base /\ t.call = tx[c].call /\ t.kind = tx[c].kind
        /\ t.at = at /\ t.work = work /\ t.old = work[Key(c)]
    BY DEF Tx
  <1>6. tx'[c] = t
    BY <1>1 DEF StoreIInv, StoreTypeOK
  <1> HIDE DEF t
  <1>7. Key(c)' = Key(c)
    BY <1>5, <1>6 DEF Key
  <1>8. Snapshot(c) /\ PendingFor(c) /\ CheckedFor(c) /\ tx[c].pc = "read"
    BY <1>1 DEF StoreIInv, Snapshots, PendingRows, CheckedSoFar
  <1>9. CASE lock = c
    <2>1. /\ tx[c].i > 1 /\ work = tx[c].work /\ at = tx[c].at
      BY <1>2, <1>8, <1>9 DEF Snapshot
    <2>2. tx[c].kind # "delete"
      <3> SUFFICES ASSUME tx[c].kind = "delete" PROVE FALSE
        OBVIOUS
      <3>1. Len(tx[c].keys) = 1
        BY <1>8 DEF Snapshot
      <3>2. tx[c].i \in 1 .. 1
        BY <3>1, <1>2
      <3> QED
        BY <3>2, <2>1, <1>2
    <2>3. t.pc = "write"
      BY <2>2, <1>5
    <2>4. Done(c)' = Done(c)
      BY <2>3, <1>5, <1>6, <1>8 DEF Done
    <2>5. Snapshot(c)'
      BY <2>1, <2>2, <2>3, <2>4, <1>1, <1>5, <1>6, <1>7, <1>8, <1>9 DEF Snapshot
    <2>6. PendingFor(c)' /\ CheckedFor(c)'
      BY <2>1, <2>4, <1>1, <1>5, <1>6, <1>8 DEF PendingFor, CheckedFor
    <2> QED
      BY <2>5, <2>6, <1>1, <1>2, <1>4, <1>5, GoesOn
  <1>10. CASE lock # c
    <2>1. tx[c].i = 1 /\ work = rows /\ at = commits
      BY <1>8, <1>10 DEF Snapshot
    <2>2. Snapshot(c)'
      BY <2>1, <1>1, <1>2, <1>5, <1>6, <1>7, <1>8, <1>10 DEF Snapshot
    <2>3. PendingFor(c)' /\ CheckedFor(c)'
      BY <1>1, <1>10 DEF PendingFor, CheckedFor
    <2> QED
      BY <2>2, <2>3, <1>1, <1>2, <1>4, <1>5, GoesOn
  <1> QED
    BY <1>9, <1>10

\* The row is written inside the transaction.
LEMMA WritePreserves ==
  ASSUME StoreIInv, NEW c \in Clients, NEW now \in Clock, Write(c, now)
  PROVE  StoreIInv'
  <1> DEFINE last == tx[c].i = Len(tx[c].keys)
             new == NewRow(c, now)
             work == [tx[c].work EXCEPT ![Key(c)] = new]
             i == IF last THEN tx[c].i ELSE tx[c].i + 1
             t == Tx(tx[c], IF last THEN "commit" ELSE "read", i, tx[c].at, work, tx[c].old)
  <1>1. /\ tx[c].pc = "write" /\ MayWrite(c) /\ ~Conflicts(c) /\ lock' = c /\ tx' = [tx EXCEPT ![c] = t]
        /\ UNCHANGED << rows, commits, seen, calls, outcome, era >>
    BY DEF Write
  <1>2. /\ tx[c] \in TxRecord /\ tx[c].i \in 1 .. Len(tx[c].keys) /\ Key(c) \in Keys
        /\ rows \in [Keys -> Row] /\ commits \in Nat /\ era \in [Keys -> Nat]
        /\ tx[c].keys \in Batches
    BY <1>1, KeyType DEF StoreIInv, StoreTypeOK
  <1>3. /\ tx[c].i \in Nat /\ Len(tx[c].keys) \in Nat /\ tx[c].work \in [Keys -> Row]
        /\ tx[c].old \in Row /\ tx[c].call \in Nat /\ now \in Nat /\ now > 0
    BY <1>2, BatchIsSeq, StoreConstants DEF TxRecord
  <1>4. /\ new \in Row
        /\ tx[c].kind = "delete" => new = NoRow
        /\ tx[c].kind # "delete" => new.ver > tx[c].old.ver /\ new.by = tx[c].call /\ new.era = era[Key(c)]
    <2>1. CASE tx[c].kind = "delete"
      BY <2>1, NoRowTypes DEF NewRow
    <2>2. CASE tx[c].kind # "delete"
      <3> DEFINE v == IF tx[c].old = NoRow THEN now ELSE next_update_at(tx[c].old, now)
      <3>1. tx[c].old.ver \in Nat /\ era[Key(c)] \in Nat
        BY <1>2, <1>3 DEF Row
      <3>2. v \in Nat /\ v > tx[c].old.ver
        BY <3>1, <1>3, NoRowTypes DEF next_update_at
      <3>3. new = [ver |-> v, by |-> tx[c].call, era |-> era[Key(c)]]
        BY <2>2 DEF NewRow
      <3> HIDE DEF v, new
      <3> QED
        BY <2>2, <3>1, <3>2, <3>3, <1>3 DEF Row
    <2> QED
      BY <2>1, <2>2
  <1> HIDE DEF new
  <1>5. work \in [Keys -> Row] /\ work[Key(c)] = new /\ \A k \in Keys : k # Key(c) => work[k] = tx[c].work[k]
    BY <1>2, <1>3, <1>4
  <1> HIDE DEF work
  <1>6. i \in 1 .. Len(tx[c].keys) /\ i \in Nat
    BY <1>2, <1>3
  <1>7. t \in TxRecord
    BY <1>2, <1>5, <1>6 DEF TxRecord, Tx, Pcs
  <1>8. /\ t.pc = (IF last THEN "commit" ELSE "read") /\ t.i = i /\ t.keys = tx[c].keys
        /\ t.base = tx[c].base /\ t.call = tx[c].call /\ t.kind = tx[c].kind
        /\ t.at = tx[c].at /\ t.work = work /\ t.old = tx[c].old
    BY DEF Tx
  <1> HIDE DEF t
  <1>9. tx'[c] = t
    BY <1>1 DEF StoreIInv, StoreTypeOK
  <1>10. Snapshot(c) /\ PendingFor(c) /\ CheckedFor(c) /\ tx[c].old = tx[c].work[Key(c)]
    BY <1>1 DEF StoreIInv, Snapshots, Snapshot, PendingRows, CheckedSoFar
  <1>11. Done(c)' = Done(c) \cup {Key(c)}
    <2>1. {n \in 1 .. Len(t.keys) : n < t.i \/ t.pc = "commit"}
          = {n \in 1 .. Len(tx[c].keys) : n < tx[c].i \/ tx[c].pc = "commit"} \cup {tx[c].i}
      BY <1>1, <1>2, <1>3, <1>8
    <2> QED
      BY <2>1, <1>8, <1>9 DEF Done, Key
  <1>12. \A d \in Clients : d # c => (lock' = d <=> lock = d)
    BY <1>1, StoreConstants DEF MayWrite
  <1>13. tx[c].at = commits /\ (lock # c => tx[c].work = rows /\ Done(c) = {})
    <2>1. tx[c].at = commits
      BY <1>1, <1>10 DEF MayWrite, Snapshot
    <2>2. ASSUME lock # c PROVE tx[c].work = rows /\ tx[c].i = 1
      BY <2>1, <2>2, <1>1, <1>10 DEF Snapshot
    <2>3. ASSUME lock # c PROVE Done(c) = {}
      BY <2>2, <2>3, <1>1, <1>3 DEF Done
    <2> QED
      BY <2>1, <2>2, <2>3
  <1>14. \A k \in Keys : k \notin Done(c) => tx[c].work[k] = rows[k]
    BY <1>10, <1>13 DEF Snapshot
  <1>15. Snapshot(c)'
    <2>1. t.pc = "read" => t.i > 1
      BY <1>2, <1>3, <1>8
    <2>2. \A k \in Keys : k \notin Done(c)' => work[k] = rows[k]
      BY <1>5, <1>11, <1>14
    <2>3. tx[c].kind = "delete" => Len(tx[c].keys) = 1
      BY <1>1, <1>10 DEF Snapshot
    <2> QED
      BY <2>1, <2>2, <2>3, <1>1, <1>2, <1>8, <1>9, <1>13 DEF Snapshot
  <1>16. PendingFor(c)'
    <2> SUFFICES ASSUME NEW k \in Keys
                 PROVE  \/ work[k] = rows[k] /\ (tx[c].kind = "delete" => k \notin Done(c)')
                        \/ tx[c].kind = "delete" /\ work[k] = NoRow
                        \/ /\ tx[c].kind # "delete"
                           /\ work[k].ver > rows[k].ver /\ work[k].by = tx[c].call /\ work[k].era = era[k]
      BY <1>1, <1>8, <1>9 DEF PendingFor
    <2>1. CASE k # Key(c)
      BY <2>1, <1>5, <1>10, <1>11, <1>13 DEF PendingFor
    <2>2. CASE k = Key(c) /\ tx[c].kind = "delete"
      BY <2>2, <1>4, <1>5
    <2>3. CASE k = Key(c) /\ tx[c].kind # "delete"
      <3>1. tx[c].old.ver >= rows[k].ver
        <4>1. rows[k].ver \in Nat /\ tx[c].work[k].ver \in Nat
          BY <1>2, <1>3 DEF Row
        <4>2. tx[c].work[k] = rows[k] \/ tx[c].work[k].ver > rows[k].ver
          BY <2>3, <1>10, <1>13 DEF PendingFor
        <4> QED
          BY <2>3, <4>1, <4>2, <1>10
      <3> QED
        BY <2>3, <3>1, <1>2, <1>3, <1>4, <1>5, SMTT(30) DEF Row
    <2> QED
      BY <2>1, <2>2, <2>3
  <1>17. CheckedFor(c)'
    <2> SUFFICES ASSUME tx[c].kind = "checked", NEW k \in Done(c)'
                 PROVE  rows[k] \in {NoRow, tx[c].base[k]} \/ era[k] # tx[c].base[k].era
      BY <1>1, <1>8, <1>9 DEF CheckedFor
    <2>1. CASE k \in Done(c)
      BY <2>1, <1>10, <1>13 DEF CheckedFor
    <2>2. CASE k = Key(c) /\ k \notin Done(c)
      <3>1. tx[c].old = rows[k]
        BY <2>2, <1>2, <1>10, <1>14
      <3>2. rows[k] = NoRow \/ rows[k].ver = tx[c].base[k].ver
        BY <2>2, <3>1, <1>1 DEF Conflicts
      <3>3. Copy(tx[c].base[k], k) /\ (rows[k] = NoRow \/ rows[k].ver > 0)
        BY <2>2, <1>1, <1>2 DEF StoreIInv, Copies
      <3>4. rows[k] \in Row /\ tx[c].base[k] \in Row
        BY <2>2, <1>2 DEF TxRecord
      <3> QED
        BY <3>2, <3>3, <3>4, NoRowTypes DEF Copy, Row
    <2> QED
      BY <2>1, <2>2, <1>11
  <1> QED
    BY <1>1, <1>2, <1>6, <1>7, <1>8, <1>12, <1>15, <1>16, <1>17, GoesOn

\* The transaction commits: with nothing written, or for all to see.
LEMMA CommitPreserves ==
  ASSUME StoreIInv, NEW c \in Clients, Commit(c)
  PROVE  StoreIInv'
  <1>0. /\ StoreTypeOK /\ CallsNumbered /\ Snapshots /\ PendingRows /\ Copies /\ CheckedSoFar
        /\ FailuresLeaveNothing
    BY DEF StoreIInv
  <1>1. tx[c].pc = "commit" /\ Return(c, "ok") /\ calls' = calls
    BY DEF Commit
  <1>2. CASE lock # c
    BY <1>1, <1>2, ReturnPreserves DEF Commit
  <1>3. CASE lock = c
    <2>1. /\ rows' = tx[c].work /\ commits' = commits + 1 /\ lock' = NoClient
          /\ era' = [k \in Keys |-> IF k \in Written(c) /\ tx[c].kind = "delete" THEN era[k] + 1 ELSE era[k]]
          /\ seen' = [seen EXCEPT ![c] = [k \in Keys |-> IF k \in Written(c) THEN tx[c].work[k] ELSE seen[c][k]]]
          /\ tx' = [tx EXCEPT ![c] = NoTx] /\ outcome' = [outcome EXCEPT ![tx[c].call] = "ok"]
      BY <1>1, <1>3 DEF Commit, Return, Unlock
    <2>2. /\ tx[c] \in TxRecord /\ rows \in [Keys -> Row] /\ era \in [Keys -> Nat] /\ commits \in Nat
          /\ seen \in [Clients -> [Keys -> Row]] /\ calls \in Nat /\ calls <= MaxCalls
          /\ tx[c].call \in 1 .. MaxCalls /\ tx[c].call <= calls /\ tx[c].work \in [Keys -> Row]
          /\ outcome \in [1 .. MaxCalls -> {"none", "ok", "conflict", "exhausted", "error"}]
      BY <1>0, <1>1, StoreConstants DEF StoreTypeOK, TxRecord
    <2>3. /\ tx'[c] = NoTx /\ \A d \in Clients : d # c => tx'[d] = tx[d]
          /\ tx' \in [Clients -> TxRecord] /\ tx'[c].pc = "idle"
      BY <2>1, <1>0, NoTxType DEF StoreTypeOK
    <2>4. /\ outcome' \in [1 .. MaxCalls -> {"none", "ok", "conflict", "exhausted", "error"}]
          /\ outcome'[tx[c].call] = "ok" /\ \A n \in 1 .. MaxCalls : n # tx[c].call => outcome'[n] = outcome[n]
      BY <2>1, <2>2
    <2>5. /\ seen' \in [Clients -> [Keys -> Row]]
          /\ \A d \in Clients, k \in Keys : seen'[d][k] = seen[d][k] \/ seen'[d][k] = rows'[k]
      BY <2>1, <2>2
    <2>6. era' \in [Keys -> Nat]
      BY <2>1, <2>2
    <2>7. ASSUME NEW k \in Keys
          PROVE  \/ rows'[k] = rows[k] /\ era'[k] = era[k]
                 \/ rows'[k] = NoRow /\ era'[k] = era[k] + 1
                 \/ rows'[k].ver > rows[k].ver /\ rows'[k].by = tx[c].call /\ rows'[k].era = era[k] /\ era'[k] = era[k]
      <3>1. Done(c) = Written(c)
        BY <1>1, DoneAtCommit
      <3>2. PendingFor(c) /\ (k \notin Written(c) => tx[c].work[k] = rows[k])
        BY <3>1, <1>0, <1>3 DEF PendingRows, Snapshots, Snapshot
      <3>3. CASE tx[c].kind = "delete" /\ k \in Written(c)
        BY <3>1, <3>2, <3>3, <2>1, <1>3 DEF PendingFor
      <3>4. CASE tx[c].kind = "delete" /\ k \notin Written(c)
        BY <3>2, <3>4, <2>1
      <3>5. CASE tx[c].kind # "delete"
        BY <3>2, <3>5, <2>1, <1>3 DEF PendingFor
      <3> QED
        BY <3>3, <3>4, <3>5
    <2>8. StoreTypeOK'
      BY <2>1, <2>2, <2>3, <2>4, <2>5, <2>6, <1>0, <1>1 DEF StoreTypeOK
    <2>9. CallsNumbered'
      <3>1. \A n \in 1 .. MaxCalls : n > calls' => outcome'[n] = "none"
        BY <2>2, <2>4, <1>0, <1>1 DEF CallsNumbered
      <3>2. \A d \in Clients : tx'[d].pc # "idle" => d # c /\ tx[d].pc # "idle" /\ tx'[d] = tx[d]
        BY <2>3
      <3>3. \A d \in Clients : tx[d].pc # "idle" => tx[d].call \in 1 .. MaxCalls
        BY <2>2, <1>0, StoreConstants DEF StoreTypeOK
      <3>4. \A d \in Clients : tx'[d].pc # "idle" => outcome'[tx'[d].call] = "none"
        BY <3>2, <3>3, <2>4, <1>0, <1>1 DEF CallsNumbered
      <3> QED
        BY <3>1, <3>2, <3>4, <1>0 DEF CallsNumbered
    <2>10. Snapshots'
      <3> SUFFICES ASSUME NEW d \in Clients
                   PROVE  Snapshot(d)'
        BY DEF Snapshots
      <3>1. lock' # d
        BY <2>1, StoreConstants
      <3>2. CASE d = c
        BY <3>1, <3>2, <2>1, <2>2, <2>3 DEF Snapshot, NoTx
      <3>3. CASE d # c
        <4>1. Snapshot(d) /\ lock # d /\ tx'[d] = tx[d] /\ tx[d].at \in Nat
          BY <3>3, <2>3, <1>0, <1>3 DEF Snapshots, StoreTypeOK, TxRecord
        <4> QED
          BY <4>1, <3>1, <2>1, <2>2, OtherTx DEF Snapshot
      <3> QED
        BY <3>2, <3>3
    <2>11. PendingRows' /\ CheckedSoFar'
      BY <2>1, StoreConstants DEF PendingRows, PendingFor, CheckedSoFar, CheckedFor
    <2>12. Copies'
      <3> SUFFICES ASSUME NEW k \in Keys
                   PROVE  /\ rows'[k] = NoRow \/ (rows'[k].ver > 0 /\ rows'[k].era = era'[k] /\ rows'[k].by \in 1 .. MaxCalls)
                          /\ \A d \in Clients : Copy(seen[d][k], k)' /\ (tx'[d].pc # "idle" => Copy(tx[d].base[k], k)')
        BY DEF Copies
      <3>1. rows[k] \in Row /\ rows'[k] \in Row /\ era[k] \in Nat
        BY <2>1, <2>2
      <3>2. rows[k] = NoRow \/ (rows[k].ver > 0 /\ rows[k].era = era[k] /\ rows[k].by \in 1 .. MaxCalls)
        BY <1>0 DEF Copies
      <3>3. rows'[k] = NoRow \/ (rows'[k].ver > 0 /\ rows'[k].era = era'[k] /\ rows'[k].by \in 1 .. MaxCalls)
        BY <3>1, <3>2, <2>2, <2>7, SMTT(30) DEF Row
      <3>4. ASSUME NEW s \in Row, Copy(s, k)
            PROVE  s = NoRow \/ (/\ s.ver > 0 /\ s.era <= era'[k]
                                 /\ s.era = era'[k] => rows'[k] # NoRow /\ (s = rows'[k] \/ s.ver < rows'[k].ver))
        BY <3>1, <3>4, <2>7, NoRowTypes DEF Copy, Row
      <3>5. ASSUME NEW d \in Clients PROVE Copy(seen[d][k], k)'
        <4>1. seen[d][k] \in Row /\ Copy(seen[d][k], k)
          BY <2>2, <1>0 DEF Copies
        <4>2. seen'[d][k] = seen[d][k] \/ seen'[d][k] = rows'[k]
          BY <2>5
        <4>3. CASE seen'[d][k] = seen[d][k]
          BY <4>1, <4>3, <3>4 DEF Copy
        <4>4. CASE seen'[d][k] = rows'[k]
          BY <4>4, <3>1, <3>3, <2>6 DEF Copy, Row
        <4> QED
          BY <4>2, <4>3, <4>4
      <3>6. ASSUME NEW d \in Clients, tx'[d].pc # "idle" PROVE Copy(tx[d].base[k], k)'
        <4>1. tx'[d] = tx[d] /\ tx[d] \in TxRecord
          BY <3>6, <2>3, <1>0 DEF StoreTypeOK
        <4>2. Copy(tx[d].base[k], k) /\ tx[d].base[k] \in Row
          BY <4>1, <3>6, <1>0 DEF Copies, TxRecord
        <4> QED
          BY <4>1, <4>2, <3>4 DEF Copy
      <3> QED
        BY <3>3, <3>5, <3>6
    <2>13. FailuresLeaveNothing'
      <3> SUFFICES ASSUME NEW k \in Keys, rows'[k] # NoRow
                   PROVE  outcome'[rows'[k].by] = "ok"
        BY DEF FailuresLeaveNothing
      <3>1. CASE rows'[k] = rows[k]
        <4>1. outcome[rows[k].by] = "ok" /\ rows[k].by \in 1 .. MaxCalls
          BY <3>1, <1>0 DEF FailuresLeaveNothing, Copies
        <4>2. rows[k].by # tx[c].call
          BY <4>1, <1>0, <1>1 DEF CallsNumbered
        <4> QED
          BY <3>1, <4>1, <4>2, <2>4
      <3>2. CASE rows'[k].by = tx[c].call
        BY <3>2, <2>4
      <3> QED
        BY <3>1, <3>2, <2>7
    <2> QED
      BY <2>8, <2>9, <2>10, <2>11, <2>12, <2>13 DEF StoreIInv
  <1> QED
    BY <1>2, <1>3

(***************************************************************************)
(* The theorems                                                            *)
(***************************************************************************)
LEMMA StoreInitIInv ==
  ASSUME StoreInit
  PROVE  StoreIInv
  <1>1. \A c \in Clients : tx[c] = NoTx
    BY DEF StoreInit
  <1>2. NoTx.pc = "idle" /\ NoTx.at = 0 /\ \A k \in Keys : NoRows[k] = NoRow
    BY DEF NoTx, NoRows
  <1>3. StoreTypeOK
    BY <1>1, <1>2, NoTxType, NoRowTypes, StoreConstants DEF StoreInit, StoreTypeOK
  <1>4. CallsNumbered
    BY <1>1, <1>2 DEF StoreInit, CallsNumbered
  <1>5. Snapshots /\ PendingRows /\ CheckedSoFar
    BY <1>1, <1>2, StoreConstants
       DEF StoreInit, Snapshots, Snapshot, PendingRows, PendingFor, CheckedSoFar, CheckedFor
  <1>6. Copies /\ FailuresLeaveNothing
    BY <1>1, <1>2 DEF StoreInit, Copies, Copy, FailuresLeaveNothing
  <1> QED
    BY <1>3, <1>4, <1>5, <1>6 DEF StoreIInv

LEMMA StoreNextIInv ==
  ASSUME StoreIInv, [StoreNext]_storeVars
  PROVE  StoreIInv'
  <1>1. CASE StoreNext
    <2> PICK c \in Clients : \/ StoreStep(c)
                             \/ \E k \in Keys : Find(c, k)
                             \/ \E kind \in Kinds, ks \in Batches : CallStore(c, kind, ks)
      BY <1>1 DEF StoreNext
    <2>1. CASE Begin(c)
      BY <2>1, BeginPreserves
    <2>2. CASE ReadOld(c)
      BY <2>2, ReadPreserves
    <2>3. CASE Busy(c)
      BY <2>3, TryAgainPreserves DEF Busy
    <2>4. CASE Conflict(c)
      BY <2>4, ReturnPreserves DEF Conflict
    <2>5. CASE Commit(c)
      BY <2>5, CommitPreserves
    <2>6. CASE CommitBusy(c)
      BY <2>6, TryAgainPreserves DEF CommitBusy
    <2>7. CASE Fatal(c)
      BY <2>7, ReturnPreserves DEF Fatal
    <2>8. CASE \E now \in Clock : Write(c, now)
      BY <2>8, WritePreserves
    <2>9. CASE \E k \in Keys : Find(c, k)
      BY <2>9, FindPreserves
    <2>10. CASE \E kind \in Kinds, ks \in Batches : CallStore(c, kind, ks)
      BY <2>10, CallPreserves
    <2> QED
      BY <2>1, <2>2, <2>3, <2>4, <2>5, <2>6, <2>7, <2>8, <2>9, <2>10 DEF StoreStep
  <1>2. CASE UNCHANGED storeVars
    <2>1. /\ UNCHANGED << rows, commits, lock, seen, calls, outcome, era >>
          /\ \A c \in Clients : tx'[c] = tx[c]
          /\ tx' = tx
      BY <1>2 DEF storeVars
    <2>2. \A c \in Clients : Done(c)' = Done(c) /\ Key(c)' = Key(c)
      BY <2>1, OtherTx
    <2>3. StoreTypeOK' /\ CallsNumbered'
      BY <2>1 DEF StoreIInv, StoreTypeOK, CallsNumbered
    <2>4. Snapshots'
      BY <2>1, <2>2 DEF StoreIInv, Snapshots, Snapshot
    <2>5. PendingRows' /\ CheckedSoFar'
      BY <2>1, <2>2 DEF StoreIInv, PendingRows, PendingFor, CheckedSoFar, CheckedFor
    <2>6. Copies' /\ FailuresLeaveNothing'
      BY <2>1 DEF StoreIInv, Copies, Copy, FailuresLeaveNothing
    <2> QED
      BY <2>3, <2>4, <2>5, <2>6 DEF StoreIInv
  <1> QED
    BY <1>1, <1>2

LEMMA StoreIInvHolds == StoreSpec => []StoreIInv
  <1>1. StoreInit => StoreIInv
    BY StoreInitIInv
  <1>2. StoreIInv /\ [StoreNext]_storeVars => StoreIInv'
    BY StoreNextIInv
  <1> QED
    BY <1>1, <1>2, PTL DEF StoreSpec

\* What the invariant says of the writer's transactions.
LEMMA StoreIInvSound ==
  ASSUME StoreIInv
  PROVE  TransactionsSound
  <1>1. StoreTypeOK /\ FailuresLeaveNothing
    BY DEF StoreIInv
  <1>2. WritesOnLatest
    BY DoneInWritten DEF StoreIInv, Snapshots, Snapshot, WritesOnLatest
  <1>3. NoLostUpdate
    <2> SUFFICES ASSUME NEW c \in Clients, tx[c].pc = "commit", tx[c].kind = "checked", NEW k \in Written(c)
                 PROVE  rows[k] \in {NoRow, tx[c].base[k]} \/ era[k] # tx[c].base[k].era
      BY DEF NoLostUpdate
    <2>1. lock = c
      BY DEF StoreIInv, Snapshots, Snapshot
    <2> QED
      BY <2>1, DoneAtCommit DEF StoreIInv, CheckedSoFar, CheckedFor
  <1> QED
    BY <1>1, <1>2, <1>3 DEF TransactionsSound

\* Whoever holds the write lock works on the rows as the last commit left them,
\* also on a retry; a checked write replaces what its caller had read; and a call
\* that did not return ok has changed nothing: for every number of clients, keys,
\* calls and retries.
THEOREM StoreTransactionsSound == StoreSpec => []TransactionsSound
  <1>1. StoreIInv => TransactionsSound
    BY StoreIInvSound
  <1> QED
    BY <1>1, StoreIInvHolds, PTL

\* A row's version only grows until the row is deleted, whatever the clock shows.
THEOREM StoreVersionsGrow == StoreSpec => VersionsGrow
  <1> DEFINE Grow == \A k \in Keys : rows[k] # NoRow /\ rows'[k] \notin {NoRow, rows[k]} => rows'[k].ver > rows[k].ver
  <1>1. StoreIInv /\ [StoreNext]_storeVars => [Grow]_storeVars
    <2> SUFFICES ASSUME StoreIInv, StoreNext, NEW k \in Keys, rows'[k] # NoRow, rows'[k] # rows[k]
                 PROVE  rows'[k].ver > rows[k].ver
      OBVIOUS
    <2>1. PICK c \in Clients : Commit(c) /\ lock = c
      BY DEF StoreNext, StoreStep, Begin, ReadOld, Busy, Conflict, Commit, CommitBusy, Fatal, Write, Find, CallStore
    <2>2. rows' = tx[c].work
      BY <2>1 DEF Commit
    <2> QED
      BY <2>1, <2>2 DEF StoreIInv, PendingRows, PendingFor
  <1> QED
    BY <1>1, StoreIInvHolds, PTL DEF StoreSpec, VersionsGrow

=============================================================================
