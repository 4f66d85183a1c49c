----------------------------- MODULE DdnsTasks -----------------------------
(***************************************************************************)
(* Dynamic DNS: the registry of running tasks, the triggers that start a   *)
(* sync or mark the running one, the reconcile loop that publishes the     *)
(* job's address, and the clean-up of the remote record when the job is    *)
(* disabled or deleted.                                                    *)
(*                                                                         *)
(* One job with one record of one family: the registry is a map, and a     *)
(* change of another job's entry only makes a compare-and-swap fail.       *)
(* ArcSwap::rcu runs its closure on the map it loaded and tries again when *)
(* the map has changed since; the pending flag and the cancel token are    *)
(* shared by every copy of an entry, so the closures that touch them take  *)
(* three steps: load, touch, swap.  Closures without such effects are one. *)
(* Profiles, TTL values, messages and retry times are left out.            *)
(***************************************************************************)
EXTENDS Integers, FiniteSets

CONSTANTS
  Ips,          \* addresses the source may have; 0 is none yet
  WorkerSlots,  \* bound: tasks that may exist at once
  WanRoom,      \* capacity of the event broadcast
  MaxDdnsSteps  \* bound: source changes, API calls, failures and cancellations

ASSUME DdnsConstants ==
  /\ Ips \subseteq Nat \ {0} /\ 0 \notin WorkerSlots /\ WanRoom \in Nat \ {0} /\ MaxDdnsSteps \in Nat

VARIABLES
  job,      \* database: "none", "off", "on"
  src,      \* the source's address
  remote,   \* the provider's record
  rt,       \* runtime map: [st, pub, due]
  cur,      \* the registry's entry for the job: its id, 0 for none
  pend,     \* entry id -> pending flag
  canc,     \* entry id -> cancel token
  trig,     \* the callers of start_or_mark
  worker,   \* running tasks
  api,      \* the API call: [pc, want, targets]
  wanUnread,\* WAN events not yet received
  skipped,  \* history: events were skipped, an attempt was cancelled or abandoned
  dropped,  \* history: a mark was removed together with its entry
  untold,   \* history: the record may be what no runtime was told, until a call succeeds
  orphan,   \* history: why a record may outlive its job
  ddnsSteps

ddnsVars == << job, src, remote, rt, cur, pend, canc, trig, worker, api, wanUnread, skipped, dropped, untold, orphan, ddnsSteps >>

Triggers == {"tick", "wan", "api"}
Entries == 1 .. 6
NoRuntime == [st |-> "none", pub |-> 0, due |-> FALSE]
Fresh == [st |-> "idle", pub |-> 0, due |-> TRUE]
NoTrig == [pc |-> "idle", id |-> 0, stale |-> FALSE]
NoWork == [pc |-> "idle", id |-> 0, local |-> NoRuntime, ip |-> 0, stale |-> FALSE, keep |-> FALSE]
NoApi == [pc |-> "idle", want |-> "none", targets |-> FALSE]

\* build_job_runtime for a job that is enabled or not.
Build(on, r) == IF ~on \/ r = NoRuntime THEN Fresh ELSE r

\* The map has changed: pending compare-and-swaps will fail.
StaleTrig == [t \in Triggers |-> IF trig[t].pc \in {"mark", "cas"} THEN [trig[t] EXCEPT !.stale = TRUE] ELSE trig[t]]
StaleWork == [w \in WorkerSlots |-> IF worker[w].pc \in {"fswap", "fcas"} THEN [worker[w] EXCEPT !.stale = TRUE] ELSE worker[w]]

Used == {cur} \cup {trig[t].id : t \in Triggers} \cup {worker[w].id : w \in WorkerSlots}
NewId == CHOOSE i \in Entries : i \notin Used
FreeSlot == CHOOSE w \in WorkerSlots : worker[w].pc = "idle"

DdnsInit ==
  /\ job = "on" /\ src \in Ips /\ remote = 0 /\ rt = Fresh
  /\ cur = 0 /\ pend = [i \in Entries |-> FALSE] /\ canc = [i \in Entries |-> FALSE]
  /\ trig = [t \in Triggers |-> NoTrig] /\ worker = [w \in WorkerSlots |-> NoWork]
  /\ api = NoApi /\ wanUnread = 0 /\ skipped = TRUE /\ dropped = FALSE /\ untold = FALSE /\ orphan = FALSE /\ ddnsSteps = 0

flags == << pend, canc >>
outside == << job, src, remote >>
past == << skipped, dropped, untold, orphan >>

\* A new entry with its task.
Spawn(pc) ==
  /\ \E w \in WorkerSlots : worker[w].pc = "idle"
  /\ cur' = NewId
  /\ pend' = [pend EXCEPT ![NewId] = FALSE] /\ canc' = [canc EXCEPT ![NewId] = FALSE]
  /\ worker' = [StaleWork EXCEPT ![FreeSlot] = [NoWork EXCEPT !.pc = pc, !.id = NewId]]

\* A task that starts behind an API call's has_task check: what the call knows of
\* the remote record is out of date.
Hasty == orphan' = (orphan \/ api.pc # "idle")

(***************************************************************************)
(* Triggers: the 60 s sync, the 5 s retry of a job that is not published,  *)
(* and the events.  Each reads the enabled jobs first.                     *)
(***************************************************************************)
Enter(t) == trig' = [trig EXCEPT ![t] = [NoTrig EXCEPT !.pc = "load"]]

\* The periodic full sync, which also makes up for what the listeners skipped.
SyncTick ==
  /\ trig["tick"].pc = "idle" /\ job = "on"
  /\ Enter("tick") /\ skipped' = FALSE /\ dropped' = FALSE
  /\ UNCHANGED << outside, rt, cur, flags, worker, api, wanUnread, untold, orphan, ddnsSteps >>

WanEvent ==
  /\ trig["wan"].pc = "idle" /\ wanUnread > 0
  /\ wanUnread' = wanUnread - 1
  /\ IF job = "on" THEN Enter("wan") ELSE UNCHANGED trig
  /\ UNCHANGED << outside, rt, cur, flags, worker, api, past, ddnsSteps >>

Load(t) ==
  /\ trig[t].pc = "load"
  /\ trig' = [trig EXCEPT ![t] = [pc |-> IF cur = 0 THEN "cas" ELSE "mark", id |-> cur, stale |-> FALSE]]
  /\ UNCHANGED << outside, rt, cur, flags, worker, api, wanUnread, past, ddnsSteps >>

\* The flag of an entry that has left the map is read by nobody.
Mark(t) ==
  /\ trig[t].pc = "mark"
  /\ pend' = IF trig[t].id = cur THEN [pend EXCEPT ![cur] = TRUE] ELSE pend
  /\ trig' = [trig EXCEPT ![t] = [trig[t] EXCEPT !.pc = "cas"]]
  /\ UNCHANGED << outside, rt, cur, canc, worker, api, wanUnread, past, ddnsSteps >>

CasRetry(t) ==
  /\ trig[t].pc = "cas" /\ trig[t].stale
  /\ Enter(t)
  /\ UNCHANGED << outside, rt, cur, flags, worker, api, wanUnread, past, ddnsSteps >>

CasMarked(t) ==
  /\ trig[t].pc = "cas" /\ ~trig[t].stale /\ trig[t].id # 0
  /\ trig' = [trig EXCEPT ![t] = NoTrig]
  /\ UNCHANGED << outside, rt, cur, flags, worker, api, wanUnread, past, ddnsSteps >>

CasStarted(t) ==
  /\ trig[t].pc = "cas" /\ ~trig[t].stale /\ trig[t].id = 0
  /\ Spawn("start")
  /\ trig' = [StaleTrig EXCEPT ![t] = NoTrig]
  /\ Hasty
  /\ UNCHANGED << outside, rt, api, wanUnread, skipped, untold, ddnsSteps, dropped >>

\* Another job's entry changes (or the progress of this one).
OtherEntry ==
  /\ trig' = StaleTrig /\ worker' = StaleWork
  /\ UNCHANGED << outside, rt, cur, flags, api, wanUnread, past, ddnsSteps >>

(***************************************************************************)
(* The reconcile loop                                                      *)
(***************************************************************************)
Set(w, rec) == worker' = [worker EXCEPT ![w] = rec]
Pc(w, pc) == [worker[w] EXCEPT !.pc = pc]
cancelled(w) == canc[worker[w].id]

\* sync_one_job begins with a copy of the runtime.
SyncStart(w) ==
  /\ worker[w].pc = "start"
  /\ Set(w, [worker[w] EXCEPT !.pc = "resolve", !.local = Build(TRUE, rt), !.keep = FALSE])
  /\ UNCHANGED << outside, rt, cur, flags, trig, api, wanUnread, past, ddnsSteps >>

\* The provider's profile is missing or cannot be read.
NoProfile(w) ==
  /\ worker[w].pc = "start" /\ ddnsSteps < MaxDdnsSteps
  /\ Set(w, [worker[w] EXCEPT !.pc = "find", !.local = [Build(TRUE, rt) EXCEPT !.st = "error", !.due = FALSE], !.keep = FALSE])
  /\ ddnsSteps' = ddnsSteps + 1
  /\ UNCHANGED << outside, rt, cur, flags, trig, api, wanUnread, past >>

resolve_record_ip(w) ==
  /\ worker[w].pc = "resolve"
  /\ Set(w, IF cancelled(w) THEN Pc(w, "find") ELSE [worker[w] EXCEPT !.pc = "publish", !.ip = src])
  /\ UNCHANGED << outside, rt, cur, flags, trig, api, wanUnread, past, ddnsSteps >>

Local(w, st, pub) == [worker[w] EXCEPT !.pc = "find", !.local = [st |-> st, pub |-> pub, due |-> FALSE]]
UpToDate(l, ip) == l.st = "ok" /\ l.pub = ip /\ ~l.due

\* No address yet, or nothing to change at the provider.
NothingToPublish(w) ==
  /\ worker[w].pc = "publish"
  /\ worker[w].ip = 0 \/ UpToDate(worker[w].local, worker[w].ip)
  /\ Set(w, IF worker[w].ip = 0 THEN Local(w, "wait", worker[w].local.pub) ELSE Local(w, "ok", worker[w].ip))
  /\ UNCHANGED << outside, rt, cur, flags, trig, api, wanUnread, past, ddnsSteps >>

Calls(w) == worker[w].pc = "publish" /\ worker[w].ip # 0 /\ ~UpToDate(worker[w].local, worker[w].ip)

reconcile_dns_records(w) ==
  /\ Calls(w)
  /\ remote' = worker[w].ip /\ untold' = FALSE
  /\ Set(w, Local(w, "ok", worker[w].ip))
  /\ UNCHANGED << job, src, rt, cur, flags, trig, api, wanUnread, skipped, dropped, orphan, ddnsSteps >>

\* An error, with or without effect at the provider.
PublishFails(w) ==
  /\ Calls(w) /\ ddnsSteps < MaxDdnsSteps
  /\ remote' \in {remote, worker[w].ip}
  /\ Set(w, Local(w, "error", worker[w].local.pub))
  /\ ddnsSteps' = ddnsSteps + 1
  /\ untold' = (untold \/ remote' # remote)
  /\ UNCHANGED << job, src, rt, cur, flags, trig, api, wanUnread, skipped, orphan, dropped >>

\* The cancel token wins the select before the call is made.
PublishSkipped(w) ==
  /\ worker[w].pc = "publish" /\ cancelled(w)
  /\ Set(w, Pc(w, "find"))
  /\ UNCHANGED << outside, rt, cur, flags, trig, api, wanUnread, past, ddnsSteps >>

\* It wins while the call is under way: dropped, with or without effect, and the
\* time of the sync is already noted.
PublishCut(w) ==
  /\ Calls(w) /\ cancelled(w)
  /\ remote' \in {remote, worker[w].ip}
  /\ untold' = (untold \/ remote' # remote)
  /\ Set(w, [worker[w] EXCEPT !.pc = "find", !.local = [worker[w].local EXCEPT !.due = FALSE]])
  /\ UNCHANGED << job, src, rt, cur, flags, trig, api, wanUnread, skipped, orphan, ddnsSteps, dropped >>

\* The task ends and takes its entry along.
RemoveEntry(w) ==
  /\ cur' = IF cur = worker[w].id THEN 0 ELSE cur
  /\ pend' = [pend EXCEPT ![worker[w].id] = FALSE] /\ canc' = [canc EXCEPT ![worker[w].id] = FALSE]
  /\ worker' = [StaleWork EXCEPT ![w] = NoWork] /\ trig' = StaleTrig

\* The job as stored now: gone or disabled ends the task, and what the round
\* published is nobody's.
FindJob(w) ==
  /\ worker[w].pc = "find"
  /\ IF job = "on" THEN Set(w, Pc(w, "save")) /\ UNCHANGED << cur, flags, trig, untold, orphan, skipped >>
     ELSE RemoveEntry(w) /\ untold' = (untold \/ remote # rt.pub) /\ orphan' = (orphan \/ remote # 0) /\ skipped' = TRUE
  /\ UNCHANGED << outside, rt, api, wanUnread, ddnsSteps, dropped >>

\* The round's copy becomes the runtime; the round is over.
SaveRuntime(w) ==
  /\ worker[w].pc = "save"
  /\ rt' = worker[w].local
  /\ Set(w, [NoWork EXCEPT !.pc = "check", !.id = worker[w].id])
  /\ UNCHANGED << outside, cur, flags, trig, api, wanUnread, past, ddnsSteps >>

\* A cancelled task drops the mark it may carry.
CheckCancel(w) ==
  /\ worker[w].pc = "check"
  /\ IF cancelled(w) THEN RemoveEntry(w) /\ skipped' = TRUE
     ELSE Set(w, Pc(w, "fload")) /\ UNCHANGED << cur, flags, trig, skipped >>
  /\ UNCHANGED << outside, rt, api, wanUnread, untold, orphan, ddnsSteps, dropped >>

FinishLoad(w) ==
  /\ worker[w].pc = "fload"
  /\ Set(w, [worker[w] EXCEPT !.pc = "fswap", !.stale = FALSE])
  /\ UNCHANGED << outside, rt, cur, flags, trig, api, wanUnread, past, ddnsSteps >>

\* Mutant: a mark taken by a lost attempt is forgotten.
FinishSwap_forget(w) ==
  /\ worker[w].pc = "fswap"
  /\ pend' = [pend EXCEPT ![worker[w].id] = FALSE]
  /\ Set(w, [worker[w] EXCEPT !.pc = "fcas", !.keep = pend[worker[w].id]])
  /\ UNCHANGED << outside, rt, cur, canc, trig, api, wanUnread, past, ddnsSteps >>

FinishSwap(w) ==
  /\ worker[w].pc = "fswap"
  /\ pend' = [pend EXCEPT ![worker[w].id] = FALSE]
  /\ Set(w, [worker[w] EXCEPT !.pc = "fcas", !.keep = worker[w].keep \/ pend[worker[w].id]])
  /\ UNCHANGED << outside, rt, cur, canc, trig, api, wanUnread, past, ddnsSteps >>

FinishCas(w) ==
  /\ worker[w].pc = "fcas"
  /\ IF worker[w].stale THEN Set(w, Pc(w, "fload")) /\ UNCHANGED << cur, flags, trig >>
     ELSE IF worker[w].keep
     THEN worker' = [StaleWork EXCEPT ![w] = Pc(w, "start")] /\ trig' = StaleTrig /\ UNCHANGED << cur, flags >>
     ELSE RemoveEntry(w)
  /\ dropped' = (dropped \/ (~worker[w].stale /\ ~worker[w].keep /\ pend[worker[w].id]))
  /\ UNCHANGED << outside, rt, api, wanUnread, skipped, untold, orphan, ddnsSteps >>

(***************************************************************************)
(* Clean-up of the remote record                                           *)
(***************************************************************************)
CleanUp(w) ==
  /\ worker[w].pc = "clean"
  /\ remote' = 0 /\ untold' = FALSE
  /\ rt' = IF rt = NoRuntime THEN rt ELSE [st |-> "idle", pub |-> 0, due |-> FALSE]
  /\ RemoveEntry(w)
  /\ UNCHANGED << job, src, api, wanUnread, skipped, dropped, orphan, ddnsSteps >>

\* The provider fails, with or without effect, or its profile is missing.
CleanUpFails(w) ==
  /\ worker[w].pc = "clean" /\ ddnsSteps < MaxDdnsSteps
  /\ \/ /\ remote' \in {remote, 0}
        /\ rt' = IF rt = NoRuntime THEN rt ELSE [st |-> "error", pub |-> rt.pub, due |-> FALSE]
     \/ UNCHANGED << remote, rt >>
  /\ ddnsSteps' = ddnsSteps + 1
  /\ untold' = (untold \/ remote' # remote) /\ orphan' = TRUE
  /\ RemoveEntry(w)
  /\ UNCHANGED << job, src, api, wanUnread, skipped, dropped >>

\* The clean-up is cancelled, before the call or during it.
CleanUpCut(w) ==
  /\ worker[w].pc = "clean" /\ cancelled(w)
  /\ remote' \in {remote, 0}
  /\ untold' = (untold \/ remote' # remote) /\ orphan' = TRUE
  /\ RemoveEntry(w)
  /\ UNCHANGED << job, src, rt, api, wanUnread, skipped, dropped, ddnsSteps >>

(***************************************************************************)
(* checked_set_job, checked_delete, sync_job_now, cancel_job_sync          *)
(***************************************************************************)
\* A call is refused while a task runs; the saved configuration may be enabled,
\* disabled, or the job deleted.
ApiCall(want) ==
  /\ api.pc = "idle" /\ trig["api"].pc = "idle" /\ cur = 0 /\ ddnsSteps < MaxDdnsSteps
  /\ want = "none" => job # "none"
  /\ api' = [NoApi EXCEPT !.pc = "capture", !.want = want]
  /\ ddnsSteps' = ddnsSteps + 1
  /\ UNCHANGED << outside, rt, cur, flags, trig, worker, wanUnread, past >>

\* What the clean-up will need is read before the save.
Capture ==
  /\ api.pc = "capture"
  /\ api' = [api EXCEPT !.pc = "store",
             !.targets = (api.want = "none" \/ (api.want = "off" /\ job = "on")) /\ rt.pub # 0]
  /\ UNCHANGED << outside, rt, cur, flags, trig, worker, wanUnread, past, ddnsSteps >>

StoreJob ==
  /\ api.pc = "store"
  /\ job' = api.want /\ api' = [api EXCEPT !.pc = "notify"]
  /\ UNCHANGED << src, remote, rt, cur, flags, trig, worker, wanUnread, past, ddnsSteps >>

\* After the clean-up a disabled job's runtime is built again; a deletion is over.
Last(want) == IF want = "off" THEN [NoApi EXCEPT !.pc = "refresh"] ELSE NoApi

\* notify_changed, notify_deleted
NotifyJob ==
  /\ api.pc = "notify"
  /\ rt' = IF api.want = "none" THEN NoRuntime
           ELSE IF api.want = "on" THEN [Build(TRUE, rt) EXCEPT !.due = TRUE]
           ELSE Fresh
  /\ IF api.want = "on" THEN Enter("api") /\ api' = NoApi
     ELSE api' = (IF api.targets THEN [api EXCEPT !.pc = "cleanup"] ELSE Last(api.want)) /\ UNCHANGED trig
  /\ UNCHANGED << outside, cur, flags, worker, wanUnread, past, ddnsSteps >>

\* The slot is free, or the clean-up is skipped and the running task cancelled.
SpawnCleanup ==
  /\ api.pc = "cleanup" /\ api' = Last(api.want)
  /\ IF cur = 0 THEN Spawn("clean") /\ trig' = StaleTrig /\ UNCHANGED orphan
     ELSE canc' = [canc EXCEPT ![cur] = TRUE] /\ orphan' = TRUE /\ UNCHANGED << cur, pend, worker, trig >>
  /\ UNCHANGED << outside, rt, wanUnread, skipped, untold, ddnsSteps, dropped >>

\* sync_runtime_for_job on a disabled job, at the end of saving it.
RefreshRuntime ==
  /\ api.pc = "refresh" /\ api' = NoApi
  /\ rt' = Fresh
  /\ UNCHANGED << outside, cur, flags, trig, worker, wanUnread, past, ddnsSteps >>

\* sync_job_now on a disabled job only builds its runtime.
SyncDisabledNow ==
  /\ job = "off" /\ rt # Fresh
  /\ rt' = Fresh
  /\ UNCHANGED << outside, cur, flags, trig, worker, api, wanUnread, past, ddnsSteps >>

\* sync_job_now on an enabled one: strict, no queueing.
SyncJobNow ==
  /\ job = "on" /\ cur = 0 /\ ddnsSteps < MaxDdnsSteps
  /\ Spawn("start") /\ trig' = StaleTrig
  /\ Hasty /\ ddnsSteps' = ddnsSteps + 1
  /\ UNCHANGED << outside, rt, api, wanUnread, skipped, untold, dropped >>

CancelJobSync ==
  /\ cur # 0 /\ job # "none" /\ ~canc[cur] /\ ddnsSteps < MaxDdnsSteps
  /\ canc' = [canc EXCEPT ![cur] = TRUE]
  /\ ddnsSteps' = ddnsSteps + 1
  /\ UNCHANGED << outside, rt, cur, pend, trig, worker, api, wanUnread, past >>

\* The source gets another address; a listener that is behind skips events.
SourceChanges(ip) ==
  /\ ip # src /\ ddnsSteps < MaxDdnsSteps
  /\ src' = ip
  /\ wanUnread' = IF wanUnread = WanRoom THEN wanUnread ELSE wanUnread + 1
  /\ skipped' = (skipped \/ wanUnread = WanRoom)
  /\ ddnsSteps' = ddnsSteps + 1
  /\ UNCHANGED << job, remote, rt, cur, flags, trig, worker, api, untold, orphan, dropped >>

TrigStep(t) == Load(t) \/ Mark(t) \/ CasRetry(t) \/ CasMarked(t) \/ CasStarted(t)
WorkStep(w) ==
  \/ SyncStart(w) \/ resolve_record_ip(w) \/ NothingToPublish(w) \/ reconcile_dns_records(w) \/ FindJob(w)
  \/ SaveRuntime(w) \/ CheckCancel(w) \/ FinishLoad(w) \/ FinishSwap(w) \/ FinishCas(w) \/ CleanUp(w)
ApiStep == Capture \/ StoreJob \/ NotifyJob \/ SpawnCleanup \/ RefreshRuntime

DdnsNext ==
  \/ SyncTick \/ WanEvent \/ OtherEntry
  \/ \E t \in Triggers : TrigStep(t)
  \/ \E w \in WorkerSlots : WorkStep(w) \/ NoProfile(w) \/ PublishFails(w) \/ PublishSkipped(w) \/ PublishCut(w) \/ CleanUpFails(w) \/ CleanUpCut(w)
  \/ \E want \in {"none", "off", "on"} : ApiCall(want)
  \/ ApiStep \/ SyncDisabledNow \/ SyncJobNow \/ CancelJobSync
  \/ \E ip \in Ips \cup {0} : SourceChanges(ip)

DdnsSpec == DdnsInit /\ [][DdnsNext]_ddnsVars

(***************************************************************************)
(* Properties                                                              *)
(***************************************************************************)
\* Types of the job, the registry, the callers and the tasks.
DdnsTypeOK ==
  /\ job \in {"none", "off", "on"} /\ src \in Ips \cup {0} /\ remote \in Ips \cup {0}
  /\ rt.st \in {"none", "idle", "wait", "ok", "error"} /\ rt.pub \in Ips \cup {0}
  /\ cur \in Entries \cup {0} /\ pend \in [Entries -> BOOLEAN] /\ canc \in [Entries -> BOOLEAN]
  /\ \A t \in Triggers : trig[t].pc \in {"idle", "load", "mark", "cas"} /\ (trig[t].pc = "mark" => trig[t].id # 0)
  /\ \A w \in WorkerSlots : worker[w].pc # "idle" => worker[w].id \in Entries
  /\ wanUnread \in 0 .. WanRoom

\* One task per job: the entry in the registry is the running task's, so that a
\* sync and a clean-up, or two syncs, never call the provider at the same time.
OneTask == \A w \in WorkerSlots : worker[w].pc # "idle" => worker[w].id = cur

NoTask == \A w \in WorkerSlots : worker[w].pc = "idle"
DdnsQuiet == NoTask /\ (\A t \in Triggers : trig[t].pc = "idle") /\ api.pc = "idle" /\ wanUnread = 0

\* When everything is handled, a job reported as published was published with the
\* address its source has now, however the marks raced with the running task,
\* unless since the last periodic sync a listener skipped events, a task was
\* cancelled, or a mark came between the two halves of the task's last check.
PublishedIsCurrent == DdnsQuiet /\ ~skipped /\ ~dropped /\ job = "on" /\ rt.st = "ok" => rt.pub = src

\* The same for every mark: "a racing mark is never discarded with the entry".
RacingMarkHonoured == DdnsQuiet /\ ~skipped /\ job = "on" /\ rt.st = "ok" => rt.pub = src

\* What the runtime reports as published is what the provider has, unless a call
\* that failed or was cancelled changed the record, or a task ended because its job
\* had been disabled or deleted, and no call has succeeded since.
ReportIsTrue == NoTask /\ job = "on" /\ rt.st = "ok" /\ ~untold => remote = rt.pub

\* A disabled or deleted job has no record left, unless its clean-up was skipped or
\* failed, a failed or cancelled call had created it, or a task started behind the
\* call's check or ended after it.
CleanWhenOff == DdnsQuiet /\ job # "on" /\ ~orphan /\ ~untold => remote = 0

\* One task per job, telling the truth: no two tasks call the provider for a
\* job at the same time, what is reported as published is what the provider
\* has and what the job's source has now, and a disabled or deleted job leaves
\* no record, each with the exceptions of its part.
DdnsInv == DdnsTypeOK /\ OneTask /\ ReportIsTrue /\ PublishedIsCurrent /\ CleanWhenOff
=============================================================================
