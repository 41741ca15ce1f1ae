------------------------------ MODULE Conductor ------------------------------
(***************************************************************************)
(* The orchestration conductor (src/lib/orchestration/conductor.ts): one   *)
(* run, its plan of tasks, the worker processes it starts and the run.json *)
(* file every handler loads, edits and writes back whole.                  *)
(*                                                                         *)
(* The server is one Node.js process.  A handler runs without interruption *)
(* between two awaits, so an action is the code from one await that        *)
(* matters to the next.  Two kinds of handler share run.json:              *)
(*   - jobs, which run under the dispatch lock (withDispatchLock), one at  *)
(*     a time and in arrival order: a dispatch pass, the second half of a  *)
(*     worker's exit listener, the write of conflict reports;              *)
(*   - operations, which take no lock: the HTTP routes, the PM's exit      *)
(*     listener, startup recovery.  Each loads run.json in one step and    *)
(*     writes what it loaded, edited, in a later one.                      *)
(***************************************************************************)
EXTENDS Naturals, Sequences, FiniteSets

CONSTANTS
    Tasks,        \* task ids of the approved plan
    NoTask,       \* placeholder for "no task"
    Deps,         \* Deps[t]: the tasks in t.dependsOn
    Order,        \* the tasks in plan order (run.plan.tasks)
    MaxWorkers,   \* guards.ts MAX_WORKERS
    MaxAttempts,  \* bound: sessions started per task
    Clients,      \* bound: operations under way at the same time
    Kinds,        \* the operations this instance lets happen
    MaxOps,       \* bound: operations started
    Faults,       \* subset of {"spawn", "stall", "torn", "crash"}
    MaxCrashes    \* bound: crashes of the server

ASSUME PlanAssumption ==
    /\ NoTask \notin Tasks
    /\ IsFiniteSet(Tasks)
    /\ Deps \in [Tasks -> SUBSET Tasks]
    /\ Order \in Seq(Tasks)

ASSUME BoundAssumption ==
    /\ MaxWorkers \in Nat
    /\ MaxAttempts \in Nat
    /\ MaxOps \in Nat
    /\ MaxCrashes \in Nat

VARIABLES
    disk,    \* run.json: status, the PM's entry, one entry per task
    sess,    \* sess[<<t, k>>]: k-th session of task t and its in-memory worker
    queue,   \* jobs that hold or wait for the dispatch lock, holder first
    job,     \* local variables of the job that holds the lock
    client,  \* local variables of the operations under way
    checks,  \* conflict checks in their unlocked dry-run phase
    pms,     \* PM sessions alive
    boot,    \* startup recovery has not read run.json yet
    ops,     \* operations started so far
    crashes  \* crashes so far

vars == <<disk, sess, queue, job, client, checks, pms, boot, ops, crashes>>

Attempts == 1 .. MaxAttempts

RunStatus == {"planning", "running", "merging", "done", "failed",
              "cancelled", "archived"}

WorkerStatus == {"running", "done", "failed", "killed", "stuck", "blocked",
                 "interrupted", "validation_failed"}

(* A worker entry of run.json: its status and the session it describes. *)
NoWorker == [st |-> "none", k |-> 0]
Blocked  == [st |-> "blocked", k |-> 0]
Entry    == [st : WorkerStatus \cup {"none"}, k : 0 .. MaxAttempts]

PmStatus == {"none", "running", "failed", "killed", "interrupted"}

Run == [status : RunStatus, pm : PmStatus, w : [Tasks -> Entry]]

NewRun == [status |-> "planning", pm |-> "none", w |-> [t \in Tasks |-> NoWorker]]

(* "validating": the exit listener commits and validates; "queued": it     *)
(* waits for the lock or holds it; "settled": it has written run.json;     *)
(* "lost": the server died, nobody listens to the process any more.        *)
SessionPc == {"unused", "live", "validating", "queued", "settled", "lost"}

Session == [pc : SessionPc, st : WorkerStatus \cup {"none"}]

Job == [kind : {"exit"}, t : Tasks, k : Attempts]
       \cup [kind : {"dispatch", "conflicts"}]

DispatchJob  == [kind |-> "dispatch"]
ConflictsJob == [kind |-> "conflicts"]

JobPc == {"idle", "record", "load", "pick", "spawn", "store", "finish", "reports"}

JobLocals == [pc : JobPc, latest : Run, run : Run,
              fresh : [Tasks -> 0 .. MaxAttempts], idx : Nat \ {0}]

NoJob == [pc |-> "idle", latest |-> NewRun, run |-> NewRun,
          fresh |-> [t \in Tasks |-> 0], idx |-> 1]

OpKinds == {"approve", "dispatch", "kill", "kill_async", "cancel", "delete",
            "archive", "reopen", "resume", "merge", "begin_merge", "pm", "pm_exit",
            "recover"}

Operation == [kind : OpKinds \cup {"idle"},
              pc : {"idle", "checked", "save", "merging", "archiving"},
              t : Tasks \cup {NoTask}, run : Run]

Idle == [kind |-> "idle", pc |-> "idle", t |-> NoTask, run |-> NewRun]

-----------------------------------------------------------------------------
(* What the handlers compute from a run record.                            *)

RunningTasks(w) == {t \in Tasks : w[t].st = "running"}

(* Workers counted against the limit: every entry that says running, the   *)
(* PM's included.                                                          *)
ActiveWorkerCount(r) ==
    Cardinality(RunningTasks(r.w)) + (IF r.pm = "running" THEN 1 ELSE 0)

(* A fault: the limit itself still admits a worker. *)
CanSpawnOneMore(n) == n <= MaxWorkers

CanSpawnWorker(n) == n < MaxWorkers

Unsuccessful == {"failed", "killed", "stuck", "validation_failed"}

Terminal == Unsuccessful \cup {"done", "blocked", "interrupted"}

(* A fault: a failed validation does not reach the dependents. *)
RecordExitUnvalidated(r, t, e) ==
    [r EXCEPT !.w = [u \in Tasks |->
        IF u = t THEN e
        ELSE IF e.st \in {"failed", "killed", "stuck"} /\ t \in Deps[u] /\ r.w[u].st = "none"
             THEN Blocked
             ELSE r.w[u]]]

(* The exit listener's edit of run.json: the worker's own entry, and a     *)
(* blocked entry for every DIRECT dependent that has none yet.             *)
RecordExit(r, t, e) ==
    [r EXCEPT !.w = [u \in Tasks |->
        IF u = t THEN e
        ELSE IF e.st \in Unsuccessful /\ t \in Deps[u] /\ r.w[u].st = "none"
             THEN Blocked
             ELSE r.w[u]]]

(* A fault: the list of resolved statuses omits validation_failed. *)
AllDoneByOldList(w) ==
    \A t \in Tasks : w[t].st \in Terminal \ {"validation_failed"}

AllDone(w) == \A t \in Tasks : w[t].st \in Terminal

(* A fault: only the tasks that failed while running count as failures. *)
FinalStatusOfFailures(w) ==
    IF \E t \in Tasks : w[t].st \in {"failed", "killed", "stuck"} THEN "failed" ELSE "done"

FinalStatus(w) == IF \A t \in Tasks : w[t].st = "done" THEN "done" ELSE "failed"

(* The dispatch pass keeps the worker objects it creates in the run it     *)
(* loaded, and the listeners of those sessions go on changing them.        *)
FreshTasks(fresh) == {t \in Tasks : fresh[t] # 0}

View(j) ==
    [t \in Tasks |-> IF j.fresh[t] # 0
                     THEN [st |-> sess[<<t, j.fresh[t]>>].st, k |-> j.fresh[t]]
                     ELSE j.run.w[t]]

(* A fault: a dependency only has to be resolved. *)
ReadyOnceResolved(j) ==
    {i \in j.idx .. Len(Order) :
        /\ View(j)[Order[i]].st = "none"
        /\ \A d \in Deps[Order[i]] : View(j)[d].st \in Terminal}

(* Positions of the tasks the rest of the loop could start: no entry yet,  *)
(* and every dependency done, in the copy of the pass.                     *)
ReadyAt(j) ==
    {i \in j.idx .. Len(Order) :
        /\ View(j)[Order[i]].st = "none"
        /\ \A d \in Deps[Order[i]] : View(j)[d].st = "done"}

(* A fault: any process of that session counts, an orphan too. *)
HasProcess(t, k) == k # 0 /\ sess[<<t, k>>].pc \in {"live", "lost"}

(* isAlive: the provider of this server process still knows the session. *)
IsAlive(t, k) == k # 0 /\ sess[<<t, k>>].pc = "live"

-----------------------------------------------------------------------------
Init ==
    /\ disk = NewRun
    /\ sess = [s \in Tasks \X Attempts |-> [pc |-> "unused", st |-> "none"]]
    /\ queue = <<>>
    /\ job = NoJob
    /\ client = [c \in Clients |-> Idle]
    /\ checks = 0
    /\ pms = 0
    /\ boot = FALSE
    /\ ops = 0
    /\ crashes = 0

-----------------------------------------------------------------------------
(* The worker's session: its process, its in-memory worker object.         *)

(* The stall detector gives up on a silent worker and kills its process. *)
Stall(t, k) ==
    /\ "stall" \in Faults
    /\ sess[<<t, k>>].pc = "live"
    /\ sess[<<t, k>>].st = "running"
    /\ sess' = [sess EXCEPT ![<<t, k>>].st = "stuck"]
    /\ UNCHANGED <<disk, queue, job, client, checks, pms, boot, ops, crashes>>

(* The process ends with exit code 0 or 129, or after its completion       *)
(* summary was seen; the listener goes on to commit and validate.          *)
ExitClean(t, k) ==
    /\ sess[<<t, k>>].pc = "live"
    /\ sess' = [sess EXCEPT ![<<t, k>>] = [pc |-> "validating", st |-> "done"]]
    /\ UNCHANGED <<disk, queue, job, client, checks, pms, boot, ops, crashes>>

(* Any other exit; the listener goes straight to the lock. *)
ExitError(t, k) ==
    /\ sess[<<t, k>>].pc = "live"
    /\ sess' = [sess EXCEPT ![<<t, k>>] =
                  [pc |-> "queued", st |-> IF @.st = "stuck" THEN "stuck" ELSE "failed"]]
    /\ queue' = Append(queue, [kind |-> "exit", t |-> t, k |-> k])
    /\ UNCHANGED <<disk, job, client, checks, pms, boot, ops, crashes>>

(* Commit and validateWorker end: a failed step demotes the worker, a      *)
(* passed validation or a crash of the validator leaves it done.           *)
Validate(t, k) ==
    /\ sess[<<t, k>>].pc = "validating"
    /\ \E st \in {"done", "validation_failed"} :
         sess' = [sess EXCEPT ![<<t, k>>] = [pc |-> "queued", st |-> st]]
    /\ queue' = Append(queue, [kind |-> "exit", t |-> t, k |-> k])
    /\ UNCHANGED <<disk, job, client, checks, pms, boot, ops, crashes>>

-----------------------------------------------------------------------------
(* Jobs: the code that runs under the dispatch lock.                       *)

LockFree == job.pc = "idle" /\ queue # <<>>

(* The holder returns: the next waiter of the promise chain runs. *)
Release == queue' = Tail(queue) /\ job' = NoJob

(* Some operation may be in the middle of writing run.json. *)
WriteUnderWay == \E c \in Clients : client[c].pc \in {"save", "merging", "archiving"}

(* A fault: only the status of whatever entry is there is replaced. *)
StartExitOfEntry ==
    /\ LockFree
    /\ Head(queue).kind = "exit"
    /\ LET t == Head(queue).t
           k == Head(queue).k
       IN job' = [job EXCEPT !.pc = "record",
                    !.latest = RecordExit(disk, t,
                       [st |-> sess[<<t, k>>].st,
                        k |-> IF disk.w[t].k = 0 THEN k ELSE disk.w[t].k])]
    /\ UNCHANGED <<disk, sess, queue, client, checks, pms, boot, ops, crashes>>

(* Exit listener under the lock: load run.json, put the worker in. *)
StartExit ==
    /\ LockFree
    /\ Head(queue).kind = "exit"
    /\ LET t == Head(queue).t
           k == Head(queue).k
       IN job' = [job EXCEPT !.pc = "record",
                    !.latest = RecordExit(disk, t, [st |-> sess[<<t, k>>].st, k |-> k])]
    /\ UNCHANGED <<disk, sess, queue, client, checks, pms, boot, ops, crashes>>

(* A fault: a run that is not running any more is left alone. *)
SaveExitIfRunning ==
    /\ job.pc = "record"
    /\ disk' = IF job.latest.status = "running" THEN job.latest ELSE disk
    /\ sess' = [sess EXCEPT ![<<Head(queue).t, Head(queue).k>>].pc = "settled"]
    /\ job' = [job EXCEPT !.pc = IF job.latest.status = "running" THEN "load" ELSE "finish"]
    /\ UNCHANGED <<queue, client, checks, pms, boot, ops, crashes>>

(* ... and write it back. *)
SaveExit ==
    /\ job.pc = "record"
    /\ disk' = job.latest
    /\ sess' = [sess EXCEPT ![<<Head(queue).t, Head(queue).k>>].pc = "settled"]
    /\ job' = [job EXCEPT !.pc = IF job.latest.status = "running" THEN "load" ELSE "finish"]
    /\ UNCHANGED <<queue, client, checks, pms, boot, ops, crashes>>

(* A dispatch pass ends: back to the exit listener, or out of the lock. *)
DispatchReturn ==
    IF Head(queue).kind = "exit"
    THEN job' = [NoJob EXCEPT !.pc = "finish", !.latest = job.latest] /\ UNCHANGED queue
    ELSE Release

AtDispatch == job.pc = "load" \/ (LockFree /\ Head(queue).kind = "dispatch")

(* dispatchReadyWorkersInner loads run.json once for the whole pass. *)
LoadForDispatch ==
    /\ AtDispatch
    /\ IF disk.status = "running"
       THEN job' = [job EXCEPT !.pc = "pick", !.run = disk] /\ UNCHANGED queue
       ELSE DispatchReturn
    /\ UNCHANGED <<disk, sess, client, checks, pms, boot, ops, crashes>>

(* loadRun met a half-written run.json and returned null: the listener     *)
(* gives up, a report is dropped, a dispatch pass throws (which the exit   *)
(* listener around it swallows).                                           *)
TornLoad ==
    /\ "torn" \in Faults
    /\ WriteUnderWay
    /\ \/ /\ job.pc = "load"
          /\ DispatchReturn
          /\ UNCHANGED sess
       \/ /\ LockFree
          /\ sess' = IF Head(queue).kind = "exit"
                     THEN [sess EXCEPT ![<<Head(queue).t, Head(queue).k>>].pc = "settled"]
                     ELSE sess
          /\ Release
    /\ UNCHANGED <<disk, client, checks, pms, boot, ops, crashes>>

(* The loop over the plan stops at the next task without an entry whose    *)
(* dependencies are all done in the pass's own copy, or leaves the loop.   *)
PickTask ==
    /\ job.pc = "pick"
    /\ IF /\ ReadyAt(job) # {}
          /\ CanSpawnWorker(ActiveWorkerCount(job.run)
                              + Cardinality(FreshTasks(job.fresh)))
       THEN \E i \in ReadyAt(job) :
              /\ \A h \in ReadyAt(job) : i <= h
              /\ job' = [job EXCEPT !.pc = "spawn", !.idx = i]
       ELSE job' = [job EXCEPT !.pc = "store"]
    /\ UNCHANGED <<disk, sess, queue, client, checks, pms, boot, ops, crashes>>

(* Worktree, provider set-up and dependency install took their time; the   *)
(* process starts and its listeners are wired.                             *)
SpawnWorker ==
    /\ job.pc = "spawn"
    /\ LET t == Order[job.idx]
       IN \E k \in Attempts :
            /\ \A h \in Attempts : sess[<<t, h>>].pc = "unused" <=> h >= k
            /\ sess' = [sess EXCEPT ![<<t, k>>] = [pc |-> "live", st |-> "running"]]
            /\ job' = [job EXCEPT !.pc = "pick", !.idx = @ + 1, !.fresh[t] = k]
    /\ UNCHANGED <<disk, queue, client, checks, pms, boot, ops, crashes>>

(* Any step of the start failed: logged, the task keeps no entry. *)
SpawnError ==
    /\ "spawn" \in Faults
    /\ job.pc = "spawn"
    /\ job' = [job EXCEPT !.pc = "pick", !.idx = @ + 1]
    /\ UNCHANGED <<disk, sess, queue, client, checks, pms, boot, ops, crashes>>

(* The pass writes back the copy it loaded when it began. *)
SaveDispatch ==
    /\ job.pc = "store"
    /\ disk' = IF FreshTasks(job.fresh) = {} THEN disk
               ELSE [job.run EXCEPT !.w = View(job)]
    /\ DispatchReturn
    /\ UNCHANGED <<sess, client, checks, pms, boot, ops, crashes>>

(* End of the exit listener: a conflict check is started for a finished    *)
(* task, and the run is closed when every task of the copy loaded BEFORE   *)
(* the dispatch pass is resolved, whatever the status of the run by now.   *)
FinishExit ==
    /\ job.pc = "finish"
    /\ disk' = IF AllDone(job.latest.w)
               THEN [job.latest EXCEPT !.status = FinalStatus(job.latest.w)]
               ELSE disk
    /\ checks' = IF job.latest.w[Head(queue).t].st = "done" THEN checks + 1 ELSE checks
    /\ Release
    /\ UNCHANGED <<sess, client, pms, boot, ops, crashes>>

(* checkActiveConflicts: the dry-run merges are over, take the lock, load, *)
(* attach the reports, write; without a finished task there are none.      *)
QueueReports ==
    /\ checks > 0
    /\ checks' = checks - 1
    /\ \/ queue' = Append(queue, ConflictsJob)
       \/ (\A t \in Tasks : disk.w[t].st # "done") /\ UNCHANGED queue
    /\ UNCHANGED <<disk, sess, job, client, pms, boot, ops, crashes>>

LoadForReports ==
    /\ LockFree
    /\ Head(queue).kind = "conflicts"
    /\ job' = [job EXCEPT !.pc = "reports", !.latest = disk]
    /\ UNCHANGED <<disk, sess, queue, client, checks, pms, boot, ops, crashes>>

SaveReports ==
    /\ job.pc = "reports"
    /\ disk' = job.latest
    /\ Release
    /\ UNCHANGED <<sess, client, checks, pms, boot, ops, crashes>>

-----------------------------------------------------------------------------
(* Operations: handlers that take no lock.                                 *)

Closed == {"done", "failed", "cancelled"}

(* The check each handler makes on the run.json it loads. *)
MayApprove(r) == r.status = "planning" /\ Tasks # {}

MayKill(r, t) == t # NoTask /\ r.w[t].st = "running"

MayKillAsync(r, t) == t # NoTask /\ r.w[t].st # "none"

MayDelete(r) == r.status \notin Closed

MayReopen(r) == r.status \in {"cancelled", "failed"}

MayResume(r) == r.status = "failed" /\ \E u \in Tasks : r.w[u].st = "interrupted"

(* One merge at a time (inFlight), of a run in any status. *)
MayMerge(r) ==
    /\ \A c \in Clients : client[c].kind # "merge"
    /\ \E u \in Tasks : r.w[u].st = "done"

MaySpawnPm(r) == r.status \in {"planning", "running", "failed"}

(* DELETE with deleteBranches is "archive": it cancels an active run, then *)
(* archives the run.                                                       *)
Accepts(kind, t, r) ==
    \/ kind = "approve" /\ MayApprove(r)
    \/ kind = "kill" /\ MayKill(r, t)
    \/ kind = "kill_async" /\ MayKillAsync(r, t)
    \/ kind \in {"cancel", "archive", "begin_merge"}
    \/ kind = "delete" /\ MayDelete(r)
    \/ kind = "reopen" /\ MayReopen(r)
    \/ kind = "resume" /\ MayResume(r)
    \/ kind = "merge" /\ MayMerge(r)
    \/ kind = "pm" /\ MaySpawnPm(r)

(* A request arrives, its handler loads run.json and goes on.  The routes  *)
(* of resume and merge only check here and load again in the conductor.    *)
Begin(c, kind, t) ==
    /\ client[c].pc = "idle"
    /\ kind \in Kinds
    /\ ops < MaxOps
    /\ (kind \in {"kill", "kill_async"}) <=> (t # NoTask)
    /\ Accepts(kind, t, disk)
    /\ client' = [client EXCEPT ![c] =
                    [kind |-> kind, t |-> t, run |-> disk,
                     pc |-> IF \/ kind \in {"resume", "merge"}
                               \/ kind = "archive" /\ disk.status \in Closed
                            THEN "checked" ELSE "save"]]
    /\ ops' = ops + 1
    /\ UNCHANGED <<disk, sess, queue, job, checks, pms, boot, crashes>>

(* resumeRun, runSmartMerge and archiveRun load run.json for themselves.   *)
(* None looks at the status again; resumeRun throws when nothing is        *)
(* interrupted, each of them when it meets half a file.                    *)
LoadAgain(c) ==
    /\ client[c].pc = "checked"
    /\ \/ client' = [client EXCEPT ![c] =
             IF @.kind = "resume" /\ \A u \in Tasks : disk.w[u].st # "interrupted"
             THEN Idle
             ELSE [@ EXCEPT !.pc = IF client[c].kind = "archive"
                                   THEN "archiving" ELSE "save",
                            !.run = disk]]
       \/ /\ "torn" \in Faults
          /\ WriteUnderWay \/ job.pc \in {"record", "store", "reports"}
          /\ client' = [client EXCEPT ![c] = Idle]
    /\ UNCHANGED <<disk, sess, queue, job, checks, pms, boot, ops, crashes>>

(* Operation c writes r over run.json and is done. *)
Commit(c, kind, r) ==
    /\ client[c].pc = "save"
    /\ client[c].kind = kind
    /\ disk' = r
    /\ client' = [client EXCEPT ![c] = Idle]

Copy(c) == client[c].run

(* PUT plan: approveAndStart, then a dispatch pass behind the lock. *)
Approve(c) ==
    /\ Commit(c, "approve", [Copy(c) EXCEPT !.status = "running"])
    /\ queue' = Append(queue, DispatchJob)
    /\ UNCHANGED <<sess, job, checks, pms, boot, ops, crashes>>

(* dispatchReadyWorkers, exported: only queues a pass. *)
Dispatch ==
    /\ "dispatch" \in Kinds
    /\ ops < MaxOps
    /\ ops' = ops + 1
    /\ queue' = Append(queue, DispatchJob)
    /\ UNCHANGED <<disk, sess, job, client, checks, pms, boot, crashes>>

(* POST workers, action kill: the entry is marked, the process left alone. *)
Kill(c) ==
    /\ Commit(c, "kill", [Copy(c) EXCEPT !.w[client[c].t].st = "killed"])
    /\ UNCHANGED <<sess, queue, job, checks, pms, boot, ops, crashes>>

(* killWorkerAsync, used at shutdown: marks whatever entry it finds.  The  *)
(* process it signals ends by ExitClean or ExitError, like any other.      *)
KillAsync(c) ==
    /\ Commit(c, "kill_async", [Copy(c) EXCEPT !.w[client[c].t].st = "killed"])
    /\ UNCHANGED <<sess, queue, job, checks, pms, boot, ops, crashes>>

(* A fault: the status of the run is written into the entry. *)
KilledAsRun(st) == IF st = "running" THEN "cancelled" ELSE st

Killed(st) == IF st = "running" THEN "killed" ELSE st

(* cancelRun: signals and marks every running worker, the PM included. *)
Cancel(c) ==
    /\ LET r == Copy(c)
       IN Commit(c, "cancel",
            [status |-> "cancelled", pm |-> Killed(r.pm),
             w |-> [t \in Tasks |-> [r.w[t] EXCEPT !.st = Killed(@)]]])
    /\ UNCHANGED <<sess, queue, job, checks, pms, boot, ops, crashes>>

(* DELETE run: only the status changes; the workers go on. *)
Delete(c) ==
    /\ client[c].pc = "save"
    /\ client[c].kind \in {"delete", "archive"}
    /\ disk' = [Copy(c) EXCEPT !.status = "cancelled"]
    /\ client' = [client EXCEPT ![c] =
                    IF @.kind = "archive" THEN [@ EXCEPT !.pc = "checked"] ELSE Idle]
    /\ UNCHANGED <<sess, queue, job, checks, pms, boot, ops, crashes>>

(* archiveRun: worktrees are removed between the load and the write. *)
Archive(c) ==
    /\ client[c].pc = "archiving"
    /\ disk' = [Copy(c) EXCEPT !.status = "archived"]
    /\ client' = [client EXCEPT ![c] = Idle]
    /\ UNCHANGED <<sess, queue, job, checks, pms, boot, ops, crashes>>

(* PATCH run, action reopen: back to planning without any entry. *)
Reopen(c) ==
    /\ Commit(c, "reopen", NewRun)
    /\ UNCHANGED <<sess, queue, job, checks, pms, boot, ops, crashes>>

(* The blocked entries resumeRun may drop: one pass over the entries, in   *)
(* the order they were inserted, drops those with a dependency that is     *)
(* interrupted or has no entry (any more).                                 *)
DropSets(w) ==
    LET blocked == {t \in Tasks : w[t].st = "blocked"}
        gone(u) == w[u].st \in {"none", "interrupted"}
        base    == {t \in blocked : \E d \in Deps[t] : gone(d)}
    IN {D \in SUBSET blocked :
          /\ base \subseteq D
          /\ \A t \in D \ base : Deps[t] \cap D # {}}

(* resumeRun: interrupted and dropped entries go, the run is running, a    *)
(* dispatch pass follows behind the lock.                                  *)
Resume(c) ==
    /\ LET r == Copy(c)
       IN \E D \in DropSets(r.w) :
            Commit(c, "resume",
              [r EXCEPT !.status = "running",
                        !.w = [t \in Tasks |->
                                 IF r.w[t].st = "interrupted" \/ t \in D
                                 THEN NoWorker ELSE r.w[t]]])
    /\ queue' = Append(queue, DispatchJob)
    /\ UNCHANGED <<sess, job, checks, pms, boot, ops, crashes>>

(* runSmartMerge marks the run and keeps its copy while it merges (so does *)
(* beginMerge, exported, in any status and with one write less), ...       *)
StartMerge(c) ==
    /\ client[c].pc = "save"
    /\ client[c].kind \in {"merge", "begin_merge"}
    /\ disk' = [Copy(c) EXCEPT !.status = "merging"]
    /\ client' = [client EXCEPT ![c].pc = "merging"]
    /\ UNCHANGED <<sess, queue, job, checks, pms, boot, ops, crashes>>

(* ... writes that copy again with every entry of the merge log ...        *)
SaveMergeLog(c) ==
    /\ client[c].pc = "merging"
    /\ client[c].kind = "merge"
    /\ disk' = [Copy(c) EXCEPT !.status = "merging"]
    /\ UNCHANGED <<sess, queue, job, client, checks, pms, boot, ops, crashes>>

(* ... and with the outcome: runSmartMerge says done only if some branch   *)
(* was merged, beginMerge fails only if some branch was not.               *)
FinishMerge(c) ==
    /\ client[c].pc = "merging"
    /\ \E outcome \in {"done", "failed"} :
         /\ client[c].kind = "merge" /\ outcome = "done"
              => \E t \in Tasks : Copy(c).w[t].st = "done"
         /\ client[c].kind = "begin_merge" /\ outcome = "failed"
              => \E t \in Tasks : Copy(c).w[t].st = "done"
         /\ disk' = [Copy(c) EXCEPT !.status = outcome]
    /\ client' = [client EXCEPT ![c] = Idle]
    /\ UNCHANGED <<sess, queue, job, checks, pms, boot, ops, crashes>>

(* generatePlan: a PM session is started and entered in run.json. *)
SpawnPm(c) ==
    /\ Commit(c, "pm", [Copy(c) EXCEPT !.pm = "running"])
    /\ pms' = pms + 1
    /\ UNCHANGED <<sess, queue, job, checks, boot, ops, crashes>>

(* The PM's session ends: its listener loads run.json ... *)
PmExit(c) ==
    /\ pms > 0
    /\ client[c].pc = "idle"
    /\ pms' = pms - 1
    /\ client' = IF disk.pm = "running"
                 THEN [client EXCEPT ![c] =
                         [kind |-> "pm_exit", pc |-> "save", t |-> NoTask, run |-> disk]]
                 ELSE client
    /\ UNCHANGED <<disk, sess, queue, job, checks, boot, ops, crashes>>

(* ... and writes it back. *)
SavePmExit(c) ==
    /\ Commit(c, "pm_exit", [Copy(c) EXCEPT !.pm = "failed"])
    /\ UNCHANGED <<sess, queue, job, checks, pms, boot, ops, crashes>>

-----------------------------------------------------------------------------
(* Crash, restart and recovery.                                            *)

(* The server dies and comes back: everything in memory is gone, run.json  *)
(* stays, recoverRuns is about to run.                                     *)
Crash ==
    /\ "crash" \in Faults
    /\ crashes < MaxCrashes
    /\ crashes' = crashes + 1
    /\ sess' = [s \in Tasks \X Attempts |->
                  IF sess[s].pc \in {"live", "validating", "queued"}
                  THEN [sess[s] EXCEPT !.pc = "lost"] ELSE sess[s]]
    /\ queue' = <<>>
    /\ job' = NoJob
    /\ client' = [c \in Clients |-> Idle]
    /\ checks' = 0
    /\ pms' = 0
    /\ boot' = TRUE
    /\ UNCHANGED <<disk, ops>>

(* recoverRuns loads the run (requests are already being served). *)
BeginRecover(c) ==
    /\ boot
    /\ client[c].pc = "idle"
    /\ boot' = FALSE
    /\ client' = IF disk.status \in {"running", "merging"}
                 THEN [client EXCEPT ![c] =
                         [kind |-> "recover", pc |-> "save", t |-> NoTask, run |-> disk]]
                 ELSE client
    /\ UNCHANGED <<disk, sess, queue, job, checks, pms, ops, crashes>>

(* Running entries whose session this process does not know become         *)
(* interrupted; without one the run is not touched.  The list of resolved  *)
(* statuses omits validation_failed and looks at existing entries only.    *)
Recovered(r, pmAlive) ==
    LET w == [t \in Tasks |->
                IF r.w[t].st = "running" /\ ~IsAlive(t, r.w[t].k)
                THEN [r.w[t] EXCEPT !.st = "interrupted"] ELSE r.w[t]]
        resolved == /\ \E t \in Tasks : w[t].st # "none"
                    /\ \A t \in Tasks : w[t].st \in (Terminal \ {"validation_failed"}) \cup {"none"}
    IN [status |-> IF r.status = "merging" \/ resolved THEN "failed" ELSE r.status,
        pm |-> IF r.pm = "running" /\ ~pmAlive THEN "interrupted" ELSE r.pm,
        w |-> w]

Recover(c) ==
    /\ LET r == Copy(c)
           fixed == Recovered(r, pms > 0)
       IN Commit(c, "recover",
            IF fixed.w = r.w /\ fixed.pm = r.pm THEN disk ELSE fixed)
    /\ UNCHANGED <<sess, queue, job, checks, pms, boot, ops, crashes>>

-----------------------------------------------------------------------------
(* Nothing is under way any more. *)
Quiescent ==
    /\ queue = <<>>
    /\ checks = 0
    /\ pms = 0
    /\ ~boot
    /\ \A s \in Tasks \X Attempts : sess[s].pc \in {"unused", "settled", "lost"}
    /\ \A c \in Clients : client[c].pc = "idle"

(* A pass wants to start a session beyond the bound MaxAttempts. *)
OutOfAttempts ==
    /\ job.pc = "spawn"
    /\ \A k \in Attempts : sess[<<Order[job.idx], k>>].pc # "unused"

(* The program may rest there for ever (and the model at its bound). *)
Rest == (Quiescent \/ OutOfAttempts) /\ UNCHANGED vars

SessionStep(t, k) ==
    Stall(t, k) \/ ExitClean(t, k) \/ ExitError(t, k) \/ Validate(t, k)

LockStep ==
    \/ StartExit \/ SaveExit
    \/ TornLoad
    \/ LoadForDispatch \/ PickTask \/ SpawnWorker \/ SpawnError \/ SaveDispatch
    \/ FinishExit
    \/ LoadForReports \/ SaveReports

(* What remains of an operation that has begun. *)
ClientStep(c) ==
    \/ LoadAgain(c)
    \/ Approve(c) \/ Kill(c) \/ KillAsync(c) \/ Cancel(c) \/ Delete(c)
    \/ Archive(c) \/ Reopen(c) \/ Resume(c)
    \/ StartMerge(c) \/ FinishMerge(c)
    \/ SpawnPm(c) \/ SavePmExit(c)
    \/ BeginRecover(c) \/ Recover(c)

Next ==
    \/ \E t \in Tasks, k \in Attempts : SessionStep(t, k)
    \/ LockStep
    \/ QueueReports
    \/ \E c \in Clients, kind \in OpKinds, t \in Tasks \cup {NoTask} : Begin(c, kind, t)
    \/ Dispatch
    \/ \E c \in Clients : ClientStep(c) \/ SaveMergeLog(c)
    \/ \E c \in Clients : PmExit(c)
    \/ Crash
    \/ Rest

(* The event loop runs every continuation that is ready, worker processes  *)
(* end and the validation of their work ends; nothing makes a request come *)
(* or a crash happen, and nothing makes a PM session end.                  *)
Fairness ==
    /\ WF_vars(LockStep)
    /\ WF_vars(QueueReports)
    /\ \A t \in Tasks, k \in Attempts :
         WF_vars(ExitClean(t, k) \/ ExitError(t, k) \/ Validate(t, k))
    /\ \A c \in Clients : WF_vars(ClientStep(c))

Spec == Init /\ [][Next]_vars

FairSpec == Spec /\ Fairness

-----------------------------------------------------------------------------
(* Properties.                                                             *)

TypeOK ==
    /\ disk \in Run
    /\ sess \in [Tasks \X Attempts -> Session]
    /\ queue \in Seq(Job)
    /\ job \in JobLocals
    /\ client \in [Clients -> Operation]
    /\ checks \in Nat
    /\ pms \in Nat
    /\ boot \in BOOLEAN
    /\ ops \in 0 .. MaxOps
    /\ crashes \in 0 .. MaxCrashes

ExitedCleanly(s) == sess[s].st \in {"done", "validation_failed"}

(* Whatever stale copies of run.json are written over it, no worker is     *)
(* started before a session of each of its dependencies has exited         *)
(* cleanly.                                                                *)
DependenciesRanFirst ==
    \A t \in Tasks, k \in Attempts :
        sess[<<t, k>>].pc # "unused" =>
            \A d \in Deps[t] : \E h \in Attempts : ExitedCleanly(<<d, h>>)

(* No interleaving of whole-record writes makes run.json show more running *)
(* tasks than the worker limit.                                            *)
RecordWithinCapacity == Cardinality(RunningTasks(disk.w)) <= MaxWorkers

(* An entry that says done describes a session that exited cleanly, and a  *)
(* merge therefore never picks the branch of a worker that failed or was   *)
(* never run.                                                              *)
DoneIsEarned ==
    \A t \in Tasks :
        disk.w[t].st = "done" => disk.w[t].k # 0 /\ ExitedCleanly(<<t, disk.w[t].k>>)

(* Simultaneous exits do not race on run.json: what an exit listener wrote *)
(* about its worker is still there after every later job.                  *)
NoLostExit ==
    \A t \in Tasks, k \in Attempts :
        sess[<<t, k>>].pc = "settled" => disk.w[t] = [st |-> sess[<<t, k>>].st, k |-> k]

(* When everything has come to rest, the run is closed with the right      *)
(* verdict: done exactly when every task is done and validated.            *)
RestingVerdict ==
    Quiescent /\ disk.status \in {"done", "failed"} =>
        /\ \A t \in Tasks : disk.w[t].st \in Terminal
        /\ disk.status = "done" <=>
             \A t \in Tasks : disk.w[t].k # 0 /\ sess[<<t, disk.w[t].k>>].st = "done"

(* A run that was started is closed once every worker has exited. *)
RunCloses == disk.status = "running" ~> disk.status \in {"done", "failed"}

(* At rest no entry says running: every worker that run.json shows as      *)
(* running is one whose exit is still going to be recorded.                *)
NoGhostRunning == Quiescent => RunningTasks(disk.w) = {}

(* No entry, no second worker: a task is never worked on by two processes. *)
OneProcessPerTask ==
    \A t \in Tasks : Cardinality({k \in Attempts : sess[<<t, k>>].pc = "live"}) <= 1

(* A run with interrupted workers is in the status resume asks for. *)
InterruptedIsResumable ==
    Quiescent /\ (\E t \in Tasks : disk.w[t].st = "interrupted") => disk.status = "failed"

=============================================================================
