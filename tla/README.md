# A TLA+ model of Soul Hub

Soul Hub is a SvelteKit server, one Node.js process, that runs language-model
agents for its user.  The code that is hard to get right and hard to test is
the code that decides *what may run when*: it starts agents in terminal
sessions, follows them over minutes while the user edits, answers, kills and
restarts, and records what happened in files, tables and memory that many
handlers share.  This project models seven such parts, model-checks each on small
instances, and proves every safety property it checks, for every value of the
constants (section 5 says under which hypotheses):

- the **orchestration conductor**, which works off a plan of dependent tasks;
- the **editing** of that plan and the **merge** of the workers' branches, with
  the checks and repairs after it;
- the **recipe runner** with its gates, cancellation, audit row and event
  stream;
- the **scheduler** of cron tasks;
- agent **runs ordered from a chat**;
- the **playbook engine** and the route that starts and kills its runs;
- the **synchronisation of a mail account**.

Paths are relative to `src/lib/` of the repository, or begin with `routes/`,
which is `src/routes/`; `conductor.ts` is `orchestration/conductor.ts`.

## 1. The system

### 1.1 Components, state, operations

| Component | State | Operations | What makes it hard | Correct when |
|---|---|---|---|---|
| Orchestration conductor (`orchestration/conductor.ts`, `guards.ts`, routes under `routes/api/orchestration/[runId]`) | `run.json`; the promise chain of `withDispatchLock`; a worker object, listeners and timers per session | approve, dispatch pass, exit listener, stall detector, conflict checks, PM session, kill, cancel, delete, archive, reopen, resume, recovery | awaits between load and save; live worker objects shared by pass and listener; handlers that take no lock; crashes | dependencies first, worker limit, no exit lost, right verdict, run closes, interrupted work found after a crash |
| Run store (`board.ts`) | `run.json`, `board.md`, worker status files, ownership file | `loadRun`, `saveRun`, `archiveRun` | `writeFile` is not atomic; whole-record writes | a write never makes another handler's result disappear |
| Plan editing (`plan`, `tasks`, `tasks/[taskId]` routes) | the plan inside `run.json` | post a plan, add, edit, remove tasks, approve | read, await, write without a lock; the plan route skips the checks of `setPlan` | the stored plan refers to its own tasks |
| Merge of branches (`merge-agent.ts`, merge route) | its copy of the run, its lists, the project's HEAD and working tree | scan, order, merge, let an agent resolve, abort, save | git may fail for other reasons than a conflict; a crash, an agent or a refused abort leaves a merge open | dependencies first, what is reported as merged is in HEAD |
| Post-merge checks (`post-merge-*.ts`) | the checklist, the commits of repairs | run a step, try strategies, roll back | a repair may commit and not help, commit nothing, or throw | only repairs that worked stay; the cascade ends |
| Recipe runner (`naseej/runner.ts`, `pause-registry.ts`, `events.ts`, `audit.ts`, routes) | registries of runs and pauses, audit row, event bus | waves, slices, gates, answer, timeout, cancel, follow | answer, timeout and cancel race; one run id used twice; followers at any time; crash | order and width of waves, no gate forgotten, verdict and row true, every follower told |
| Scheduler (`scheduler/*`, settings route) | rows in SQLite, registry of cron tasks, controllers | fire, run now, finish, cancel, reconcile, boot with sweep and catch-up | crash in mid-run, overlapping runs, settings changed meanwhile | no overlap where forbidden, no row open for ever, missed fires made up, newest run cancellable |
| Chat runs (`orchestrator/*`, WhatsApp and Telegram handlers) | pending proposal and audit rows, active runs, check-in timer | propose, confirm, decline, expire, dispatch, cancel, report, bind | two messages at once, expiry, a check-in in flight | a proposal runs at most once and as confirmed; each acknowledged run is answered |
| Playbook engine (`playbook/engine.ts`, `parser.ts`, `context.ts`, run route) | run, pending gates, kill flags; the route's record and lock | start, phases of six types, gates, human input, timeout, kill, failure strategies | the lock is taken after awaits; kill does not stop agents; late events | dependencies first, no agent started after a kill, run ends, lock released, verdict true |
| Inbox sync (`inbox/sync.ts`, `notifications.ts`, `db.ts`, accounts route) | map of workers with client, timer and flag; tables `messages` and `sync_state`; account status, set of alerted accounts | start, restart, remove, connect, fetch in batches, save the cursor, reconnect, poll Outlook | restarts during awaits, failures heard twice, unusable credentials, rebuilt mailboxes, crashes between batches and cursor | no message passed over, a worker keeps trying while its credential is usable, a replaced one does not, one connection per account |
| Route failover (`routes/circuit-breaker.ts`, `failover.ts`) | failures per route | success, failure, choose | window boundaries | a parked route is not tried |
| Playbook chains (`playbook/chain-runner.ts`), orchestrator v2, agents, PTY, channels, vault, CRM, system and media tools, configuration, UI | SQLite, files, external services | CRUD, parsing, I/O | external services | mostly no matter of control flow |

### 1.2 How they interact

Routes call the conductor directly.  The conductor calls the worktree helpers
and a provider (which wraps the PTY manager), and is called back by the
provider's event emitter when a process prints or exits.  Everything that has
to survive is in `run.json`; the editing routes, the merge, the PM's exit
listener and startup recovery share it with the conductor and take no lock.
The lock (`withDispatchLock`) is a chain of promises that only dispatch passes,
exit listeners and conflict checks join.  The plan that editing leaves is what
the conductor dispatches; the tasks the conductor has recorded as done are what
the merge picks up; the merge writes the run's status again.

The recipe runner, the scheduler, the chat runs, the playbook engine and the
inbox do not share state with the conductor or with each other.  Each is a family of
asynchronous functions over a few module-level maps, called by routes and
timers, with a database or a polled record beside them that must agree with
the maps.  (A scheduled task may start an agent or a recipe; the scheduler sees
a handler that returns or throws.)

### 1.3 Modules

| Part | Modules |
|---|---|
| Conductor | `Conductor`, `PlanRun` (abstract), `ConductorImpl` (refinement), `MCConductor`, `ConductorProofs` |
| Order of dependent things | `Orders` (the sort that merge and playbook engine both contain), `OrdersProofs` |
| Plan editing and merge | `PlanEditing`, `BranchMerge` (which composes the two), `MCBranchMerge`, `MergeProofs` |
| Recipe runner | `RecipeRunner`, `RecipeRun` (abstract), `MCRecipeRunner`, `RecipeProofs` |
| Scheduler | `SchedulerRuns`, `MCSchedulerRuns`, `SchedulerProofs` |
| Chat runs | `ChatRuns`, `MCChatRuns`, `ChatProofs` |
| Playbook engine | `PlaybookRuns`, `MCPlaybookRuns`, `PlaybookProofs` |
| Inbox sync | `InboxSync`, `MCInboxSync`, `InboxProofs` |

PROJECT.json lists every component with its status, the lines each definition
models, and every hazard with the properties that cover it.

## 2. The plan

Done, in the order of importance for a user of the program: the conductor with
its refinement; the recipe runner with its refinement; the scheduler; the chat
runs; plan editing and merge; the playbook engine; the inbox synchronisation.

Left, in this order:

1. What more can be proved: that `NoGhostRunning` holds beside requests that
   overlap recovery's write (section 5 says what is in the way), and lemmas that
   say of the abstract specifications what they promise.
2. The chain runner on top of `PlaybookRuns`.
3. The circuit breaker with the failover loop.
4. The agents' run store (`agents/`), the filter and auto-route workers of the
   inbox.

## 3. The model

In all modules a Node.js handler is not interrupted between two awaits, so an
action is the code between two awaits that matter: a load and the later write
are two actions, with everybody else's actions in between.  Processes, agents,
git and people are choices of outcomes.  Operators whose comment says "A
fault" are variants of a definition with a plausible bug; no specification uses
them, they are listed in PROJECT.json to show that a property notices.

### 3.1 `Conductor`

One run, one approved plan (`Tasks`, `Deps`, `Order`).

| Variable | In the code |
|---|---|
| `disk` | `run.json`: status, the PM's entry, one entry per task (status and the session it describes) |
| `sess` | per task and attempt: how far the session and its exit listener are, and the status in the in-memory worker object |
| `queue` | the promise chain of `withDispatchLock`: the holder, then the waiters in arrival order |
| `job` | local variables of the holder: `latest` of the exit listener, the pass's own `run`, the workers it has started (`fresh`), its place in the plan |
| `client` | local variables of the handlers that take no lock |
| `checks` | conflict checks still in their unlocked dry-run phase |
| `pms` | PM sessions alive |
| `boot` | `recoverRuns` has not yet read the run |
| `ops`, `crashes` | bounds: requests and crashes so far |

| Actions | Code |
|---|---|
| `Stall`, `ExitClean`, `ExitError`, `Validate` | stall detector, exit listener up to the lock: status from the exit code, commit and validation |
| `StartExit`, `SaveExit`, `FinishExit` | exit listener under the lock: record the exit and block dependents, nested dispatch pass, closing check on the copy loaded before that pass |
| `LoadForDispatch`, `PickTask`, `SpawnWorker`, `SpawnError`, `SaveDispatch` | `dispatchReadyWorkersInner`; its worker objects stay shared with the listeners (`View`) until it saves |
| `QueueReports`, `LoadForReports`, `SaveReports` | `checkActiveConflicts` |
| `TornLoad` | `loadRun` meets a half-written file and returns null (also a case of `LoadAgain`) |
| `Begin`, `LoadAgain` | a request arrives, its handler loads the run and checks it |
| `Approve`, `Dispatch`, `Kill`, `KillAsync`, `Cancel`, `Delete`, `Archive`, `Reopen`, `Resume` | the operator's requests |
| `StartMerge`, `SaveMergeLog`, `FinishMerge` | the writes of the run by `runSmartMerge` and by the exported `beginMerge` |
| `SpawnPm`, `PmExit`, `SavePmExit` | `generatePlan` and the PM's exit listener |
| `Crash`, `BeginRecover`, `Recover` | the process dies, restarts, `recoverRuns` |

Abstractions, each of which only adds behaviours or drops data nobody reads:

- A process may end at any time in any way, so a kill signal is not a separate
  action: what the handlers *record* is.  After a crash the processes are
  orphans ("lost"): this server never hears of them.
- Git, the dependency install, the validator and the providers are their
  outcome: it works or it does not.  The spawn timeout is a failed start.
- `writeFile` being not atomic is modelled on the reader's side: while some
  handler has a write ahead of it, a job may read half a file.
- Board, status files, output logs, failure summaries, conflict reports,
  timers and browser events are write-only for the control flow.
- The lock is global, the model has one run; passes of other runs only delay.
- PM sessions have no identity: recovery takes a PM entry for alive when any PM
  session is.
- A session per attempt: `MaxAttempts` bounds how often a task is started.
  A pass that would exceed the bound stops (`OutOfAttempts`).

### 3.2 `PlanRun` and `ConductorImpl`

`PlanRun` is what the user is promised when nobody interferes: tasks start in
dependency order and within the limit, a failure blocks the direct dependents,
and the run is closed with the right verdict.  It has no lock, no copies and no
file.  `ConductorImpl` computes its two variables from the conductor's state
(`PhaseOf`) and states `ImplementsPlan`.

Two things in `PlanRun` are there because the code does them, and are not
what one would first write down: a task may start when its dependency has
*exited* cleanly although its validation is not over, and a run may be closed
while an outcome is still open, its verdict being revised later.

### 3.3 `MCConductor`

The plans (Pair, Free, Join, Fork, Chain, Fan), the client sets and their
symmetry, and `StartedInit`, the state right after a lone approval, from which
the runs about operators begin in order not to spend a request on it.  It is a
reachable state of `Spec`.

### 3.4 `RecipeRunner` and `RecipeRun`

One recipe, several calls of `runRecipe` that may carry the same run id.

| Variable | In the code |
|---|---|
| `recipe` | the steps with place, dependencies, `on_failure`, gates, `max_parallelism` |
| `pc`, `runId`, `completed`, `phase`, `recorded`, `aborted` | per call: verdict, id, waves behind it, promise of each step, `stepResults`, its signal |
| `runRegistry`, `pauseRegistry` | the two module-level maps |
| `row`, `bus`, `sub` | the row in `naseej_runs`, the bus of `events.ts`, what a follower of the events route has been told |

| Actions | Code |
|---|---|
| `Refuse`, `StartCall` | validation with `toWaves`, registration, first slice |
| `ExitStep`, `RequestPause` | a component ends, a gate's component asks |
| `HaltRun`, `NextChunk`, `CompleteRun` | after a slice: a failure that halts or an abort, the next slice or wave, the end with its row and its event |
| `Respond`, `RespondMismatched`, `TimeOut` | the respond route and the pause's timer |
| `Cancel` | the cancel route: abort, pending pauses of the run |
| `Subscribe`, `Disconnect`, `DropBus` | the events route, the bus dropped some time after the end |
| `Crash` | the process dies; rows stay |

`RecipeRun` is what the caller of one run is promised: a set of steps whose
needs are accepted starts, a step asks and is answered, succeeds or fails
(tolerated or not), the run is cancelled, ends with a verdict that fits, or is
lost with the process.  It has no waves, slices, registries, rows or keys.
`ImplementsPromise` says that every call implements it, whatever the other
calls do.

What the code does and a reader might not expect: the comment at `runner.ts:753`
speaks of a check of the signal that is not there, a step that has not begun
when the run is cancelled begins; the respond route documents 409, an answer
that comes late gets 404; a follower who connects after the end is given the
final event and its stream stays open; of two calls with one id the one that
ends first takes the controller of the other away, which cannot be cancelled
from then on.  `CancellableWhileRunning` is therefore about ids whose calls do
not overlap.

### 3.5 `SchedulerRuns`

Time counts cron periods: a registered task is due once per period.

| Variable | In the code |
|---|---|
| `settings`, `rows` | the scheduler's settings, table `scheduler_runs` |
| `registry`, `lastSpecSig`, `due` | the cron registry, the signatures of `reconcile`, callbacks of this period still to come |
| `live`, `activeControllers`, `aborted` | runs whose handler is at work, the controller slot per task, signals |
| `boot`, `catchup`, `reconciled` | `start()` with its sweep, the sequential catch-up, whether the last reconcile ended without throwing |

| Actions | Code |
|---|---|
| `Fire`, `RunNow`, `FinishRun`, `Kill` | cron callback with the overlap check, run-now and cancel routes, end of the handler with the row's status |
| `SaveSettings` (with `Reconcile`) | the settings route; reading and writing the settings file is one step |
| `Boot`, `CatchupStep` | sweep of old rows, reconcile, then one missed task after the other |
| `Crash`, `Tick` | the process ends in any way, time goes on |

`NewestIsCancellable` is about the controller's slot: the cancel route asks for
the registered task first and answers 404 when a reconcile has unregistered it,
although its run goes on.

### 3.6 `ChatRuns`

A turn is one inbound message with everything it sets in motion.

| Variable | In the code |
|---|---|
| `turn` | how far the handler and its run are, the chat, the agent |
| `active`, `checkin` | `active-runs.ts`; the check-in timer of `worker.ts` and its message in flight |
| `pending`, `history` | `pending-proposals.ts` and the audit rows of `proposal-history.ts` |
| `quota` | bound: messages still to come |

| Actions | Code |
|---|---|
| `Arrive` | the handler up to its first await, one case per kind of message: cancel, decline, switch to web, confirm, a yes with nothing to confirm while a run is young, anything else |
| `ProposeAgent`, `DispatchAgent`, `RunSkill`, `Answer` | the language model's choice: a proposal, an immediate dispatch with the capacity check, a slow skill, plain text |
| `AckSent`, `Started` | the acknowledgement is sent; the run is registered |
| `CheckIn`, `CheckInLands` | the timer fires; its message is delivered |
| `Returned`, `SkillReports`, `Tell` | the agent returns; the skill's result; the verdict is sent and the audit row bound |
| `Age` | a proposal expires, then is swept |

The field `row`, by which a turn knows the audit row of its proposal, is a
history variable: the code has no such link and binds by agent and recency.
`BindingsAreSound` says what that is worth: the binding is to a confirmation of
the same chat and agent, each once, not necessarily to the very proposal.

Observed and not promised by the code: the comment at
`pending-proposals.ts:268` says that any answer but a yes to the prompt about an
expired proposal drops the row and is classified like any message, while the
prompt itself (line 277) gives five minutes that no code counts; the
Telegram acknowledgement offers "reply cancel to stop", which its handler does
not know; the capacity check precedes the send of the acknowledgement and the
registration follows it, so that two messages may exceed the cap.

### 3.7 `Orders`, `PlanEditing` and `BranchMerge`

`Orders` is the depth-first sort that occurs twice in the code, as `topoSort` of
the merge and as `getPhaseOrder` of the playbook engine.  It is written as the
moments of one search (calls under way, needs looked at, what is sorted) and not
as a recursion, so that it can be reasoned about.  Two things are coarser than
the code: the needs of a task are looked at in some fixed order, not that of the
array; and a task counts as visited from the call on, as in `topoSort`, while
`getPhaseOrder` enters it at the end of the call, which is the same for the
playbooks it gets, since `parsePlaybook` refuses cycles.

`PlanEditing` has `disk` (status, tasks with what they need, tasks done),
`editor` (the copy each request holds across its await) and the actions `Open`,
`CreateTask`, `UpdateTask`, `DeleteTask`, `PostPlan`, `Refuse`, `Approve`,
`WorkerDone`.  `plan.json`, which `savePlan` writes too, is read by nothing;
`parentTask` does not matter to dispatch or merge.

`BranchMerge` composes it with the merge of what is done:

| Variable | In the code |
|---|---|
| `merge` | local variables of `runSmartMerge`: its copy of the run, `skipped`, `clean`, `conflicted`, `merged`, `conflicts`, the checklist's step; which branches the scan found to conflict (`hard`), which failed as clean (`late`) |
| `head`, `tree` | the repository: branches and repair commits in HEAD; merge under way, unmerged files, changes of others |
| `cascade` | strategies tried, the commit to return to |
| `fouled`, `known`, `posted` | history variables the properties need |

| Actions | Code |
|---|---|
| `AskMerge`, `Scan` | the route's checks and dry runs; order of branches |
| `MergeClean`, `CleanFails`, `GoResolve` | the clean branches, in turn |
| `MergeAfterAll`, `CommitFails`, `MergeRefused`, `CommitsLeftover`, `AskAgent` | the conflicted ones: what `git merge` does now |
| `AgentResolves`, `AgentFails`, `AgentDrops` | the agent that resolves |
| `GoCheck`, `StepPasses`, `StepFails`, `Apply`, `NoAction`, `Fixed`, `StillFails`, `Exhausted`, `Finish` | checklist, strategies, roll-back, the final save |
| `ResetFails`, `FixStays` | a `reset --hard` of the cascade that git refuses |
| `Throws` | `runSmartMerge` rejects: the merge is forgotten, its run stays `merging` |
| `Crash`, `ForeignChange` | the process dies; somebody edits the working tree |

Every `git merge --abort` (`merge-agent.ts:116`, `136`, `145`) swallows its
failure, so in `CleanFails`, `CommitFails` and `AgentFails` the merge is ended or
stays open (`Aborted`); edits that a timed-out agent has left unstaged in files
the merge has staged are enough for git to refuse.  The next branch then meets
that merge and aborts it, commits it under its own name (`CommitsLeftover`) or
has the agent resolve it.  In the same way the cascade may find a merge open:
a strategy that deletes `MERGE_HEAD`, a repair's commit and a reset each end it.

`MergeFollowsDependencies` is about four groups, dealt with one after the other:
branches found in HEAD, merged as clean, found to conflict by the scan, and
failed as clean, which go behind all others (line 117).  Within each group a
branch is merged after those its task needs; across groups a branch of an
earlier group can be merged before one that it needs.

Observed: no route calls `setPlan` and its cycle check, two updates can close a
cycle, and the merge then falls back to the order of the file
(`MergeFollowsDependencies` leaves out tasks on a cycle, which have no order to
keep, and plans with an id twice, of which the sort follows the first task for
its loop and the last for the needs); the save of a slow
edit puts the status of an approved run back to planning; a `git merge` that
fails for another reason than a conflict, or an agent that drops the merge, is
reported as merged though HEAD lacks the branch; a crash or a refused abort
leaves a merge open which a later branch may commit under its own name; the
roll-back's `reset --hard` drops uncommitted changes of others, and where it
fails the fix that did not work stays.  What `MergedIsInHead` promises is outside
`fouled`, which records the branches reported as merged that met foreign changes
or an open merge, or whose merge the agent dropped.  `NothingLeftOpen` is about
reports without a conflict: whatever was refused on the way, a merge that was
left open has then been committed or dropped by a later branch.  A report with a
conflict promises nothing of the tree, since its last abort may have been refused.

### 3.8 `PlaybookRuns`

| Variable | In the code |
|---|---|
| `playbook`, `phaseOrder` | what `parsePlaybook` accepts, `getPhaseOrder` |
| `pc`, `at`, `phase`, `agent`, `status` | per run: where request and engine are, phases behind it, the run object |
| `aborted`, `gate` | `runAbortFlags`, `pendingGates` |
| `live`, `active` | the route's record that the user polls, `activePlaybooks` |

| Actions | Code |
|---|---|
| `Post`, `Refuse`, `Launch`, `Reject` | the route: look at the lock, await, take it and start the engine |
| `Begin`, `Enter`, `Stop` | hooks over, next phase of the order, the look at the abort flag |
| `StartAgents`, `EndAgent`, `Output`, `FailWork`, `CompletePhase` | agents in batches or iterations, their ends and their events |
| `OpenGate`, `Approve`, `LoseAnswer`, `RejectGate`, `TimeOut` | gates and human input |
| `Kill` | the kill request |
| `Conclude`, `EndRun`, `Evict` | verdict, hooks after it, release of the lock, the record dropped |

Observed and not promised: two starts may both pass the lock, and a kill or the
first end releases it for both; a kill leaves the agents at work, and their
later events put the polled status back to running, paused or completed; a kill
between the last look at the flag and the registration of the gate waits for
the gate's timer; one that comes in the last phase ends as completed; a promise
that rejects in a parallel phase is not counted, its agent goes on saying
running; under the strategy skip, a rejected gate leaves the run saying paused
while it goes on, and dependents of failed phases run; approving also answers
human phases.  The chain runner on top (not modelled) adds: the run id the
route hands out is not the chain's own, so that a kill does not reach it and
gates inside a chain's playbooks cannot be answered.

### 3.9 `InboxSync`

One mail account.  A worker is one call of `startAccountSync`; a replaced worker
may still be at work beside its successor.

| Variable | In the code |
|---|---|
| `provider`, `credential` | IMAP or Outlook's API; what the stored credential is: a password, an authorisation, a string that Outlook cannot use, or one that cannot be decrypted |
| `current`, `worker` | the map `workers`; per worker where its attempt is, its connection, `stopping`, its timer |
| `job` | local variables of `syncInbox`: UIDVALIDITY, the cursor read, UIDs to come, `maxUid`, the batch; `seen` is the mailbox at the search |
| `rows`, `sync`, `status` | tables `messages` and `sync_state`, the account's status |
| `alerted` | `alertedAccounts` |
| `server` | the mailbox: UIDVALIDITY, UIDs, the next one |
| `carried` | history: a cursor was saved for another UIDVALIDITY than it was read for |

| Actions | Code |
|---|---|
| `StartSync`, `Restart`, `Remove`, `Crash` | start of the server, new credentials, removal, end of the process (a shutdown waits for nothing) |
| `Refreshed`, `RefreshFails`, `Connected`, `ConnectFails` | `connectWorker` up to the sync |
| `Opened`, `NoMailbox`, `Searched`, `FetchMessage`, `FinishFetch`, `SyncFails` | `syncInbox`, await by await |
| `CloseEvent`, `ErrorEvent`, `TimerFires` | the client's events, `scheduleReconnect` |
| `OutlookToken`, `OutlookAnswers`, `OutlookFails` | `connectOutlookWorker` |
| `Deliver`, `Rebuild`, `Disconnect` | the mail server and the network |

What an attempt does first depends on the credential (`Attempt`).  Two kinds end
it without a timer: a string that is no Outlook authorisation, which POST and
PATCH accept for Outlook accounts (`sync.ts:506`), and one that cannot be
decrypted because the server was started with another secret; then `decrypt`
throws and `connectWorker` rejects to nobody, which by Node's default ends the
process (a `Crash` in the model) and otherwise leaves the worker as it is.  "No
credential found" (`sync.ts:176-180`) is for an account that is gone, whose
worker was stopped before.  A refreshed token is stored by a stopped worker too,
over a credential given meanwhile (`StoresToken`).  A search that the server
refuses answers `false` and is taken for no new messages (`sync.ts:362`,
`Searched`): the cursor stays, and the messages come with a later sync.

Mail is younger than the 30 days of an initial sync, and retention is left out.
A server answers a fetch in the order of UIDs; with another order, a sync that
is stopped half way would pass over messages (this is the mutant of
`NoMailSkipped`).  After a change of UIDVALIDITY the cursor of the old mailbox
lives on, so `NoMailSkipped` says what holds until then, and run `v_rebuilt`
shows what happens after.

Observed: a stopped worker whose attempt fails late writes its failure over the
status, and the alert, of its successor; one whose token arrives late makes a
client that nobody closes, and the timer after a sync that failed on an open
connection forgets a client that stays connected, though `sync.ts:5` says there
is one; nobody listens for the event that a message has come, so that it waits
until the connection has ended and was made again, though `sync.ts:274` says the
client listens; `fetchMessagesDelta` returns the body with its field `value`,
`sync.ts:554` reads `messages` of it and throws, so that an Outlook account never
synchronises (`OutlookAnswers`); the timer handle of an Outlook poll is not
cleared; `db.ts:583` says the row of `sync_state` goes with the account, but that
table has no foreign key.

## 4. The runs

| Run | Instance | What it shows |
|---|---|---|
| `workers` | Fan: three free tasks and one after two of them; limit 2; stalls; no request after approval | the refinement `ImplementsPlan`, which includes the limit on live processes; `NoLostExit` (an exit once written survives every later whole-record write under the lock); `RestingVerdict`; `RecordWithinCapacity`; `RunCloses` |
| `operators` | Pair, two requests at a time out of eleven kinds, torn reads | `TypeOK`; `DependenciesRanFirst`, whatever stale copy is written when |
| `crash` | two free tasks, limit 2, two attempts, two crashes, failed starts; approve, resume, reopen, one at a time | `NoGhostRunning`: recovery, exits and requests together leave no entry that says running for ever; `DoneIsEarned` with workers of an earlier attempt still reporting |
| `recipes` | six recipes of three steps (gates side by side, slices of a wave, implicit dependencies, two with a cycle), two calls with one id | order and width of waves, a gate is paused exactly if it can be answered, the row and the stream tell the truth; `CancelEnds`; the refinement `ImplementsPromise` |
| `scheduler` | two tasks, five settings (changed, disabled, invalid cron, unknown type), periods 0 to 2, three runs, one save, any crashes | no overlap, every open row explained, the sweep bounds how long a crash can block a task, missed fires are made up, registry and settings agree, the newest run can be cancelled |
| `chat` | one chat of each channel, three messages, two at a time, two proposals, capacity 1 | a proposal runs once and as confirmed, audit and live proposal agree, bindings, no check-in after the verdict; `EveryAckIsAnswered` |
| `merging` | plans of up to three tasks, two editors and two edits, two merges (three requests in all), one crash, foreign change or exception, any refused aborts and resets, a blocking and a plain step, a strategy and the agent | `ReferencesHold`, `MergeFollowsDependencies`, `ReportMatchesProject`; `MergeEnds` |
| `playbooks` | two starts of one of five playbooks: two batches, phases out of file order, human input that may be passed over or must come, two iterations of a handoff, a gate before a phase that is left out | `ReportIsTrue`, `AgentsStartInTurn` (order, batch, none after a kill); `RunEnds` |
| `inbox` | an IMAP account with an authorisation or an Outlook account, malformed and unreadable credentials, two workers, three messages in batches of two, one rebuilt mailbox, two failures or crashes | `NoMailSkipped`, `WorkerKeepsTrying`, `RetiredStaysRetired`; `ComesBack` |

Three runs show where the code does not do what its comments say:

| Run | What happens |
|---|---|
| `v_twice` | The kill route loads the run, awaits the request body and writes the run back.  An entry added meanwhile is gone, and the next pass starts a second process for the same task in the same worktree. |
| `v_resume` | The list of resolved statuses in `recoverRuns` lacks `validation_failed`, so a recovered run stays running with interrupted workers and the resume route refuses it. |
| `v_rebuilt` | `sync.ts:377` starts from the last UID of the mailbox before its UIDVALIDITY changed and saves it for the new one; messages below it are never fetched. |

`NoGhostRunning` has two limits, both found by TLC, both outside run `crash`.
Of two resume requests at once, the first may start workers of which a late
recovery leaves one running and interrupts another; the second then reloads a
copy that says running, the worker exits and is recorded, and the second writes
its copy back.  And a dispatch pass that nobody's request has caused
(`dispatchReadyWorkers` is exported, but nothing in `src/` calls it) may load
the run before recovery writes and put the lost entries back after it.  Run
`crash` and theorem `NoGhosts` are therefore about one request or recovery at a
time; the extra dispatch is part of run `operators`.

Races of the conductor for which the code states no promise (none is a run): a
pass writes its copy over a run that was cancelled meanwhile and the run is
running again; an exit replaces the mark of a kill; `generatePlan`'s save drops
an exit recorded since its load; a crash while no entry says running (or during
a merge) leaves the run as it is for ever; a recovery that is late marks as
interrupted a worker that has finished, and resume does its work again; the
closing check may close the run while a worker is being validated.  Two more are
against a comment: the exit listener sets the worker to done before it commits
and validates, and a pass that shares the object saves it, so that the task may
be merged before validation, which `types.ts:50` excludes; and blocked status is
given to direct dependents only, so that with `a <- b <- c` a failure of `a`
leaves `c` without an entry and the run never closes.  The
properties that such races break (`NoLostExit`, `RunCloses`, `RestingVerdict`,
`ImplementsPlan`) are therefore checked where no request interferes, and the
ones that survive them are checked with the requests.

### Bounds

*Conductor.*  The interesting cases need two tasks that exit in either order
around a pass (Fan has three free ones for two slots, so that a pass must wait
for a slot and another job finds it), one dependent with two dependencies, two
lost workers of which a pass restarts one, a second attempt of the same task, two
overlapping requests, and a crash during recovery from a crash.

*Recipes.*  Three steps give two gates in one slice with a step that needs
both, a wave of more steps than its width, and cycles of two; two calls are the
least that can share an id.

*Scheduler.*  A crash, a start at which a row is still young, and a later one at
which it is old need `MaxTime = 2` with `MaxAge = 1`; two overlapping runs of one
task and one of the other need three rows.

*Chat.*  Two messages in progress at once race each other, a third comes after;
two proposals are one that is superseded and its successor.

*Merge.*  The plan has two tasks, listed against their dependency; an edit adds a
third on either or both.  Three tasks have a dependency between a clean and a conflicted branch
with one beside; the second merge finds what the first one, its
crash or its refused abort has left.

*Playbooks.*  `Batch` is 2 where the code has 3, so that three agents make two
batches; two starts race for the lock.

*Inbox.*  Passwords are left to run `v_rebuilt`: such an attempt is that with an
authorisation from `connecting` on.  Three messages are a full batch and a
remainder, two workers one that is replaced, two mishaps a failure and a crash, or a failure and the failure of its
retry.

Each instance has what its question needs, and each of the mutants in
PROJECT.json (a dropped guard, a stale list, a missing check) is caught within
the same bounds.  Deadlock is checked for the conductor, where `Rest` is the only
step of a state in which everything has come to its end; the other models stop
when their bounds are used up.

### Fairness

- `Conductor`: weak fairness of the lock's job, of the conflict checks, of each
  session's end and of each request's remaining steps.  The event loop runs
  every continuation that is ready; `withDispatchLock` chains the jobs so that
  none is overtaken; a silent worker is killed by the stall detector; the steps
  of validation have a timeout and the git commands of the commit end.  Nothing
  is assumed of the operators, of crashes or of the PM.  `SaveMergeLog` is not
  in it: a merge writes its log any number of times but ends.
- `RecipeRunner`: a component that runs ends and the loop goes on.  Nothing is
  assumed of people who answer, nor of the timers of gates: `CancelEnds` must
  hold without them.
- `ChatRuns`: a send returns, an agent ends within its budget, a result is
  reported.  Nothing is assumed of the user or of the check-in's timer.
- `BranchMerge`: git commands, agents and checks end.  Agents have a timeout (ten
  minutes for a conflict, six for a repair) and so have the checks; the git
  commands of `merge-agent.ts` have none, and that they end is an assumption.
- `PlaybookRuns`: hooks and agents end within their timeouts, a gate's timer
  fires.  Nothing is assumed of people.
- `InboxSync`: what a mail server or token endpoint is asked is answered, if
  only by a failure, and timers fire.  Nothing makes a message come, a connection
  end or a user act.  Failures are bounded: `ComesBack` is about the time after
  them.
- `SchedulerRuns`: none, its properties are safety properties.

## 5. The proofs

For every value of the constants; the assumptions are only the named ones:
`PlanAssumption` and `BoundAssumption` (`Conductor`: a finite set of tasks,
dependencies among them, an order of them, bounds that are numbers),
`RecipesAssumption`, `StepsAssumption`, `NamesAssumption`, `SchedulerAssumption`,
`ChatAssumption`, `InboxAssumption`, `PlanAssumption` of `PlanEditing`,
`MergeAssumption`, `PlaybookAssumption`.  Some theorems about the conductor have
a hypothesis besides, on which requests and faults an instance has: `LeftAlone`
and `OneAtATime`, below.

### `ConductorProofs`

- `TypeCorrect`: `Spec => []TypeOK`.  `TypeOK` is not inductive, because jobs
  read the head of the queue: `TypeInv` adds `Holder` (a running job is the
  head, and the steps of an exit listener run for an exit).
- `OrderOfDependents`: `Spec => []DependenciesRanFirst`, and `DoneEarned`:
  `Spec => []DoneIsEarned`.  Any of the copies of `run.json` that handlers hold
  may be written back at any time, so the invariant is about *all* copies:
  `CopiesEarned` says that an entry done, in `run.json`, in the pass's copy, in
  the exit listener's copy and in every request's copy, names a session that
  exited cleanly.  No edit makes an entry done except the recording of an exit
  and the pass's view of the live worker objects, and a session that exited
  cleanly never takes it back (`KeepsExits`): validation demotes done to
  validation_failed and both count.  `SessionsFit` (a live session is running
  or stuck) and `QueueFits` (a waiting exit is that of a session that was
  started) make the steps of the sessions and of the lock keep this.
  `SpawnFits` carries it from the choice of a task to its start, across the
  awaits of the worktree set-up.  The proof goes action by action; `LockFrame`
  and `ClientFrame` say once what the many actions that start nothing leave
  intact.
- `WithinCapacity`: `Spec => []RecordWithinCapacity`.  Again every copy counts:
  `CopiesFit` says that none of them shows more running tasks than the limit.
  Requests only take tasks out of running, and an entry becomes running only
  when the pass starts a worker, in the pass's own copy.  `PassFits` is the
  pass's account: what its copy showed when it was loaded plus what the pass
  has started since stays within the limit, and strictly below it while a
  started choice waits for its worktree.  The exit listener puts the worker of
  its exit into the record, so `QueueOver` is needed: a worker whose exit waits
  in the queue does not run any more.  The theorem is about the record only.
  Live *processes* are another matter: a request that writes back an older copy
  drops the entry of a worker that lives on (run `v_twice`).

The next three are of a conductor **left to itself** (`LeftAlone`): one client,
whose only requests are approvals and dispatch passes, and no crash; stalls,
failed starts and torn reads may happen.  With any other request the statements
are false (section 4 lists the races), so the hypothesis is not one of
convenience; it is that of run `workers`, for every plan, limit and bound.

- `ExitsAreKept`: `Spec => []NoLostExit`, and `VerdictIsRight`:
  `Spec => []RestingVerdict`, by `AloneInv`.  Left to itself the holder of the
  lock is the only writer, which `JobAlone` makes precise: each copy the holder
  has *is* `run.json`, or, while it records an exit, `run.json` with that exit
  put in.  The exception is the copy that the exit listener keeps over its
  dispatch pass: it is stale when the pass has started something, but then not
  every task of it is resolved and the listener does not write it.
  `SessionsAlone` says that a task has one session, named by `run.json` or by
  the pass that has not written yet; `QueueAlone`, that each waiting exit is
  that of a session of its own; `VerdictAlone`, that a closed run is resolved
  and says what it should, but for a moment in which the last listener is about
  to revise it.
- `PlanIsImplemented`: `Spec => ImplementsPlan`, the refinement of `PlanRun`.
  `PlanStep` maps each step: `Approve` to the start of the run, `SpawnWorker` to
  the start of a task, `SaveExit` to the record of an outcome with the blocked
  dependents, `FinishExit` to the closing, the end of a process to that of its
  phase, and all else to a stutter.  That a start is within the limit needs the
  account of `PassFits`, in which every phase at work has its entry;
  that a dependency has exited cleanly when its dependent starts, `JobAlone`.

- `NoGhosts`: `Spec => []NoGhostRunning` with **one request at a time**
  (`OneAtATime`: one client; approve, resume, reopen; no torn read; any number
  of crashes, stalls and failed starts).  `GhostInv` says: every running entry
  of every copy of `run.json` that a job holds names a session whose exit is
  still going to be recorded (`Backed`), *or* the server has crashed and nobody
  but recovery has done anything since (`AfterCrash`).  That the second case
  ends only with recovery's write needs that requests refuse a run that says
  running, and that a run which does not say running has no running entry
  (`Sober`).  Recovery may itself leave a run with interrupted and live workers
  (`Mixed`); resume must not take a copy of such a run, and does not, because it
  would have to begin before and there is one request at a time (`NoMix`).

### `OrdersProofs`

`PostOrderSorts`: the sort lists every id once, and, of a list without an id
twice, an id that is not on a cycle comes after all it needs, directly or not.
The induction over the length of the search is one over a set of moments
(`UpTo`), since the induction theorems of the library cannot be used: `SearchInv`
holds at every moment, each moment makes `Progress` by one until the search is
over, and there is room for no more than `Enough`.  On top of it, `Later` says
that a call reaches the calls made from it, so that a need which is passed over
because its call is open closes a cycle, and `Sorted` that what is sorted comes
after what it reaches.

### `MergeProofs`

`MergeInv` conjoins what the plans are (`PlanGood`: also the copies that editors
hold are well formed), where the loop of the merge is (`ControlOK`), its lists
(`ListsOK`: together they are the done tasks, once each), their order
(`OrderOK`), the commits of repairs (`RepairsOK`) and the project (`ProjectOK`).

- `PlansStayWellFormed`: `Spec => []ReferencesHold`.  Each route checks the copy
  it writes; the invariant is that all copies are well formed, the merge's
  included.
- `OrderIsKept`: `Spec => []MergeFollowsDependencies`.  From `PostOrderSorts`
  the sorted branches are in order, and a filter of them too (`KeptComesFrom`),
  the conflicted ones with the late ones behind them;
  `MovesOne` says what every step of the merge has in common: one branch leaves
  the head of a list for the end of another.
- `ReportIsTrueOfProject`: `Spec => []ReportMatchesProject`.  What is
  reported as merged is in HEAD or in `fouled`, and so it is in the commit that a
  roll-back returns to (`RollbackOK`); no merge is open once a branch was merged,
  none was given up and none that failed as clean is still to be tried again
  (`Settled`), which holds when the loops are over without a conflict; between
  repairs HEAD holds the known ones.

### `PlaybookProofs`

- `PhasesAreOrdered`: `getPhaseOrder` lists every phase once, after those it
  depends on; from `PostOrderSorts` and what `parsePlaybook` refuses.
- `ReportsAreTrue`: `Spec => []ReportIsTrue`.  `Inv` says of every run that the
  phases behind its place in the order are over and that no agent of a completed
  one is at work or failed (`Past`), what the current phase may look like (`Now`),
  and that a verdict has its reason (`Said`); of the lock, that it is held only
  while some run is in progress.  `Locks` says what a step of one run may do to it:
  hold it while that run is busy, or leave it as it was for the others.
- `AgentsTakeTurns`: `Spec => AgentsStartInTurn`, an action property: only
  the steps that start a batch or go on to the next iteration set an agent
  running, and `Inv` gives that the phases before are over; after a kill only the
  review that follows in an iteration is left.

### `RecipeProofs`

`IInv` conjoins `TypeInv` (phases fit the call), `CallsInv` (what is completed
and recorded is closed under needs, a slice is no wider than the recipe says),
`PauseInv` and `RegistryInv` (the two maps against the phases and the calls),
`RowIsExplained` and `StreamInv` (row, bus and follower against the calls).
The waves need facts about dependency graphs: a non-empty finite set of steps
without a cycle has a minimal element (`LeastNumber` on their number), a recipe
is refused exactly if it has a cycle (`CyclesRefused`), and a slice, taken by
place, is narrow because places are distinct (`SliceIsNarrow`, by an
injection).  From `IInv` follow the theorems on order and width, on the
verdict, on gates, row, cancelling and stream, and `Refinement`:
`Spec => ImplementsPromise`, step by step, a step of the runner being a step of
`RecipeRun` or a stutter for every call.

### `SchedulerProofs`

`IInv` conjoins `RunInv` (what is said of rows, live runs, controllers and
signals), `RegistryInv` (what is registered has a valid expression, the
signature last seen, and comes from some settings), `CatchupInv` (the run that
catch-up awaits is at work) and `DownInv` (a server that is down has no memory).
`NoOverlap` is not inductive without `OpenRowsAreExplained`: the overlap check
sees rows, so every run at work must have an open one; it is proved in the form
`NoTwo`, without counting.  `CatchupReachesAll` (`Spec => []CaughtUp`) follows a
missed task from the list to its turn: it is still in the list, or has a row of
this start or an open one (`TodoInv`).  When its turn comes and the code finds it
not missed any more, it has succeeded since (`NotMissedIsSettled`), because only
rows of this start have changed (`BootInv`).  `NewestCancellable` needs `ControllersAreLive`: the
controller slot never names a run that is over.  `NoCancelledSuccess` says that a run whose
signal was aborted is never recorded as a success.

### `ChatProofs`

`IInv` conjoins `TurnInv` (what a turn may be while registered, starting or over),
`HistInv` (a row in the audit is open exactly while its proposal lives),
`CarriedInv` (each confirmation is carried by at most one turn, of the same chat
and agent) and `BindingsAreSound`.  `Grows` says once, for the many actions that
touch the audit, that rows are only added and that of an older row only an open
resolution changes.

### `InboxProofs`

`TypeCorrect` needs that a server that is down has no workers (`DownInv`), and is
proved in two parts, the workers and the data, because most steps touch only
one.  `NoneSkipped` is about the saved cursor, but the invariant `MailInv` speaks
of every job as well: a stopped worker may save its cursor at any time beside
its successor.  `Passed` says that what a job's maximum has passed, or what is
below a UID still to come, is in the table, in its batch or still to come; the
step of `FetchMessage` uses that the server answers in the order of UIDs
(`NextUidIsFirst`).  `Fresh` says for which jobs: those about the mailbox as it
is, whose cursor was read for it.  `carried` and a removed account excuse from
then on, so that both only fall away in the proof (`Clean`).  `KeepsTrying` needs
that the credential and what a worker is doing with it fit the provider (`Fits`),
so that only Outlook meets a malformed one; `RetiredStays` follows from the type
invariant, which knows who may have a timer.

### Only proved

The type invariants of `RecipeRunner` and `InboxSync` (`TypeCorrect` of either)
are in no run of their own.

### Only model-checked

All liveness (`RunCloses`, `CancelEnds`, `EveryAckIsAnswered`, `MergeEnds`,
`RunEnds`, `ComesBack`), which is out of the prover's reach: it needs fairness
and ENABLED.  The violated statements of section 4 are counterexamples of small
instances.  Every invariant, action property and refinement that a passing run
checks is stated by a theorem.

## 6. Not modelled

- Playbook chains (`playbook/chain-runner.ts`): section 3.8 says what they add;
  a model would be a second engine on top of `PlaybookRuns` with states of the
  size of their product.
- Route failover and circuit breaker: a map of counters, left for later.
- Run events (SSE) of the conductor: write-only for it.
- Worktrees and worker providers: each call is its outcome in `Conductor` and
  `BranchMerge`.
- Of the inbox: retention, the filter and auto-route workers, which label stored
  messages one by one, the attachment cache and the tables of the user interface.
- Orchestrator v2, agents, PTY, channels, vault, CRM, sessions, system,
  media and web tools, configuration: I/O, SQL and parsing around one await;
  their control is the answer of a model, a process or a service.
- The user interface, which keeps no state of these protocols, and the archived
  code, which nothing imports.
