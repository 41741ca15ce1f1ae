---------------------------- MODULE SchedulerRuns ----------------------------
(***************************************************************************)
(* The scheduler (src/src/lib/scheduler): the registry of cron tasks and   *)
(* its reconciliation with the settings, the rows of scheduler_runs, the   *)
(* runs in memory and their controllers, and the start of the server with  *)
(* sweep, reconcile and catch-up.                                          *)
(*                                                                         *)
(* Time counts cron periods: every registered task is due once per period, *)
(* at its beginning.  A crash stands for every end of the process: the     *)
(* graceful shutdown does not wait for runs either.                        *)
(***************************************************************************)
EXTENDS Naturals, Sequences, FiniteSets

CONSTANTS
    Tasks,
    Order,      \* the order of the tasks in the settings
    Snapshots,  \* scheduler settings that may be saved
    MaxAge,     \* staleRunMaxRuntimeMs, in periods
    MaxTime, MaxRows, MaxSaves  \* bounds

VARIABLES
    now,
    settings,
    rows,               \* scheduler_runs, without overlap-skipped rows
    up,                 \* the server runs
    registry,           \* task -> the specification it is registered with
    lastSpecSig,
    due,                \* cron callbacks of this period still to come
    live,               \* rows whose handler is at work
    activeControllers,  \* task -> row, or 0
    aborted,            \* rows whose signal is aborted
    boot,               \* this start: time, rows then, swept, tasks that missed a fire
    catchup,            \* applyCatchupOnBoot: tasks to do, the run it awaits
    reconciled,         \* the last reconcile did not throw
    saves

memory == <<registry, lastSpecSig, due, live, activeControllers, aborted, boot, catchup,
            reconciled>>
vars == <<now, settings, rows, up, memory, saves>>

(* cron "bad" passes the schema and is refused by register; known: the type *)
(* has a handler whose factory accepts the parameters.                      *)
Spec0   == [cron : {"a", "b", "bad"}, noOverlap : BOOLEAN, enabled : BOOLEAN, known : BOOLEAN]
Absent  == [cron |-> "bad", noOverlap |-> TRUE, enabled |-> FALSE, known |-> FALSE]
NoSig   == <<"none", TRUE>>

ASSUME SchedulerAssumption ==
    /\ \A s \in Snapshots : s \in [enabled : BOOLEAN, task : [Tasks -> Spec0]]
    /\ Order \in Seq(Tasks) /\ Len(Order) = Cardinality(Tasks)
    /\ Tasks = {Order[i] : i \in DOMAIN Order}
    /\ {MaxAge, MaxTime, MaxRows, MaxSaves} \subseteq Nat

Place(t) == CHOOSE i \in DOMAIN Order : Order[i] = t

(* rescheduleSignature *)
Sig(spec) == <<spec.cron, spec.noOverlap>>

RowsOf(t)   == {r \in DOMAIN rows : rows[r].task = t}
OpenRows(t) == {r \in RowsOf(t) : rows[r].status = "started"}

(* A fault: a row older than the longest run is not counted.                *)
HasYoungRun(t) == \E r \in OpenRows(t) : now - rows[r].started <= MaxAge

HasActiveRun(t) == OpenRows(t) # {}

(* A fault: any run counts, not only a successful one.                      *)
AnyRunSince(t, time) == \E r \in RowsOf(t) : rows[r].started >= time

SuccessSince(t, time) ==
    \E r \in RowsOf(t) : rows[r].status = "success" /\ rows[r].started >= time

EverSucceeded(t) == SuccessSince(t, 0)

NoBoot    == [time |-> 0, rows |-> 0, swept |-> FALSE, missed |-> {}]
NoCatchup == [st |-> "none", todo |-> {}, run |-> 0]

Registered == {t \in Tasks : registry[t] # Absent}

TypeOK ==
    /\ now \in 0..MaxTime
    /\ settings \in Snapshots
    /\ Len(rows) <= MaxRows
    /\ \A r \in DOMAIN rows :
         rows[r] \in [task : Tasks, started : 0..MaxTime, status : {"started", "success", "error"}]
    /\ up \in BOOLEAN /\ reconciled \in BOOLEAN
    /\ registry \in [Tasks -> Spec0]
    /\ \A t \in Registered : registry[t].cron # "bad" /\ lastSpecSig[t] = Sig(registry[t])
    /\ due \subseteq Registered
    /\ live \subseteq DOMAIN rows /\ aborted \subseteq DOMAIN rows
    /\ activeControllers \in [Tasks -> {0} \cup DOMAIN rows]
    /\ catchup.run \in {0} \cup live
    /\ ~up => Registered = {} /\ live = {}
    /\ saves \in 0..MaxSaves

Init ==
    /\ now = 0
    /\ settings \in Snapshots
    /\ rows = <<>>
    /\ up = FALSE
    /\ registry = [t \in Tasks |-> Absent]
    /\ lastSpecSig = [t \in Tasks |-> NoSig]
    /\ due = {}
    /\ live = {}
    /\ activeControllers = [t \in Tasks |-> 0]
    /\ aborted = {}
    /\ boot = NoBoot
    /\ catchup = NoCatchup
    /\ reconciled = TRUE
    /\ saves = 0

-----------------------------------------------------------------------------
(* Runs *)

(* recordRun up to the handler's first await: the check and the insertion   *)
(* are one step.  Without room for a row nothing happens (a bound).         *)
Skips(t) == registry[t].noOverlap /\ HasActiveRun(t)

StartRun(t) ==
    LET r == Len(rows) + 1
    IN /\ r <= MaxRows
       /\ rows' = Append(rows, [task |-> t, started |-> now, status |-> "started"])
       /\ activeControllers' = [activeControllers EXCEPT ![t] = r]
       /\ live' = live \cup {r}

RecordRun(t) ==
    \/ Skips(t) /\ UNCHANGED <<rows, activeControllers, live>>
    \/ ~Skips(t) /\ StartRun(t)

Fire(t) ==
    /\ t \in due
    /\ due' = due \ {t}
    /\ RecordRun(t)
    /\ UNCHANGED <<now, settings, up, registry, lastSpecSig, aborted, boot, catchup, reconciled,
                   saves>>

(* POST run-now, for a registered task.                                     *)
RunNow(t) ==
    /\ t \in Registered
    /\ ~Skips(t)                      \* else only a skipped row is written
    /\ StartRun(t)
    /\ UNCHANGED <<now, settings, up, registry, lastSpecSig, due, aborted, boot, catchup,
                   reconciled, saves>>

(* A fault: the signal is not looked at when the handler returns.           *)
StatusAsReturned(r, threw) == IF threw THEN "error" ELSE "success"

(* A fault: what is cancelled is not finished in the history.               *)
CancelledStaysOpen(r, threw) == IF r \in aborted THEN "started" ELSE StatusAsReturned(r, threw)

FinalStatus(r, threw) == IF threw \/ r \in aborted THEN "error" ELSE "success"

(* A fault: the entry is removed whoever it belongs to.                     *)
ClearedAlways(r) == [activeControllers EXCEPT ![rows[r].task] = 0]

Cleared(r) ==
    [activeControllers EXCEPT ![rows[r].task] = IF @ = r THEN 0 ELSE @]

(* The handler returns or throws; a catch-up waiting for it goes on.        *)
FinishRun(r) ==
    /\ r \in live
    /\ \E threw \in BOOLEAN : rows' = [rows EXCEPT ![r].status = FinalStatus(r, threw)]
    /\ live' = live \ {r}
    /\ activeControllers' = Cleared(r)
    /\ catchup' = IF catchup.run = r
                    THEN [catchup EXCEPT !.run = 0, !.todo = @ \ {rows[r].task}] ELSE catchup
    /\ UNCHANGED <<now, settings, up, registry, lastSpecSig, due, aborted, boot, reconciled, saves>>

(* POST cancel: killRun, for a registered task.                             *)
Kill(t) ==
    /\ t \in Registered
    /\ activeControllers[t] # 0
    /\ aborted' = aborted \cup {activeControllers[t]}
    /\ UNCHANGED <<now, settings, rows, up, registry, lastSpecSig, due, live,
                   activeControllers, boot, catchup, reconciled, saves>>

-----------------------------------------------------------------------------
(* reconcileFromSettings *)

Wanted(snap, t) == snap.enabled /\ snap.task[t].enabled

(* A fault: a task that is registered is left as it is.                     *)
MustRegisterNew(snap, t) ==
    Wanted(snap, t) /\ snap.task[t].known /\ registry[t] = Absent

MustRegister(snap, t) ==
    /\ Wanted(snap, t)
    /\ snap.task[t].known
    /\ registry[t] = Absent \/ lastSpecSig[t] # Sig(snap.task[t])

(* A fault: the cron expression is not validated.                           *)
NeverThrows(snap, t) == FALSE

(* register throws on a cron expression node-cron refuses; by then a task   *)
(* that is updated is unregistered, and the tasks after it are not reached. *)
Throws(snap, t) == MustRegister(snap, t) /\ snap.task[t].cron = "bad"

Reached(snap, t) == \A u \in Tasks : Throws(snap, u) => Place(t) < Place(u)

FirstThrown(snap, t) ==
    Throws(snap, t) /\ \A u \in Tasks : Throws(snap, u) => Place(t) <= Place(u)

Replaced(snap, t) == MustRegister(snap, t) /\ Reached(snap, t)

Reconcile(snap) ==
    /\ registry' = [t \in Tasks |->
         IF ~Wanted(snap, t) \/ FirstThrown(snap, t) THEN Absent
         ELSE IF Replaced(snap, t) THEN snap.task[t]
         ELSE registry[t]]
    /\ lastSpecSig' = [t \in Tasks |->
         IF Replaced(snap, t) THEN Sig(snap.task[t])
         ELSE IF ~Wanted(snap, t) /\ registry[t] # Absent THEN NoSig
         ELSE lastSpecSig[t]]
    /\ due' = {t \in due : registry'[t] = registry[t]}
    /\ reconciled' = \A t \in Tasks : ~Throws(snap, t)

(* POST settings.                                                           *)
SaveSettings(snap) ==
    /\ up
    /\ saves < MaxSaves
    /\ saves' = saves + 1
    /\ settings' = snap
    /\ Reconcile(snap)
    /\ UNCHANGED <<now, rows, up, live, activeControllers, aborted, boot, catchup>>

-----------------------------------------------------------------------------
(* Start, catch-up, crash *)

(* A fault: the cut-off is on the wrong side.                               *)
IsYoung(r) == now - rows[r].started <= MaxAge

IsStale(r) == now - rows[r].started > MaxAge

(* sweepStaleStartedRows: nothing is live yet.                              *)
Swept == [r \in DOMAIN rows |->
            IF rows[r].status = "started" /\ IsStale(r)
            THEN [rows[r] EXCEPT !.status = "error"] ELSE rows[r]]

(* For the property CaughtUp: t succeeded once, and not since its last fire. *)
FireWasMissed(t) ==
    LET good == {r \in RowsOf(t) : rows[r].status = "success"}
    IN good # {} /\ \A r \in good : rows[r].started < now

(* initSchedulerCore up to its first await.  A reconcile that throws leaves *)
(* no catch-up; a disabled scheduler sweeps nothing.                        *)
Boot ==
    /\ ~up
    /\ up' = TRUE
    /\ IF settings.enabled
       THEN /\ rows' = Swept
            /\ Reconcile(settings)
            /\ LET tasks == {t \in Tasks : registry'[t] # Absent}
                   busy  == reconciled' /\ tasks # {}
               IN /\ catchup' = IF busy
                                  THEN [st |-> "busy", run |-> 0, todo |-> tasks] ELSE NoCatchup
                  /\ boot' = [time |-> now, rows |-> Len(rows), swept |-> TRUE,
                              missed |-> {t \in tasks : FireWasMissed(t)}]
       ELSE /\ boot' = [time |-> now, rows |-> Len(rows), swept |-> FALSE, missed |-> {}]
            /\ UNCHANGED <<rows, registry, lastSpecSig, due, catchup, reconciled>>
    /\ UNCHANGED <<now, settings, live, activeControllers, aborted, saves>>

(* catchupTask for the next task: the fire before the start was at the      *)
(* beginning of its period.                                                 *)
Missed(t) == EverSucceeded(t) /\ ~SuccessSince(t, boot.time)

CatchupFires(t) ==
    \/ /\ t \notin Registered          \* runNow throws, the loop ends
       /\ catchup' = [catchup EXCEPT !.st = "failed", !.todo = {}]
       /\ UNCHANGED <<rows, activeControllers, live>>
    \/ /\ t \in Registered
       /\ RecordRun(t)
       /\ catchup' = IF Skips(t) THEN [catchup EXCEPT !.todo = @ \ {t}]
                     ELSE [catchup EXCEPT !.run = Len(rows) + 1]

CatchupStep ==
    /\ catchup.st = "busy"
    /\ catchup.run = 0
    /\ \/ /\ catchup.todo = {}
          /\ catchup' = [catchup EXCEPT !.st = "done"]
          /\ UNCHANGED <<rows, activeControllers, live>>
       \/ \E t \in catchup.todo :
             /\ \A u \in catchup.todo : Place(t) <= Place(u)
             /\ \/ Missed(t) /\ CatchupFires(t)
                \/ /\ ~Missed(t)
                   /\ catchup' = [catchup EXCEPT !.todo = @ \ {t}]
                   /\ UNCHANGED <<rows, activeControllers, live>>
    /\ UNCHANGED <<now, settings, up, registry, lastSpecSig, due, aborted, boot, reconciled, saves>>

Crash ==
    /\ up
    /\ up' = FALSE
    /\ registry' = [t \in Tasks |-> Absent]
    /\ lastSpecSig' = [t \in Tasks |-> NoSig]
    /\ due' = {}
    /\ live' = {}
    /\ activeControllers' = [t \in Tasks |-> 0]
    /\ aborted' = {}
    /\ boot' = NoBoot
    /\ catchup' = NoCatchup
    /\ reconciled' = TRUE
    /\ UNCHANGED <<now, settings, rows, saves>>

(* The next period begins; cron callbacks come in time.                     *)
Tick ==
    /\ now < MaxTime
    /\ due = {}
    /\ now' = now + 1
    /\ due' = Registered
    /\ UNCHANGED <<settings, rows, up, registry, lastSpecSig, live, activeControllers,
                   aborted, boot, catchup, reconciled, saves>>

Next ==
    \/ \E t \in Tasks : Fire(t) \/ RunNow(t) \/ Kill(t)
    \/ \E r \in DOMAIN rows : FinishRun(r)
    \/ \E snap \in Snapshots : SaveSettings(snap)
    \/ Boot \/ CatchupStep \/ Crash \/ Tick

Spec == Init /\ [][Next]_vars

-----------------------------------------------------------------------------
(* Properties *)

(* The settings never allow the runs of this task to overlap.               *)
NeverOverlaps(t) == \A snap \in Snapshots : snap.task[t].noOverlap

(* Whatever starts a run (cron, run-now, catch-up), however long runs take  *)
(* and whatever is cancelled or re-registered meanwhile: the runs of such a *)
(* task never overlap.                                                      *)
RunsDoNotOverlap ==
    \A t \in Tasks : NeverOverlaps(t) => Cardinality(live \cap RowsOf(t)) <= 1

(* A row stays open only for a run at work or for one that was lost before  *)
(* this start; a run at work has an open row, so that history and overlap   *)
(* check see it.                                                            *)
OpenRowsAreExplained ==
    /\ \A r \in live : rows[r].status = "started"
    /\ up => \A r \in DOMAIN rows :
               rows[r].status = "started" => r \in live \/ r <= boot.rows

(* What the sweep can and cannot do: a row nobody works on blocks a task    *)
(* after a start only if its run began within MaxAge before that start.     *)
SweepBoundsTheJam ==
    up /\ boot.swept =>
        \A r \in DOMAIN rows :
           rows[r].status = "started" /\ r \notin live => boot.time - rows[r].started <= MaxAge

(* When the catch-up has gone through all tasks, each task that had missed  *)
(* its fire has run since the start, or a row left open by a crash keeps it *)
(* from running.                                                            *)
CaughtUp ==
    up /\ catchup.st = "done" =>
        \A t \in boot.missed : \E r \in RowsOf(t) : r > boot.rows \/ rows[r].status = "started"

(* After a reconcile that did not throw, exactly the enabled tasks are      *)
(* registered, with their present schedule and overlap rule; a task whose   *)
(* type is unknown stays as it was.                                         *)
RegistryFollowsSettings ==
    up /\ reconciled =>
        \A t \in Tasks :
           /\ Wanted(settings, t) /\ settings.task[t].known
                 => registry[t] # Absent /\ Sig(registry[t]) = Sig(settings.task[t])
           /\ ~Wanted(settings, t) => registry[t] = Absent

(* The newest run of a task can be cancelled as long as it is at work, also *)
(* when older runs of the task overlap it and end first.                    *)
NewestIsCancellable ==
    \A r \in live : (\A q \in RowsOf(rows[r].task) : q <= r) => activeControllers[rows[r].task] = r

(* A run the user cancelled is never recorded as a success, whether or not  *)
(* its handler heeds the signal.                                            *)
CancelledIsNoSuccess == \A r \in aborted : rows[r].status # "success"

=============================================================================
