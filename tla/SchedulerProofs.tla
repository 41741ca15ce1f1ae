-------------------------- MODULE SchedulerProofs --------------------------
(***************************************************************************)
(* Proofs about SchedulerRuns.  The invariant has three parts: the rows    *)
(* with the runs and controllers in memory, the registry with what the     *)
(* settings allow, and the run that the catch-up waits for.                *)
(***************************************************************************)
EXTENDS SchedulerRuns, FiniteSetTheorems, TLAPS

Row == [task : Tasks, started : 0..MaxTime, status : {"started", "success", "error"}]

(* What RunsDoNotOverlap says, without counting.                            *)
NoTwo ==
    \A t \in Tasks : NeverOverlaps(t) => \A q, r \in live \cap RowsOf(t) : q = r

(* A controller belongs to a run at work of its task.                       *)
ControllersAreLive ==
    \A t \in Tasks : activeControllers[t] # 0 =>
        activeControllers[t] \in live /\ rows[activeControllers[t]].task = t

RunInv ==
    /\ now \in 0..MaxTime
    /\ up \in BOOLEAN
    /\ rows \in Seq(Row)
    /\ Len(rows) <= MaxRows
    /\ live \subseteq DOMAIN rows
    /\ aborted \subseteq DOMAIN rows
    /\ activeControllers \in [Tasks -> {0} \cup DOMAIN rows]
    /\ OpenRowsAreExplained
    /\ ControllersAreLive
    /\ NewestIsCancellable
    /\ CancelledIsNoSuccess
    /\ NoTwo

(* A registered task has the overlap rule of some settings.                 *)
RegistryInv ==
    /\ settings \in Snapshots
    /\ saves \in 0..MaxSaves
    /\ reconciled \in BOOLEAN
    /\ registry \in [Tasks -> Spec0]
    /\ \A t \in Registered : registry[t].cron # "bad" /\ lastSpecSig[t] = Sig(registry[t])
    /\ \A t \in Registered : \E snap \in Snapshots : registry[t] = snap.task[t]
    /\ due \subseteq Registered

CatchupInv ==
    /\ catchup = [st |-> catchup.st, todo |-> catchup.todo, run |-> catchup.run]
    /\ catchup.run \in {0} \cup live

DownInv == ~up => Registered = {} /\ live = {} /\ catchup = NoCatchup

IInv == RunInv /\ RegistryInv /\ CatchupInv /\ DownInv

-----------------------------------------------------------------------------

LEMMA BoundsAreNat == MaxTime \in Nat /\ MaxRows \in Nat /\ MaxSaves \in Nat
<1>1. {MaxAge, MaxTime, MaxRows, MaxSaves} \subseteq Nat
  BY SchedulerAssumption
<1>2. QED
  BY <1>1

LEMMA InitInv == Init => IInv
<1> SUFFICES ASSUME Init PROVE IInv
  OBVIOUS
<1>1. Registered = {}
  BY DEF Init, Registered
<1>2. RunInv
  <2>1. rows = <<>> /\ rows \in Seq(Row) /\ Len(rows) = 0 /\ live = {} /\ aborted = {} /\ ~up
    BY DEF Init
  <2>2. now \in 0..MaxTime /\ 0 <= MaxRows
    BY BoundsAreNat DEF Init
  <2>6. up \in BOOLEAN
    BY Zenon DEF Init
  <2>3. activeControllers \in [Tasks -> {0} \cup DOMAIN rows] /\ ControllersAreLive
    BY DEF Init, ControllersAreLive
  <2>4. OpenRowsAreExplained /\ NewestIsCancellable /\ CancelledIsNoSuccess /\ NoTwo
    BY <2>1 DEF OpenRowsAreExplained, NewestIsCancellable, CancelledIsNoSuccess, NoTwo
  <2>5. QED
    BY <2>1, <2>2, <2>3, <2>4, <2>6 DEF RunInv
<1>3. RegistryInv
  BY <1>1, BoundsAreNat DEF Init, RegistryInv, Spec0, Absent
<1>4. CatchupInv /\ DownInv
  BY <1>1 DEF Init, CatchupInv, DownInv, NoCatchup
<1>5. QED
  BY <1>2, <1>3, <1>4 DEF IInv

(* A registered task that never overlaps has the rule in its registration.  *)
LEMMA RuleIsRegistered ==
    ASSUME RegistryInv, NEW t \in Registered, NeverOverlaps(t)
    PROVE  registry[t].noOverlap
BY DEF RegistryInv, NeverOverlaps

(* The insertion of a row, by whatever means a run is started.              *)
LEMMA StartKeeps ==
    ASSUME RunInv, RegistryInv, up, NEW t \in Tasks, t \in Registered, ~Skips(t), StartRun(t),
           UNCHANGED <<now, up, aborted, boot>>
    PROVE  RunInv'
<1> DEFINE n == Len(rows) + 1
<1>1. /\ n <= MaxRows
      /\ rows' = Append(rows, [task |-> t, started |-> now, status |-> "started"])
      /\ activeControllers' = [activeControllers EXCEPT ![t] = n]
      /\ live' = live \cup {n}
  BY DEF StartRun
<1>2. /\ rows' \in Seq(Row) /\ Len(rows') = n /\ DOMAIN rows' = 1..n /\ DOMAIN rows = 1..(n - 1)
      /\ n \in DOMAIN rows' /\ n \notin DOMAIN rows /\ n # 0
      /\ \A r \in DOMAIN rows : rows'[r] = rows[r]
      /\ rows'[n] = [task |-> t, started |-> now, status |-> "started"]
  BY <1>1 DEF RunInv, Row
<1>3. /\ live' \subseteq DOMAIN rows' /\ aborted' \subseteq DOMAIN rows'
      /\ activeControllers' \in [Tasks -> {0} \cup DOMAIN rows']
      /\ Len(rows') <= MaxRows /\ now' \in 0..MaxTime /\ up' \in BOOLEAN
  BY <1>1, <1>2 DEF RunInv
<1>4. OpenRowsAreExplained'
  BY <1>1, <1>2 DEF RunInv, OpenRowsAreExplained
<1>5. ControllersAreLive'
  BY <1>1, <1>2 DEF RunInv, ControllersAreLive
<1>6. NewestIsCancellable'
  <2> SUFFICES ASSUME NEW r \in live', \A q \in RowsOf(rows[r].task)' : q <= r
               PROVE  activeControllers'[rows'[r].task] = r
    BY DEF NewestIsCancellable
  <2>1. CASE r = n
    BY <2>1, <1>1, <1>2 DEF RunInv
  <2>2. CASE r # n
    <3>0. r \in live /\ r \in DOMAIN rows /\ rows'[r] = rows[r] /\ rows[r] \in Row
      BY <2>2, <1>1, <1>2 DEF RunInv
    <3>1. r \in live /\ rows'[r].task = rows[r].task /\ rows[r].task \in Tasks
      BY <3>0 DEF Row
    <3>2. rows[r].task # t
      BY <2>2, <3>1, <1>2, <1>1 DEF RowsOf, RunInv
    <3>3. \A q \in RowsOf(rows[r].task) : q <= r
      BY <3>1, <1>2 DEF RowsOf
    <3>4. activeControllers[rows[r].task] = r
      BY <3>1, <3>3 DEF RunInv, NewestIsCancellable
    <3>5. QED
      BY <3>1, <3>2, <3>4, <1>1 DEF RunInv
  <2>3. QED
    BY <2>1, <2>2
<1>7. CancelledIsNoSuccess'
  BY <1>1, <1>2 DEF RunInv, CancelledIsNoSuccess
<1>8. NoTwo'
  <2> SUFFICES ASSUME NEW u \in Tasks, NeverOverlaps(u),
                      NEW q \in live' \cap RowsOf(u)', NEW r \in live' \cap RowsOf(u)'
               PROVE  q = r
    BY DEF NoTwo, NeverOverlaps
  <2>1. CASE u = t
    <3>1. OpenRows(t) = {}
      BY <2>1, RuleIsRegistered DEF Skips, HasActiveRun
    <3>2. \A p \in live : p \notin RowsOf(t)
      BY <3>1 DEF OpenRows, RunInv, OpenRowsAreExplained
    <3>3. \A p \in live' \cap RowsOf(t)' : p = n
      BY <3>2, <1>1, <1>2 DEF RowsOf, RunInv
    <3>4. QED
      BY <2>1, <3>3
  <2>2. CASE u # t
    <3>1. q \in live \cap RowsOf(u) /\ r \in live \cap RowsOf(u)
      BY <2>2, <1>1, <1>2 DEF RowsOf, RunInv
    <3>2. QED
      BY <3>1 DEF RunInv, NoTwo
  <2>3. QED
    BY <2>1, <2>2
<1>9. QED
  BY <1>2, <1>3, <1>4, <1>5, <1>6, <1>7, <1>8 DEF RunInv

-----------------------------------------------------------------------------
(* The variables outside RunInv do not matter to it.                        *)

LEMMA RunFrame ==
    ASSUME RunInv, UNCHANGED <<now, up, rows, live, aborted, activeControllers, boot>>
    PROVE  RunInv'
BY DEF RunInv, OpenRowsAreExplained, ControllersAreLive, NewestIsCancellable,
       CancelledIsNoSuccess, NoTwo, RowsOf, NeverOverlaps

LEMMA RegistryFrame ==
    ASSUME RegistryInv, UNCHANGED <<settings, saves, reconciled, registry, lastSpecSig>>,
           due' \subseteq due
    PROVE  RegistryInv'
BY DEF RegistryInv, Registered

(* A run ends: its row is closed, only its own controller goes.             *)
LEMMA FinishKeeps ==
    ASSUME IInv, NEW r \in DOMAIN rows, FinishRun(r)
    PROVE  RunInv'
<1>1. PICK threw \in BOOLEAN : rows' = [rows EXCEPT ![r].status = FinalStatus(r, threw)]
  BY DEF FinishRun
<1>2. /\ r \in live
      /\ live' = live \ {r}
      /\ activeControllers' = Cleared(r)
      /\ UNCHANGED <<now, up, aborted, boot>>
  BY DEF FinishRun
<1>3. FinalStatus(r, threw) \in {"success", "error"} /\ (r \in aborted => FinalStatus(r, threw) = "error")
  BY DEF FinalStatus
<1>4. rows \in Seq(Row) /\ rows[r] \in Row
  BY DEF IInv, RunInv
<1>5. [rows[r] EXCEPT !.status = FinalStatus(r, threw)] \in Row
  BY <1>3, <1>4 DEF Row
<1>6. rows' = [rows EXCEPT ![r] = [rows[r] EXCEPT !.status = FinalStatus(r, threw)]]
  BY <1>1
<1>7. /\ rows' \in Seq(Row) /\ Len(rows') = Len(rows) /\ DOMAIN rows' = DOMAIN rows
      /\ \A q \in DOMAIN rows : q # r => rows'[q] = rows[q]
      /\ rows'[r].task = rows[r].task /\ rows'[r].status = FinalStatus(r, threw)
  BY <1>4, <1>5, <1>6 DEF Row
<1>8. \A q \in DOMAIN rows : rows'[q].task = rows[q].task
  BY <1>7
<1>9. /\ activeControllers' \in [Tasks -> {0} \cup DOMAIN rows]
      /\ \A t \in Tasks : activeControllers'[t] =
             IF t = rows[r].task /\ activeControllers[t] = r THEN 0 ELSE activeControllers[t]
  <2>1. rows[r].task \in Tasks
    BY <1>4 DEF Row
  <2>2. QED
    BY <1>2, <2>1 DEF Cleared, IInv, RunInv
<1>10. /\ live' \subseteq DOMAIN rows' /\ aborted' \subseteq DOMAIN rows'
       /\ Len(rows') <= MaxRows /\ now' \in 0..MaxTime /\ up' \in BOOLEAN
  BY <1>2, <1>7 DEF IInv, RunInv
<1>11. OpenRowsAreExplained'
  BY <1>2, <1>3, <1>7 DEF IInv, RunInv, OpenRowsAreExplained
<1>12. ControllersAreLive'
  <2> SUFFICES ASSUME NEW t \in Tasks, activeControllers'[t] # 0
               PROVE  activeControllers'[t] \in live' /\ rows'[activeControllers'[t]].task = t
    BY DEF ControllersAreLive
  <2>1. activeControllers'[t] = activeControllers[t] /\ ~(t = rows[r].task /\ activeControllers[t] = r)
    BY <1>9
  <2>2. activeControllers[t] \in live /\ rows[activeControllers[t]].task = t
    BY <2>1 DEF IInv, RunInv, ControllersAreLive
  <2>3. activeControllers[t] # r
    BY <2>1, <2>2
  <2>4. QED
    BY <2>1, <2>2, <2>3, <1>2, <1>8 DEF IInv, RunInv
<1>13. NewestIsCancellable'
  <2> SUFFICES ASSUME NEW q \in live', \A p \in RowsOf(rows[q].task)' : p <= q
               PROVE  activeControllers'[rows'[q].task] = q
    BY DEF NewestIsCancellable
  <2>1. q \in live /\ q # r /\ q \in DOMAIN rows /\ rows'[q].task = rows[q].task
    BY <1>2, <1>8 DEF IInv, RunInv
  <2>2. \A p \in RowsOf(rows[q].task) : p <= q
    BY <2>1, <1>7, <1>8 DEF RowsOf
  <2>3. activeControllers[rows[q].task] = q
    BY <2>1, <2>2 DEF IInv, RunInv, NewestIsCancellable
  <2>4. rows[q] \in Row
    BY <2>1, <1>4
  <2>5. QED
    BY <2>1, <2>3, <2>4, <1>9 DEF Row
<1>14. CancelledIsNoSuccess'
  BY <1>2, <1>3, <1>7 DEF IInv, RunInv, CancelledIsNoSuccess
<1>15. NoTwo'
  BY <1>2, <1>7, <1>8 DEF IInv, RunInv, NoTwo, RowsOf, NeverOverlaps
<1>16. QED
  BY <1>7, <1>9, <1>10, <1>11, <1>12, <1>13, <1>14, <1>15 DEF RunInv

(* A cancelled run is at work, so that its row is not closed yet.           *)
LEMMA KillKeeps ==
    ASSUME IInv, NEW t \in Tasks, Kill(t)
    PROVE  RunInv'
<1>1. /\ aborted' = aborted \cup {activeControllers[t]}
      /\ UNCHANGED <<now, rows, up, live, activeControllers, boot>>
  BY DEF Kill
<1>2. activeControllers[t] \in live /\ rows[activeControllers[t]].status = "started"
  BY DEF Kill, IInv, RunInv, ControllersAreLive, OpenRowsAreExplained
<1>3. CancelledIsNoSuccess' /\ aborted' \subseteq DOMAIN rows'
  BY <1>1, <1>2 DEF IInv, RunInv, CancelledIsNoSuccess
<1>4. OpenRowsAreExplained' /\ ControllersAreLive' /\ NewestIsCancellable' /\ NoTwo'
  BY <1>1 DEF IInv, RunInv, OpenRowsAreExplained, ControllersAreLive, NewestIsCancellable,
              NoTwo, RowsOf, NeverOverlaps
<1>5. QED
  BY <1>1, <1>3, <1>4 DEF IInv, RunInv

-----------------------------------------------------------------------------
(* The registry *)

LEMMA PlaceIsNat == \A t \in Tasks : Place(t) \in Nat
<1> SUFFICES ASSUME NEW t \in Tasks PROVE Place(t) \in Nat
  OBVIOUS
<1>1. Order \in Seq(Tasks) /\ \E i \in DOMAIN Order : Order[i] = t
  BY SchedulerAssumption
<1>2. Place(t) \in DOMAIN Order
  BY <1>1 DEF Place
<1>3. QED
  BY <1>1, <1>2

(* What is registered anew has a schedule that node-cron accepts.           *)
LEMMA ReplacedIsValid ==
    ASSUME NEW snap, NEW t \in Tasks, Replaced(snap, t)
    PROVE  snap.task[t].cron # "bad"
<1>1. ~Throws(snap, t)
  BY PlaceIsNat DEF Replaced, Reached
<1>2. QED
  BY <1>1 DEF Throws, Replaced

LEMMA ReconcileKeeps ==
    ASSUME RegistryInv, NEW snap \in Snapshots, Reconcile(snap),
           settings' \in Snapshots, saves' \in 0..MaxSaves
    PROVE  RegistryInv'
<1>1. snap.task \in [Tasks -> Spec0]
  BY SchedulerAssumption
<1>2. Absent \in Spec0
  BY DEF Absent, Spec0
<1>3. registry' \in [Tasks -> Spec0]
  BY <1>1, <1>2 DEF Reconcile, RegistryInv
<1>4. ASSUME NEW t \in Registered'
      PROVE  /\ t \in Tasks
             /\ \/ Replaced(snap, t) /\ registry'[t] = snap.task[t] /\ lastSpecSig'[t] = Sig(snap.task[t])
                \/ t \in Registered /\ registry'[t] = registry[t] /\ lastSpecSig'[t] = lastSpecSig[t]
  BY DEF Reconcile, Registered
<1>5. \A t \in Registered' : registry'[t].cron # "bad" /\ lastSpecSig'[t] = Sig(registry[t])'
  BY <1>4, ReplacedIsValid DEF RegistryInv, Sig
<1>6. \A t \in Registered' : \E s \in Snapshots : registry'[t] = s.task[t]
  BY <1>4 DEF RegistryInv
<1>7. due' \subseteq Registered'
  BY DEF Reconcile, RegistryInv, Registered
<1>8. reconciled' \in BOOLEAN
  BY Zenon DEF Reconcile
<1>9. QED
  BY <1>3, <1>5, <1>6, <1>7, <1>8 DEF RegistryInv

-----------------------------------------------------------------------------
(* The steps *)

LEMMA FireStep ==
    ASSUME IInv, NEW t \in Tasks, Fire(t)
    PROVE  IInv'
<1>1. t \in Registered /\ up
  BY DEF Fire, IInv, RegistryInv, DownInv
<1>2. RunInv'
  <2>1. CASE Skips(t)
    BY <2>1, RunFrame DEF Fire, RecordRun, IInv
  <2>2. CASE ~Skips(t)
    BY <1>1, <2>2, StartKeeps DEF Fire, RecordRun, IInv
  <2>3. QED
    BY <2>1, <2>2
<1>3. RegistryInv'
  BY RegistryFrame DEF Fire, IInv
<1>4. CatchupInv'
  BY DEF Fire, RecordRun, StartRun, IInv, CatchupInv
<1>5. DownInv'
  BY <1>1 DEF Fire, DownInv
<1>6. QED
  BY <1>2, <1>3, <1>4, <1>5 DEF IInv

LEMMA RunNowStep ==
    ASSUME IInv, NEW t \in Tasks, RunNow(t)
    PROVE  IInv'
<1>1. t \in Registered /\ up
  BY DEF RunNow, IInv, DownInv
<1>2. RunInv'
  BY <1>1, StartKeeps DEF RunNow, IInv
<1>3. RegistryInv'
  BY RegistryFrame DEF RunNow, IInv
<1>4. CatchupInv'
  BY DEF RunNow, StartRun, IInv, CatchupInv
<1>5. DownInv'
  BY <1>1 DEF RunNow, DownInv
<1>6. QED
  BY <1>2, <1>3, <1>4, <1>5 DEF IInv

LEMMA KillStep ==
    ASSUME IInv, NEW t \in Tasks, Kill(t)
    PROVE  IInv'
<1>1. RegistryInv'
  BY RegistryFrame DEF Kill, IInv
<1>2. CatchupInv' /\ DownInv'
  BY DEF Kill, IInv, CatchupInv, DownInv, Registered
<1>3. QED
  BY <1>1, <1>2, KillKeeps DEF IInv

(* The catch-up stops waiting for the run that ends.                        *)
LEMMA FinishStep ==
    ASSUME IInv, NEW r \in DOMAIN rows, FinishRun(r)
    PROVE  IInv'
<1>1. RegistryInv'
  BY RegistryFrame DEF FinishRun, IInv
<1>2. CatchupInv'
  BY DEF FinishRun, IInv, CatchupInv
<1>3. DownInv'
  BY DEF FinishRun, IInv, DownInv, Registered
<1>4. QED
  BY <1>1, <1>2, <1>3, FinishKeeps DEF IInv

LEMMA SaveStep ==
    ASSUME IInv, NEW snap \in Snapshots, SaveSettings(snap)
    PROVE  IInv'
<1>1. saves' \in 0..MaxSaves
  BY BoundsAreNat DEF SaveSettings, IInv, RegistryInv
<1>2. RegistryInv'
  BY <1>1, ReconcileKeeps DEF SaveSettings, IInv
<1>3. RunInv'
  BY RunFrame DEF SaveSettings, IInv
<1>4. CatchupInv' /\ DownInv'
  BY DEF SaveSettings, IInv, CatchupInv, DownInv
<1>5. QED
  BY <1>2, <1>3, <1>4 DEF IInv

(* At the start nothing is live; what is open counts as left from before.   *)
LEMMA BootStep ==
    ASSUME IInv, Boot
    PROVE  IInv'
<1>1. /\ live = {} /\ live' = {} /\ up'
      /\ UNCHANGED <<now, settings, activeControllers, aborted, saves>>
  BY DEF Boot, IInv, DownInv
<1>2. rows \in Seq(Row) /\ \A t \in Tasks : activeControllers[t] = 0
  BY <1>1 DEF IInv, RunInv, ControllersAreLive
<1>3. /\ rows' \in Seq(Row) /\ Len(rows') = Len(rows)
      /\ \A r \in DOMAIN rows : rows'[r] = rows[r] \/ rows'[r].status = "error"
  <2>1. CASE settings.enabled
    <3>1. rows' = Swept
      BY <2>1 DEF Boot
    <3>2. ASSUME NEW r \in DOMAIN rows
          PROVE  Swept[r] \in Row /\ (Swept[r] = rows[r] \/ Swept[r].status = "error")
      <4>1. rows[r] \in Row
        BY <1>2
      <4>2. /\ [rows[r] EXCEPT !.status = "error"] \in Row
            /\ [rows[r] EXCEPT !.status = "error"].status = "error"
        BY <4>1 DEF Row
      <4>3. Swept[r] = rows[r] \/ Swept[r] = [rows[r] EXCEPT !.status = "error"]
        BY DEF Swept
      <4>4. QED
        BY <4>1, <4>2, <4>3
    <3>3. DOMAIN Swept = 1..Len(rows) /\ Len(rows) \in Nat
      BY <1>2 DEF Swept
    <3>4. Swept \in [1..Len(rows) -> Row]
      BY <3>2, <3>3 DEF Swept
    <3>5. Swept \in Seq(Row) /\ Len(Swept) = Len(rows)
      BY <3>3, <3>4
    <3>6. QED
      BY <3>1, <3>2, <3>5
  <2>2. CASE ~settings.enabled
    BY <1>2, <2>2 DEF Boot
  <2>3. QED
    BY <2>1, <2>2
<1>4. DOMAIN rows' = DOMAIN rows /\ boot'.rows = Len(rows)
  BY <1>2, <1>3 DEF Boot
<1>5. RunInv'
  <2>1. OpenRowsAreExplained'
    BY <1>1, <1>2, <1>4 DEF OpenRowsAreExplained
  <2>2. ControllersAreLive' /\ NewestIsCancellable' /\ NoTwo'
    BY <1>1, <1>2 DEF ControllersAreLive, NewestIsCancellable, NoTwo
  <2>3. CancelledIsNoSuccess'
    BY <1>1, <1>3 DEF IInv, RunInv, CancelledIsNoSuccess
  <2>4. up' \in BOOLEAN
    BY Zenon DEF Boot
  <2>5. QED
    BY <1>1, <1>3, <1>4, <2>1, <2>2, <2>3, <2>4 DEF IInv, RunInv
<1>6. RegistryInv'
  <2>1. CASE settings.enabled
    BY <1>1, <2>1, ReconcileKeeps DEF Boot, IInv, RegistryInv
  <2>2. CASE ~settings.enabled
    BY <1>1, <2>2, RegistryFrame DEF Boot, IInv
  <2>3. QED
    BY <2>1, <2>2
<1>7. CatchupInv'
  BY <1>1 DEF Boot, IInv, CatchupInv, NoCatchup
<1>8. DownInv'
  BY <1>1 DEF DownInv
<1>9. QED
  BY <1>5, <1>6, <1>7, <1>8 DEF IInv

LEMMA CatchupFiresKeeps ==
    ASSUME IInv, NEW t, CatchupFires(t), catchup.st = "busy",
           UNCHANGED <<now, settings, up, registry, lastSpecSig, due, aborted, boot, reconciled, saves>>
    PROVE  IInv'
<1>1. RegistryInv' /\ up
  BY RegistryFrame DEF IInv, DownInv, NoCatchup
<1>2. CASE UNCHANGED <<rows, activeControllers, live>>
  <2>1. RunInv'
    BY <1>2, RunFrame DEF IInv
  <2>2. CatchupInv' /\ DownInv'
    BY <1>1, <1>2 DEF CatchupFires, RecordRun, StartRun, IInv, CatchupInv, DownInv, Registered
  <2>3. QED
    BY <1>1, <2>1, <2>2 DEF IInv
<1>3. CASE t \in Registered /\ ~Skips(t)
  <2>1. t \in Tasks /\ up /\ StartRun(t)
    BY <1>3 DEF CatchupFires, RecordRun, IInv, DownInv, Registered
  <2>2. RunInv'
    BY <1>3, <2>1, StartKeeps DEF IInv
  <2>3. CatchupInv' /\ DownInv'
    BY <1>3, <2>1 DEF CatchupFires, StartRun, IInv, CatchupInv, DownInv
  <2>4. QED
    BY <1>1, <2>2, <2>3 DEF IInv
<1>4. QED
  BY <1>2, <1>3 DEF CatchupFires, RecordRun

LEMMA CatchupStepKeeps ==
    ASSUME IInv, CatchupStep
    PROVE  IInv'
<1>1. /\ UNCHANGED <<now, settings, up, registry, lastSpecSig, due, aborted, boot, reconciled, saves>>
      /\ catchup.st = "busy" /\ up
  BY DEF CatchupStep, IInv, DownInv, NoCatchup
<1>2. CASE \E t : CatchupFires(t)
  BY <1>1, <1>2, CatchupFiresKeeps
<1>3. CASE UNCHANGED <<rows, activeControllers, live>> /\ catchup'.run = catchup.run
           /\ catchup' = [st |-> catchup'.st, todo |-> catchup'.todo, run |-> catchup'.run]
  <2>1. RunInv' /\ RegistryInv'
    BY <1>1, <1>3, RunFrame, RegistryFrame DEF IInv
  <2>2. CatchupInv' /\ DownInv'
    BY <1>1, <1>3 DEF IInv, CatchupInv, DownInv, Registered
  <2>3. QED
    BY <2>1, <2>2 DEF IInv
<1>4. CASE ~\E t : CatchupFires(t)
  BY <1>3, <1>4 DEF CatchupStep, IInv, CatchupInv
<1>5. QED
  BY <1>2, <1>4

LEMMA CrashStep ==
    ASSUME IInv, Crash
    PROVE  IInv'
<1>1. /\ Registered' = {} /\ live' = {} /\ aborted' = {} /\ due' = {} /\ ~up'
      /\ activeControllers' = [t \in Tasks |-> 0]
      /\ UNCHANGED <<now, settings, rows, saves>>
  BY DEF Crash, Registered
<1>2. RunInv'
  <2>1. up' \in BOOLEAN
    BY Zenon DEF Crash
  <2>2. QED
    BY <1>1, <2>1 DEF IInv, RunInv, OpenRowsAreExplained, ControllersAreLive, NewestIsCancellable,
                      CancelledIsNoSuccess, NoTwo
<1>3. RegistryInv'
  BY <1>1 DEF Crash, IInv, RegistryInv, Absent, Spec0
<1>4. CatchupInv' /\ DownInv'
  BY <1>1 DEF Crash, CatchupInv, DownInv, NoCatchup
<1>5. QED
  BY <1>2, <1>3, <1>4 DEF IInv

LEMMA TickStep ==
    ASSUME IInv, Tick
    PROVE  IInv'
<1>1. now' \in 0..MaxTime
  BY BoundsAreNat DEF Tick, IInv, RunInv
<1>2. RunInv'
  BY <1>1 DEF Tick, IInv, RunInv, OpenRowsAreExplained, ControllersAreLive, NewestIsCancellable,
              CancelledIsNoSuccess, NoTwo, RowsOf, NeverOverlaps
<1>3. RegistryInv'
  BY DEF Tick, IInv, RegistryInv, Registered
<1>4. CatchupInv' /\ DownInv'
  BY DEF Tick, IInv, CatchupInv, DownInv, Registered
<1>5. QED
  BY <1>2, <1>3, <1>4 DEF IInv

LEMMA StutterKeeps ==
    ASSUME IInv, UNCHANGED vars
    PROVE  IInv'
<1>1. RunInv' /\ RegistryInv'
  BY RunFrame, RegistryFrame DEF IInv, vars, memory
<1>2. CatchupInv' /\ DownInv'
  BY DEF IInv, CatchupInv, DownInv, Registered, vars, memory
<1>3. QED
  BY <1>1, <1>2 DEF IInv

-----------------------------------------------------------------------------
(* The invariant of the scheduler, for every set of tasks, every set of     *)
(* settings that may be saved and every interleaving of cron callbacks,     *)
(* run-now, cancellations, saves, crashes and starts.                       *)
THEOREM Invariance == Spec => []IInv
<1>1. Init => IInv
  BY InitInv
<1>2. IInv /\ [Next]_vars => IInv'
  <2> SUFFICES ASSUME IInv, [Next]_vars PROVE IInv'
    OBVIOUS
  <2>1. CASE \E t \in Tasks : Fire(t) \/ RunNow(t) \/ Kill(t)
    BY <2>1, FireStep, RunNowStep, KillStep
  <2>2. CASE \E r \in DOMAIN rows : FinishRun(r)
    BY <2>2, FinishStep
  <2>3. CASE \E snap \in Snapshots : SaveSettings(snap)
    BY <2>3, SaveStep
  <2>4. CASE Boot \/ CatchupStep \/ Crash \/ Tick
    BY <2>4, BootStep, CatchupStepKeeps, CrashStep, TickStep
  <2>5. CASE UNCHANGED vars
    BY <2>5, StutterKeeps
  <2>6. QED
    BY <2>1, <2>2, <2>3, <2>4, <2>5 DEF Next
<1>3. QED
  BY <1>1, <1>2, PTL DEF Spec

(* Every variable stays in its type.                                        *)
THEOREM TypeCorrect == Spec => []TypeOK
<1>1. IInv => TypeOK
  <2> SUFFICES ASSUME IInv PROVE TypeOK
    OBVIOUS
  <2>1. \A r \in DOMAIN rows : rows[r] \in Row
    BY DEF IInv, RunInv
  <2>2. up \in BOOLEAN /\ reconciled \in BOOLEAN
    BY Zenon DEF IInv, RunInv, RegistryInv
  <2>3. QED
    BY <2>1, <2>2 DEF IInv, RunInv, RegistryInv, CatchupInv, DownInv, TypeOK, Row
<1>2. QED
  BY <1>1, Invariance, PTL

(* The runs of a task whose settings never allow an overlap do not overlap: *)
(* neither a crash, nor a sweep, nor a re-registration, nor a cancelled run *)
(* whose handler goes on opens a gap in the overlap check.                  *)
THEOREM NoOverlap == Spec => []RunsDoNotOverlap
<1>1. IInv => RunsDoNotOverlap
  <2> SUFFICES ASSUME IInv, NEW t \in Tasks, NeverOverlaps(t)
               PROVE  Cardinality(live \cap RowsOf(t)) <= 1
    BY DEF RunsDoNotOverlap
  <2>1. \A q, r \in live \cap RowsOf(t) : q = r
    BY DEF IInv, RunInv, NoTwo
  <2>2. CASE live \cap RowsOf(t) = {}
    BY <2>2, FS_EmptySet
  <2>3. CASE \E r : r \in live \cap RowsOf(t)
    <3>1. PICK r : live \cap RowsOf(t) = {r}
      BY <2>1, <2>3
    <3>2. QED
      BY <3>1, FS_Singleton
  <2>4. QED
    BY <2>2, <2>3
<1>2. QED
  BY <1>1, Invariance, PTL

(* A row is open for a run at work or for one lost before this start.       *)
THEOREM OpenRowsExplained == Spec => []OpenRowsAreExplained
<1>1. IInv => OpenRowsAreExplained
  BY DEF IInv, RunInv
<1>2. QED
  BY <1>1, Invariance, PTL

(* The newest run of a task can be cancelled as long as it is at work.      *)
THEOREM NewestCancellable == Spec => []NewestIsCancellable
<1>1. IInv => NewestIsCancellable
  BY DEF IInv, RunInv
<1>2. QED
  BY <1>1, Invariance, PTL

(* A cancelled run is never recorded as a success.                          *)
THEOREM NoCancelledSuccess == Spec => []CancelledIsNoSuccess
<1>1. IInv => CancelledIsNoSuccess
  BY DEF IInv, RunInv
<1>2. QED
  BY <1>1, Invariance, PTL

-----------------------------------------------------------------------------
(* The registry and the settings *)

(* A reconcile that does not throw brings the registry to its settings.     *)
LEMMA ReconcileFollows ==
    ASSUME IInv, NEW snap \in Snapshots, Reconcile(snap), reconciled', NEW t \in Tasks
    PROVE  /\ Wanted(snap, t) /\ snap.task[t].known
                => registry'[t] # Absent /\ Sig(registry'[t]) = Sig(snap.task[t])
           /\ ~Wanted(snap, t) => registry'[t] = Absent
<1>1. \A u \in Tasks : ~Throws(snap, u)
  BY DEF Reconcile
<1>2. ~FirstThrown(snap, t) /\ Reached(snap, t)
  BY <1>1 DEF FirstThrown, Reached
<1>3. /\ registry'[t] = IF ~Wanted(snap, t) THEN Absent
                        ELSE IF MustRegister(snap, t) THEN snap.task[t] ELSE registry[t]
  BY <1>2 DEF Reconcile, Replaced
<1>4. CASE Wanted(snap, t) /\ MustRegister(snap, t)
  <2>1. snap.task[t].cron # "bad" /\ registry'[t] = snap.task[t]
    BY <1>1, <1>3, <1>4 DEF Throws
  <2>2. registry'[t] # Absent
    BY <2>1 DEF Absent
  <2>3. QED
    BY <1>4, <2>1, <2>2
<1>5. CASE Wanted(snap, t) /\ snap.task[t].known /\ ~MustRegister(snap, t)
  <2>1. registry[t] # Absent /\ lastSpecSig[t] = Sig(snap.task[t]) /\ registry'[t] = registry[t]
    BY <1>3, <1>5 DEF MustRegister
  <2>2. lastSpecSig[t] = Sig(registry[t])
    BY <2>1 DEF Registered, IInv, RegistryInv
  <2>3. QED
    BY <1>5, <2>1, <2>2
<1>6. QED
  BY <1>3, <1>4, <1>5

(* After a reconcile that did not throw, the registry is what the settings  *)
(* in the file ask for, whatever happened before it.                        *)
THEOREM RegistryCorrect == Spec => []RegistryFollowsSettings
<1> DEFINE P == RegistryFollowsSettings
<1>1. Init => P
  BY DEF Init, RegistryFollowsSettings
<1>2. IInv /\ P /\ [Next]_vars => P'
  <2> SUFFICES ASSUME IInv, P, [Next]_vars PROVE P'
    OBVIOUS
  <2>1. CASE UNCHANGED <<settings, up, registry, reconciled>>
    BY <2>1 DEF RegistryFollowsSettings, Wanted, Sig
  <2>2. ASSUME NEW snap \in Snapshots, SaveSettings(snap) PROVE P'
    <3>1. settings' = snap /\ Reconcile(snap)
      BY <2>2 DEF SaveSettings
    <3>2. QED
      BY <3>1, ReconcileFollows DEF RegistryFollowsSettings, Wanted, Sig
  <2>3. CASE Boot
    <3>1. settings \in Snapshots /\ settings' = settings
      BY <2>3 DEF Boot, IInv, RegistryInv
    <3>2. CASE settings.enabled
      BY <2>3, <3>1, <3>2, ReconcileFollows DEF Boot, RegistryFollowsSettings, Wanted, Sig
    <3>3. CASE ~settings.enabled
      <4>1. \A t \in Tasks : registry'[t] = Absent /\ ~Wanted(settings', t)
        BY <2>3, <3>1, <3>3 DEF Boot, IInv, DownInv, Registered, Wanted
      <4>2. QED
        BY <4>1 DEF RegistryFollowsSettings, Wanted
    <3>4. QED
      BY <3>2, <3>3
  <2>4. CASE Crash
    BY <2>4 DEF Crash, RegistryFollowsSettings
  <2>5. CASE Tick \/ CatchupStep \/ UNCHANGED vars
    BY <2>1, <2>5 DEF Tick, CatchupStep, vars, memory
  <2>6. ASSUME NEW t \in Tasks, Fire(t) \/ RunNow(t) \/ Kill(t) PROVE P'
    BY <2>1, <2>6 DEF Fire, RunNow, Kill
  <2>7. ASSUME NEW r \in DOMAIN rows, FinishRun(r) PROVE P'
    BY <2>1, <2>7 DEF FinishRun
  <2>8. QED
    BY <2>2, <2>3, <2>4, <2>5, <2>6, <2>7 DEF Next
<1>3. QED
  BY <1>1, <1>2, Invariance, PTL DEF Spec

-----------------------------------------------------------------------------
(* The sweep *)

LEMMA StartKeepsSweep ==
    ASSUME IInv, SweepBoundsTheJam, NEW t, StartRun(t), UNCHANGED <<up, boot>>
    PROVE  SweepBoundsTheJam'
<1> DEFINE n == Len(rows) + 1
<1>1. /\ rows' = Append(rows, [task |-> t, started |-> now, status |-> "started"])
      /\ live' = live \cup {n}
  BY DEF StartRun
<1>2. DOMAIN rows' = DOMAIN rows \cup {n} /\ \A r \in DOMAIN rows : rows'[r] = rows[r]
  BY <1>1 DEF IInv, RunInv
<1>3. QED
  BY <1>1, <1>2 DEF SweepBoundsTheJam

(* What the sweep leaves open is young; later a row stays open only while   *)
(* its run is at work.                                                      *)
THEOREM JamIsBounded == Spec => []SweepBoundsTheJam
<1> DEFINE P == SweepBoundsTheJam
<1>1. Init => P
  BY DEF Init, SweepBoundsTheJam
<1>2. IInv /\ P /\ [Next]_vars => P'
  <2> SUFFICES ASSUME IInv, P, [Next]_vars PROVE P'
    OBVIOUS
  <2>1. CASE UNCHANGED <<up, boot, rows, live>>
    BY <2>1 DEF SweepBoundsTheJam
  <2>2. ASSUME NEW t, StartRun(t), UNCHANGED <<up, boot>> PROVE P'
    BY <2>2, StartKeepsSweep
  <2>3. ASSUME NEW t \in Tasks, Fire(t) \/ RunNow(t) \/ Kill(t) PROVE P'
    BY <2>1, <2>2, <2>3 DEF Fire, RecordRun, RunNow, Kill
  <2>4. ASSUME NEW r \in DOMAIN rows, FinishRun(r) PROVE P'
    <3>1. PICK threw \in BOOLEAN : rows' = [rows EXCEPT ![r].status = FinalStatus(r, threw)]
      BY <2>4 DEF FinishRun
    <3>2. /\ DOMAIN rows' = DOMAIN rows /\ \A q \in DOMAIN rows : q # r => rows'[q] = rows[q]
          /\ live' = live \ {r} /\ UNCHANGED <<up, boot>>
      BY <2>4, <3>1 DEF FinishRun
    <3>3. rows'[r].status # "started"
      <4>1. rows[r] \in Row
        BY DEF IInv, RunInv
      <4>2. rows'[r].status = FinalStatus(r, threw)
        BY <3>1, <4>1 DEF Row
      <4>3. QED
        BY <4>2 DEF FinalStatus
    <3>4. QED
      BY <3>2, <3>3 DEF SweepBoundsTheJam
  <2>5. CASE Boot
    <3>1. CASE settings.enabled
      <4>1. rows' = Swept /\ boot'.time = now
        BY <2>5, <3>1 DEF Boot
      <4>2. SUFFICES ASSUME NEW r \in DOMAIN rows', rows'[r].status = "started"
                     PROVE  now - rows'[r].started <= MaxAge
        BY <4>1 DEF SweepBoundsTheJam
      <4>3. r \in DOMAIN rows /\ rows[r] \in Row
        BY <4>1 DEF Swept, IInv, RunInv
      <4>4. [rows[r] EXCEPT !.status = "error"].status = "error"
        BY <4>3 DEF Row
      <4>5. rows'[r] = rows[r] /\ ~IsStale(r)
        BY <4>1, <4>2, <4>3, <4>4 DEF Swept
      <4>6. now \in Nat /\ rows[r].started \in Nat /\ MaxAge \in Nat
        BY <4>3, SchedulerAssumption, BoundsAreNat DEF Row, IInv, RunInv
      <4>7. QED
        BY <4>5, <4>6 DEF IsStale
    <3>2. CASE ~settings.enabled
      BY <2>5, <3>2 DEF Boot, SweepBoundsTheJam
    <3>3. QED
      BY <3>1, <3>2
  <2>6. CASE CatchupStep
    BY <2>1, <2>2, <2>6 DEF CatchupStep, CatchupFires, RecordRun
  <2>7. CASE Crash
    BY <2>7 DEF Crash, SweepBoundsTheJam
  <2>8. CASE Tick \/ (\E snap \in Snapshots : SaveSettings(snap)) \/ UNCHANGED vars
    BY <2>1, <2>8 DEF Tick, SaveSettings, vars, memory
  <2>9. QED
    BY <2>3, <2>4, <2>5, <2>6, <2>7, <2>8 DEF Next
<1>3. QED
  BY <1>1, <1>2, Invariance, PTL DEF Spec

-----------------------------------------------------------------------------
(* The catch-up *)

(* What CaughtUp asks for a task.                                           *)
Settled(t) == \E r \in RowsOf(t) : r > boot.rows \/ rows[r].status = "started"

(* The rows of before the start say that t succeeded, and not since it      *)
(* was due.                                                                 *)
WasMissed(t) ==
    /\ t \in Tasks
    /\ \E r \in RowsOf(t) : rows[r].status = "success"
    /\ \A r \in RowsOf(t) :
         rows[r].status = "success" /\ r <= boot.rows => rows[r].started < boot.time

(* Since the start, runs write only the rows they added themselves.         *)
BootInv ==
    up => /\ boot.rows \in 0..Len(rows) /\ boot.time \in 0..MaxTime
          /\ \A r \in live : r > boot.rows
          /\ \A t \in boot.missed : WasMissed(t)

(* The catch-up drops a task only when it is settled.                       *)
TodoInv ==
    up /\ catchup.st \in {"busy", "done"} =>
        /\ \A t \in boot.missed : t \in catchup.todo \/ Settled(t)
        /\ catchup.st = "done" => catchup.todo = {}

(* A step that leaves the rows of before the start as they are.             *)
OldRowsStay ==
    /\ boot' = boot
    /\ rows' \in Seq(Row) /\ Len(rows') >= Len(rows)
    /\ \A q \in DOMAIN rows :
         /\ rows'[q].task = rows[q].task
         /\ q <= boot.rows => rows'[q] = rows[q]
         /\ rows[q].status = "success" => rows'[q].status = "success"

LEMMA StartLeavesOldRows ==
    ASSUME IInv, NEW t \in Tasks, StartRun(t), boot' = boot
    PROVE  OldRowsStay
<1>1. rows' = Append(rows, [task |-> t, started |-> now, status |-> "started"])
  BY DEF StartRun
<1>2. rows \in Seq(Row) /\ [task |-> t, started |-> now, status |-> "started"] \in Row
  BY DEF IInv, RunInv, Row
<1>3. QED
  BY <1>1, <1>2 DEF OldRowsStay

LEMMA FinishLeavesOldRows ==
    ASSUME IInv, BootInv, up, NEW r \in DOMAIN rows, FinishRun(r)
    PROVE  OldRowsStay
<1>1. PICK threw \in BOOLEAN : rows' = [rows EXCEPT ![r].status = FinalStatus(r, threw)]
  BY DEF FinishRun
<1>2. r > boot.rows /\ rows[r].status = "started" /\ boot' = boot
  BY DEF FinishRun, BootInv, IInv, RunInv, OpenRowsAreExplained
<1>3. rows \in Seq(Row) /\ rows[r] \in Row /\ rows' \in Seq(Row) /\ boot.rows \in Nat
  BY FinishKeeps DEF IInv, RunInv, BootInv
<1>4. /\ Len(rows') = Len(rows) /\ rows'[r].task = rows[r].task
      /\ \A q \in DOMAIN rows : q # r => rows'[q] = rows[q]
  BY <1>1, <1>3 DEF Row
<1>5. QED
  BY <1>2, <1>3, <1>4 DEF OldRowsStay

LEMMA BootFrame ==
    ASSUME IInv, BootInv, up, OldRowsStay,
           live' \subseteq live \cup {Len(rows) + 1}
    PROVE  BootInv'
<1>1. /\ rows \in Seq(Row) /\ rows' \in Seq(Row) /\ Len(rows') >= Len(rows) /\ boot' = boot
      /\ boot.rows \in 0..Len(rows)
  BY DEF IInv, RunInv, OldRowsStay, BootInv
<1>2. /\ boot'.rows \in 0..Len(rows') /\ boot'.time \in 0..MaxTime
      /\ \A r \in live' : r > boot'.rows
  BY <1>1 DEF BootInv, IInv, RunInv
<1>3. ASSUME NEW t \in boot.missed PROVE WasMissed(t)'
  <2>1. WasMissed(t)
    BY <1>3 DEF BootInv
  <2>2. \A r \in RowsOf(t) : r \in RowsOf(t)' /\ (rows[r].status = "success" => rows'[r].status = "success")
    BY <1>1 DEF RowsOf, OldRowsStay
  <2>3. \E r \in RowsOf(t)' : rows'[r].status = "success"
    BY <2>1, <2>2 DEF WasMissed
  <2>4. ASSUME NEW r \in RowsOf(t)', rows'[r].status = "success", r <= boot'.rows
        PROVE  rows'[r].started < boot'.time
    <3>1. r \in DOMAIN rows
      BY <1>1, <2>4 DEF RowsOf
    <3>2. rows'[r] = rows[r] /\ r \in RowsOf(t)
      BY <1>1, <2>4, <3>1 DEF OldRowsStay, RowsOf
    <3>3. QED
      BY <1>1, <2>1, <2>4, <3>2 DEF WasMissed
  <2>5. QED
    BY <2>1, <2>3, <2>4 DEF WasMissed
<1>4. QED
  BY <1>1, <1>2, <1>3 DEF BootInv

LEMMA SettledStays ==
    ASSUME IInv, BootInv, up, OldRowsStay, NEW t, Settled(t)
    PROVE  Settled(t)'
<1>1. PICK r \in RowsOf(t) : r > boot.rows \/ rows[r].status = "started"
  BY DEF Settled
<1>2. rows \in Seq(Row) /\ rows' \in Seq(Row) /\ Len(rows') >= Len(rows) /\ boot' = boot
      /\ boot.rows \in Nat
  BY DEF IInv, RunInv, OldRowsStay, BootInv
<1>3. r \in RowsOf(t)' /\ r \in DOMAIN rows
  BY <1>1, <1>2 DEF RowsOf, OldRowsStay
<1>4. r > boot'.rows \/ rows'[r].status = "started"
  BY <1>1, <1>2, <1>3 DEF OldRowsStay
<1>5. QED
  BY <1>3, <1>4 DEF Settled

(* A task that missed its fire is found not to have missed it only after it *)
(* succeeded in a run since the start.                                      *)
LEMMA NotMissedIsSettled ==
    ASSUME IInv, BootInv, up, NEW t \in boot.missed, ~Missed(t)
    PROVE  Settled(t)
<1>1. WasMissed(t) /\ boot.rows \in Nat
  BY DEF BootInv
<1>2. \A r \in RowsOf(t) : r \in DOMAIN rows /\ r \in Nat /\ rows[r] \in Row
  BY DEF RowsOf, IInv, RunInv
<1>3. EverSucceeded(t)
  BY <1>1, <1>2, BoundsAreNat DEF WasMissed, EverSucceeded, SuccessSince, Row
<1>4. PICK r \in RowsOf(t) : rows[r].status = "success" /\ rows[r].started >= boot.time
  BY <1>3 DEF Missed, SuccessSince
<1>5. CASE r <= boot.rows
  <2>1. rows[r].started < boot.time
    BY <1>1, <1>4, <1>5 DEF WasMissed
  <2>2. rows[r].started \in Nat /\ boot.time \in Nat
    BY <1>2, BoundsAreNat DEF Row, BootInv
  <2>3. QED
    BY <1>4, <2>1, <2>2
<1>6. QED
  BY <1>1, <1>2, <1>4, <1>5 DEF Settled

(* The start: what it finds is old, what it lists is what may have missed.  *)
LEMMA BootStarts ==
    ASSUME IInv, Boot
    PROVE  BootInv' /\ TodoInv'
<1>1. IInv' /\ live' = {} /\ rows \in Seq(Row) /\ now \in 0..MaxTime
  BY BootStep DEF Boot, IInv, DownInv, RunInv
<1>2. CASE ~settings.enabled
  <2>1. boot' = [time |-> now, rows |-> Len(rows), swept |-> FALSE, missed |-> {}] /\ rows' = rows
    BY <1>2 DEF Boot
  <2>2. BootInv'
    BY <1>1, <2>1 DEF BootInv
  <2>3. QED
    BY <2>1, <2>2, <1>1, <1>2 DEF TodoInv, Boot, IInv, DownInv, NoCatchup
<1>3. CASE settings.enabled
  <2> DEFINE tasks == {t \in Tasks : registry'[t] # Absent}
  <2>1. /\ rows' = Swept
        /\ boot' = [time |-> now, rows |-> Len(rows), swept |-> TRUE,
                    missed |-> {t \in tasks : FireWasMissed(t)}]
        /\ \/ catchup' = [st |-> "busy", run |-> 0, todo |-> tasks]
           \/ catchup' = NoCatchup
    BY <1>3 DEF Boot
  <2>2. DOMAIN rows' = DOMAIN rows /\ Len(rows') = Len(rows)
    BY <1>1, <2>1 DEF Swept
  <2>3. ASSUME NEW r \in DOMAIN rows
        PROVE  /\ rows'[r].task = rows[r].task /\ rows'[r].started = rows[r].started
               /\ rows'[r].status = "success" <=> rows[r].status = "success"
    <3>1. rows[r] \in Row
      BY <1>1
    <3>2. rows'[r] = rows[r] \/ (rows[r].status = "started" /\ rows'[r] = [rows[r] EXCEPT !.status = "error"])
      BY <2>1 DEF Swept
    <3>3. QED
      BY <3>1, <3>2 DEF Row
  <2>4. ASSUME NEW t \in tasks, FireWasMissed(t) PROVE WasMissed(t)'
    <3>1. RowsOf(t)' = RowsOf(t)
      BY <2>2, <2>3 DEF RowsOf
    <3>2. PICK r \in RowsOf(t) : rows[r].status = "success"
      BY <2>4 DEF FireWasMissed
    <3>3. \A q \in RowsOf(t) : rows[q].status = "success" => rows[q].started < now
      BY <2>4 DEF FireWasMissed
    <3>4. \A q \in RowsOf(t) : q \in DOMAIN rows
      BY DEF RowsOf
    <3>5. t \in Tasks /\ boot'.time = now
      BY <2>1
    <3>6. QED
      BY <2>3, <3>1, <3>2, <3>3, <3>4, <3>5 DEF WasMissed
  <2>5. boot'.missed = {t \in tasks : FireWasMissed(t)} /\ boot'.rows = Len(rows) /\ boot'.time = now
    BY <2>1
  <2>6. BootInv'
    BY <1>1, <2>2, <2>4, <2>5 DEF BootInv
  <2>7. TodoInv'
    BY <2>1, <2>5 DEF TodoInv, NoCatchup
  <2>8. QED
    BY <2>6, <2>7
<1>4. QED
  BY <1>2, <1>3

LEMMA TodoFrame ==
    ASSUME IInv, BootInv, TodoInv, up, OldRowsStay, catchup' = catchup
    PROVE  TodoInv'
<1>1. boot' = boot
  BY DEF OldRowsStay
<1>2. QED
  BY <1>1, SettledStays DEF TodoInv

(* The run the catch-up waited for is one of the task it drops.             *)
LEMMA FinishKeepsTodo ==
    ASSUME IInv, BootInv, TodoInv, up, NEW r \in DOMAIN rows, FinishRun(r)
    PROVE  BootInv' /\ TodoInv'
<1>1. OldRowsStay /\ boot' = boot
  BY FinishLeavesOldRows DEF OldRowsStay
<1>2. BootInv'
  BY <1>1, BootFrame DEF FinishRun
<1>3. CASE catchup.run # r
  BY <1>1, <1>2, <1>3, TodoFrame DEF FinishRun
<1>4. CASE catchup.run = r
  <2>1. /\ catchup' = [catchup EXCEPT !.run = 0, !.todo = @ \ {rows[r].task}]
        /\ catchup = [st |-> catchup.st, todo |-> catchup.todo, run |-> catchup.run]
        /\ up' = up /\ r \in live
    BY <1>4 DEF FinishRun, IInv, CatchupInv
  <2>2. catchup'.st = catchup.st /\ catchup'.todo = catchup.todo \ {rows[r].task}
    BY <2>1
  <2>3. Settled(rows[r].task)
    BY <2>1 DEF BootInv, Settled, RowsOf
  <2>4. QED
    BY <1>1, <1>2, <2>1, <2>2, <2>3, SettledStays DEF TodoInv
<1>5. QED
  BY <1>3, <1>4

LEMMA CatchupKeepsTodo ==
    ASSUME IInv, BootInv, TodoInv, CatchupStep
    PROVE  BootInv' /\ TodoInv'
<1>1. /\ catchup.st = "busy" /\ catchup.run = 0 /\ up' = up /\ boot' = boot
      /\ catchup = [st |-> catchup.st, todo |-> catchup.todo, run |-> catchup.run]
  BY DEF CatchupStep, IInv, CatchupInv
<1>0. up
  BY <1>1 DEF IInv, DownInv, NoCatchup
<1>2. ASSUME UNCHANGED <<rows, live>> PROVE OldRowsStay /\ BootInv'
  <2>1. OldRowsStay
    BY <1>1, <1>2 DEF OldRowsStay, IInv, RunInv
  <2>2. QED
    BY <1>0, <1>2, <2>1, BootFrame
<1>3. CASE catchup.todo = {} /\ catchup' = [catchup EXCEPT !.st = "done"] /\ UNCHANGED <<rows, live>>
  <2>1. catchup'.st = "done" /\ catchup'.todo = {}
    BY <1>1, <1>3
  <2>2. \A t \in boot.missed : Settled(t)
    BY <1>0, <1>1, <1>3 DEF TodoInv
  <2>3. QED
    BY <1>0, <1>1, <1>2, <1>3, <2>1, <2>2, SettledStays DEF TodoInv
<1>4. ASSUME NEW t \in catchup.todo, catchup' = [catchup EXCEPT !.todo = @ \ {t}],
             UNCHANGED <<rows, live>>, t \in boot.missed => Settled(t)
      PROVE  BootInv' /\ TodoInv'
  <2>1. catchup'.st = "busy" /\ catchup'.todo = catchup.todo \ {t}
    BY <1>1, <1>4
  <2>2. QED
    BY <1>0, <1>1, <1>2, <1>4, <2>1, SettledStays DEF TodoInv
<1>5. ASSUME NEW t \in catchup.todo, CatchupFires(t) PROVE BootInv' /\ TodoInv'
  <2>1. CASE t \notin Registered /\ catchup' = [catchup EXCEPT !.st = "failed", !.todo = {}]
             /\ UNCHANGED <<rows, live>>
    <3>1. catchup'.st = "failed"
      BY <1>1, <2>1
    <3>2. QED
      BY <1>2, <2>1, <3>1 DEF TodoInv
  <2>2. CASE Skips(t) /\ catchup' = [catchup EXCEPT !.todo = @ \ {t}] /\ UNCHANGED <<rows, live>>
    <3>1. Settled(t)
      BY <2>2 DEF Skips, HasActiveRun, OpenRows, Settled
    <3>2. QED
      BY <2>2, <3>1, <1>4
  <2>3. CASE t \in Registered /\ StartRun(t) /\ catchup' = [catchup EXCEPT !.run = Len(rows) + 1]
    <3>1. OldRowsStay
      BY <1>1, <2>3, StartLeavesOldRows DEF Registered
    <3>2. BootInv'
      <4>1. rows \in Seq(Row) /\ live' = live \cup {Len(rows) + 1}
        BY <2>3 DEF StartRun, IInv, RunInv
      <4>2. QED
        BY <1>0, <3>1, <4>1, BootFrame
    <3>3. catchup'.st = catchup.st /\ catchup'.todo = catchup.todo
      BY <1>1, <2>3
    <3>4. QED
      BY <1>0, <1>1, <3>1, <3>2, <3>3, SettledStays DEF TodoInv
  <2>4. QED
    BY <1>5, <2>1, <2>2, <2>3 DEF CatchupFires, RecordRun
<1>6. ASSUME NEW t \in catchup.todo, ~Missed(t), UNCHANGED <<rows, live>>,
             catchup' = [catchup EXCEPT !.todo = @ \ {t}]
      PROVE  BootInv' /\ TodoInv'
  BY <1>0, <1>4, <1>6, NotMissedIsSettled
<1>7. QED
  BY <1>3, <1>5, <1>6 DEF CatchupStep

(* Crash catch-up: when it has gone through all tasks, each task that had   *)
(* missed its fire has run since the start or is kept from running by a row *)
(* a crash left open; nothing that happens meanwhile (cron, run-now, a      *)
(* cancellation, a save, the end of a run) takes a task off the list early. *)
THEOREM CatchupReachesAll == Spec => []CaughtUp
<1> DEFINE P == BootInv /\ TodoInv
<1>1. Init => P
  BY DEF Init, BootInv, TodoInv
<1>2. IInv /\ P /\ [Next]_vars => P'
  <2> SUFFICES ASSUME IInv, P, [Next]_vars PROVE P'
    OBVIOUS
  <2>1. ASSUME UNCHANGED <<rows, live, boot, catchup, up>> PROVE P'
    BY <2>1 DEF BootInv, TodoInv, WasMissed, Settled, RowsOf
  <2>2. ASSUME NEW t \in Tasks, StartRun(t), up, UNCHANGED <<boot, catchup, up>> PROVE P'
    <3>1. OldRowsStay
      BY <2>2, StartLeavesOldRows
    <3>2. rows \in Seq(Row) /\ live' = live \cup {Len(rows) + 1}
      BY <2>2 DEF StartRun, IInv, RunInv
    <3>3. QED
      BY <2>2, <3>1, <3>2, BootFrame, TodoFrame
  <2>3. ASSUME NEW t \in Tasks, Fire(t) \/ RunNow(t) \/ Kill(t) PROVE P'
    <3>1. up
      BY <2>3 DEF Fire, RunNow, Kill, IInv, RegistryInv, DownInv
    <3>2. QED
      BY <2>1, <2>2, <2>3, <3>1 DEF Fire, RecordRun, RunNow, Kill
  <2>4. ASSUME NEW r \in DOMAIN rows, FinishRun(r) PROVE P'
    <3>1. up
      BY <2>4 DEF FinishRun, IInv, DownInv
    <3>2. QED
      BY <2>4, <3>1, FinishKeepsTodo
  <2>5. CASE Boot
    BY <2>5, BootStarts
  <2>6. CASE CatchupStep
    BY <2>6, CatchupKeepsTodo
  <2>7. CASE Crash
    BY <2>7 DEF Crash, BootInv, TodoInv
  <2>8. CASE Tick \/ (\E snap \in Snapshots : SaveSettings(snap)) \/ UNCHANGED vars
    BY <2>1, <2>8 DEF Tick, SaveSettings, vars, memory
  <2>9. QED
    BY <2>3, <2>4, <2>5, <2>6, <2>7, <2>8 DEF Next
<1>3. P => CaughtUp
  BY DEF TodoInv, CaughtUp, Settled
<1>4. QED
  BY <1>1, <1>2, <1>3, Invariance, PTL DEF Spec

=============================================================================
