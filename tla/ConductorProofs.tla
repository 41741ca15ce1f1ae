--------------------------- MODULE ConductorProofs ---------------------------
(***************************************************************************)
(* What holds of the conductor for every plan, worker limit and bound:     *)
(* under every request, torn read and crash, its types, the order of       *)
(* dependent tasks, what a done entry means and the worker limit; of a     *)
(* conductor left to itself, that no exit is lost, the verdict, and that   *)
(* it implements PlanRun; with one request at a time and any number of     *)
(* crashes, that nothing is left running in run.json.                      *)
(***************************************************************************)
EXTENDS ConductorImpl, SequenceTheorems, FiniteSetTheorems, TLAPS

(* A job that runs is the head of the queue; the steps of an exit listener *)
(* run for an exit.                                                        *)
Holder ==
    /\ job.pc # "idle" => queue # <<>>
    /\ job.pc \in {"record", "load", "finish"} => Head(queue).kind = "exit"

TypeInv == TypeOK /\ Holder

-----------------------------------------------------------------------------
(* Types of the data.                                                      *)

LEMMA NewRunType == NewRun \in Run
  <1>1. NoWorker \in Entry
    BY BoundAssumption DEF NoWorker, Entry
  <1>2. QED BY <1>1 DEF NewRun, Run, RunStatus, PmStatus

LEMMA NoJobType == NoJob \in JobLocals
  BY NewRunType, BoundAssumption DEF NoJob, JobLocals, JobPc

LEMMA IdleType == Idle \in Operation
  BY NewRunType DEF Idle, Operation

LEMMA RecordExitType ==
  ASSUME NEW r \in Run, NEW t \in Tasks, NEW e \in Entry
  PROVE  RecordExit(r, t, e) \in Run
  <1>1. Blocked \in Entry
    BY BoundAssumption DEF Blocked, Entry, WorkerStatus
  <1>2. r.w \in [Tasks -> Entry]
    BY DEF Run
  <1>3. QED BY <1>1, <1>2 DEF RecordExit, Run

LEMMA ViewType ==
  ASSUME TypeOK
  PROVE  View(job) \in [Tasks -> Entry]
  <1>1. job.run.w \in [Tasks -> Entry] /\ job.fresh \in [Tasks -> 0 .. MaxAttempts]
    BY DEF TypeOK, JobLocals, Run
  <1>2. ASSUME NEW t \in Tasks, job.fresh[t] # 0
        PROVE  [st |-> sess[<<t, job.fresh[t]>>].st, k |-> job.fresh[t]] \in Entry
    <2>1. job.fresh[t] \in Attempts /\ job.fresh[t] \in 0 .. MaxAttempts
      BY <1>1, <1>2, BoundAssumption DEF Attempts
    <2>2. sess[<<t, job.fresh[t]>>] \in Session
      BY <2>1 DEF TypeOK
    <2>3. QED BY <2>1, <2>2 DEF Entry, Session
  <1>3. QED BY <1>1, <1>2 DEF View

LEMMA RecoveredType ==
  ASSUME NEW r \in Run, NEW alive
  PROVE  Recovered(r, alive) \in Run
  <1> DEFINE w == [t \in Tasks |->
                IF r.w[t].st = "running" /\ ~IsAlive(t, r.w[t].k)
                THEN [r.w[t] EXCEPT !.st = "interrupted"] ELSE r.w[t]]
  <1>1. r.w \in [Tasks -> Entry] /\ r.status \in RunStatus /\ r.pm \in PmStatus
    BY DEF Run
  <1>2. w \in [Tasks -> Entry]
    BY <1>1 DEF Entry, WorkerStatus
  <1>3. "failed" \in RunStatus /\ "interrupted" \in PmStatus
    BY DEF RunStatus, PmStatus
  <1>4. Recovered(r, alive).w = w
    BY DEF Recovered
  <1>5. Recovered(r, alive).status \in RunStatus /\ Recovered(r, alive).pm \in PmStatus
    BY <1>1, <1>3 DEF Recovered
  <1>6. QED BY <1>2, <1>4, <1>5 DEF Recovered, Run

LEMMA AppendHead ==
  ASSUME NEW q \in Seq(Job), NEW j \in Job
  PROVE  /\ Append(q, j) \in Seq(Job)
         /\ Append(q, j) # <<>>
         /\ q # <<>> => Head(Append(q, j)) = Head(q)
  BY AppendProperties, HeadTailAppend

LEMMA QueuedJobs ==
  /\ DispatchJob \in Job /\ ConflictsJob \in Job
  /\ \A t \in Tasks, k \in Attempts : [kind |-> "exit", t |-> t, k |-> k] \in Job
  BY DEF DispatchJob, ConflictsJob, Job

LEMMA HeadIsJob ==
  ASSUME NEW q \in Seq(Job), q # <<>>
  PROVE  /\ Head(q) \in Job /\ Tail(q) \in Seq(Job)
         /\ Head(q).kind = "exit" => Head(q).t \in Tasks /\ Head(q).k \in Attempts
  <1>1. Head(q) \in Job /\ Tail(q) \in Seq(Job)
    BY HeadTailProperties
  <1>2. QED BY <1>1 DEF Job

LEMMA StatusEdit ==
  ASSUME NEW r \in Run, NEW st \in RunStatus
  PROVE  [r EXCEPT !.status = st] \in Run
  BY DEF Run

LEMMA PmEdit ==
  ASSUME NEW r \in Run, NEW st \in PmStatus
  PROVE  [r EXCEPT !.pm = st] \in Run
  BY DEF Run

LEMMA EntryEdit ==
  ASSUME NEW r \in Run, NEW t, NEW st \in WorkerStatus
  PROVE  [r EXCEPT !.w[t].st = st] \in Run
  <1>1. r.w \in [Tasks -> Entry]
    BY DEF Run
  <1>2. [r.w EXCEPT ![t].st = st] \in [Tasks -> Entry]
    BY <1>1 DEF Entry
  <1>3. QED BY <1>2 DEF Run

(* What a copy of run.json taken by an operation may be. *)
LEMMA CopyType ==
  ASSUME TypeOK, NEW c \in Clients
  PROVE  Copy(c) \in Run /\ client[c] \in Operation
  BY DEF TypeOK, Copy, Operation

LEMMA CancelledType ==
  ASSUME NEW r \in Run
  PROVE  [status |-> "cancelled", pm |-> Killed(r.pm),
          w |-> [t \in Tasks |-> [r.w[t] EXCEPT !.st = Killed(@)]]] \in Run
  <1>1. r.w \in [Tasks -> Entry] /\ r.pm \in PmStatus
    BY DEF Run
  <1>2. ASSUME NEW t \in Tasks
        PROVE  [r.w[t] EXCEPT !.st = Killed(@)] \in Entry
    <2>1. r.w[t] \in Entry /\ Killed(r.w[t].st) \in WorkerStatus \cup {"none"}
      BY <1>1 DEF Entry, Killed, WorkerStatus
    <2>2. QED BY <2>1 DEF Entry
  <1>3. Killed(r.pm) \in PmStatus /\ "cancelled" \in RunStatus
    BY <1>1 DEF Killed, PmStatus, RunStatus
  <1>4. QED BY <1>2, <1>3 DEF Run

LEMMA ResumedType ==
  ASSUME NEW r \in Run, NEW D
  PROVE  [r EXCEPT !.status = "running",
                   !.w = [t \in Tasks |->
                            IF r.w[t].st = "interrupted" \/ t \in D
                            THEN NoWorker ELSE r.w[t]]] \in Run
  <1>1. r.w \in [Tasks -> Entry] /\ NoWorker \in Entry /\ "running" \in RunStatus
    BY BoundAssumption DEF Run, NoWorker, Entry, RunStatus
  <1>2. QED BY <1>1 DEF Run

-----------------------------------------------------------------------------
(* Type correctness.                                                       *)

LEMMA TypeInit == Init => TypeInv
  <1> SUFFICES ASSUME Init PROVE TypeInv
    OBVIOUS
  <1>1. disk \in Run /\ job \in JobLocals /\ job.pc = "idle" /\ queue \in Seq(Job)
    BY NewRunType, NoJobType DEF Init, NoJob
  <1>2. sess \in [Tasks \X Attempts -> Session]
    BY DEF Init, Session, SessionPc
  <1>3. client \in [Clients -> Operation]
    BY IdleType DEF Init
  <1>4. /\ checks \in Nat /\ pms \in Nat
        /\ ops \in 0 .. MaxOps /\ crashes \in 0 .. MaxCrashes
    BY BoundAssumption DEF Init
  <1>8. boot \in BOOLEAN
    BY Zenon DEF Init
  <1>5. Holder
    BY <1>1 DEF Holder
  <1>6. TypeOK
    BY <1>1, <1>2, <1>3, <1>4, <1>8 DEF TypeOK
  <1>7. QED BY <1>5, <1>6 DEF TypeInv

LEMMA SessionTypes ==
  ASSUME TypeInv, NEW t \in Tasks, NEW k \in Attempts, SessionStep(t, k)
  PROVE  TypeInv'
  <1> USE DEF TypeInv
  <1>1. sess[<<t, k>>] \in Session
    BY DEF TypeOK
  <1>2. CASE Stall(t, k)
    <2>1. [sess[<<t, k>>] EXCEPT !.st = "stuck"] \in Session
      BY <1>1 DEF Session, WorkerStatus
    <2>2. QED BY <1>2, <2>1 DEF Stall, TypeOK, Holder
  <1>3. CASE ExitClean(t, k)
    <2>1. [pc |-> "validating", st |-> "done"] \in Session
      BY DEF Session, SessionPc, WorkerStatus
    <2>2. QED BY <1>3, <2>1 DEF ExitClean, TypeOK, Holder
  <1>4. CASE ExitError(t, k)
    <2>1. \A st \in {"stuck", "failed"} : [pc |-> "queued", st |-> st] \in Session
      BY DEF Session, SessionPc, WorkerStatus
    <2>2. sess' \in [Tasks \X Attempts -> Session]
      BY <1>4, <2>1 DEF ExitError, TypeOK
    <2>3. QED BY <1>4, <2>2, QueuedJobs, AppendHead DEF ExitError, TypeOK, Holder
  <1>5. CASE Validate(t, k)
    <2>1. \A st \in {"done", "validation_failed"} : [pc |-> "queued", st |-> st] \in Session
      BY DEF Session, SessionPc, WorkerStatus
    <2>2. sess' \in [Tasks \X Attempts -> Session]
      BY <1>5, <2>1 DEF Validate, TypeOK
    <2>3. QED BY <1>5, <2>2, QueuedJobs, AppendHead DEF Validate, TypeOK, Holder
  <1>6. QED BY <1>2, <1>3, <1>4, <1>5 DEF SessionStep

(* The lock is handed over: the next job starts from scratch. *)
LEMMA ReleaseTypes ==
  ASSUME TypeInv, queue # <<>>, Release
  PROVE  queue' \in Seq(Job) /\ job' \in JobLocals /\ Holder'
  <1>1. queue' \in Seq(Job) /\ job' = NoJob
    BY HeadIsJob DEF Release, TypeInv, TypeOK
  <1>2. QED BY <1>1, NoJobType DEF Holder, NoJob

LEMMA DispatchReturnTypes ==
  ASSUME TypeInv, queue # <<>>, DispatchReturn
  PROVE  queue' \in Seq(Job) /\ job' \in JobLocals /\ Holder'
  <1>1. CASE Head(queue).kind = "exit"
    <2>1. job' = [NoJob EXCEPT !.pc = "finish", !.latest = job.latest] /\ queue' = queue
      BY <1>1 DEF DispatchReturn
    <2>2. job' \in JobLocals /\ job'.pc = "finish"
      BY <2>1, NoJobType DEF TypeInv, TypeOK, JobLocals, JobPc
    <2>3. QED BY <1>1, <2>1, <2>2 DEF TypeInv, TypeOK, Holder
  <1>2. CASE Head(queue).kind # "exit"
    BY <1>2, ReleaseTypes DEF DispatchReturn
  <1>3. QED BY <1>1, <1>2

LEMMA SettledType ==
  ASSUME TypeOK, NEW s
  PROVE  [sess EXCEPT ![s].pc = "settled"] \in [Tasks \X Attempts -> Session]
  BY DEF TypeOK, Session, SessionPc

LEMMA LockTypes ==
  ASSUME TypeInv, LockStep
  PROVE  TypeInv'
  <1> USE DEF TypeInv
  <1>1. /\ disk \in Run /\ job \in JobLocals /\ job.latest \in Run /\ job.run \in Run
        /\ queue \in Seq(Job) /\ sess \in [Tasks \X Attempts -> Session]
    BY DEF TypeOK, JobLocals
  <1>2. LockFree \/ job.pc # "idle" => queue # <<>>
    BY DEF LockFree, Holder
  <1>3. CASE StartExit
    <2> DEFINE t == Head(queue).t  k == Head(queue).k
               e == [st |-> sess[<<t, k>>].st, k |-> k]
    <2>1. t \in Tasks /\ k \in Attempts /\ queue # <<>>
      BY <1>1, <1>3, HeadIsJob DEF StartExit, LockFree
    <2>2. e \in Entry
      BY <1>1, <2>1, BoundAssumption DEF Entry, Session, Attempts
    <2>3. RecordExit(disk, t, e) \in Run
      BY <1>1, <2>1, <2>2, RecordExitType
    <2>4. job' = [job EXCEPT !.pc = "record", !.latest = RecordExit(disk, t, e)]
      BY <1>3 DEF StartExit
    <2>5. job' \in JobLocals /\ job'.pc = "record"
      BY <1>1, <2>3, <2>4 DEF JobLocals, JobPc
    <2>6. QED BY <1>3, <2>1, <2>5 DEF StartExit, TypeOK, Holder
  <1>4. CASE SaveExit
    <2>1. job' \in JobLocals /\ job'.pc \in {"load", "finish"}
      BY <1>1, <1>4 DEF SaveExit, JobLocals, JobPc
    <2>2. sess' \in [Tasks \X Attempts -> Session] /\ disk' \in Run
      BY <1>1, <1>4, SettledType DEF SaveExit
    <2>3. QED BY <1>4, <2>1, <2>2 DEF SaveExit, TypeOK, Holder
  <1>5. CASE TornLoad
    <2>1. queue' \in Seq(Job) /\ job' \in JobLocals /\ Holder'
      BY <1>2, <1>5, ReleaseTypes, DispatchReturnTypes DEF TornLoad
    <2>2. sess' \in [Tasks \X Attempts -> Session]
      BY <1>1, <1>5, SettledType DEF TornLoad
    <2>3. QED BY <1>5, <2>1, <2>2 DEF TornLoad, TypeOK
  <1>6. CASE LoadForDispatch
    <2>1. queue # <<>>
      BY <1>2, <1>6 DEF LoadForDispatch, AtDispatch
    <2>2. CASE disk.status = "running"
      <3>1. job' = [job EXCEPT !.pc = "pick", !.run = disk] /\ queue' = queue
        BY <1>6, <2>2 DEF LoadForDispatch
      <3>2. job' \in JobLocals /\ job'.pc = "pick"
        BY <1>1, <3>1 DEF JobLocals, JobPc
      <3>3. QED BY <1>6, <2>1, <3>1, <3>2 DEF LoadForDispatch, TypeOK, Holder
    <2>3. CASE disk.status # "running"
      <3>1. queue' \in Seq(Job) /\ job' \in JobLocals /\ Holder'
        BY <1>6, <2>1, <2>3, DispatchReturnTypes DEF LoadForDispatch
      <3>2. QED BY <1>6, <3>1 DEF LoadForDispatch, TypeOK
    <2>4. QED BY <2>2, <2>3
  <1>7. CASE PickTask
    <2>1. ReadyAt(job) \subseteq Nat \ {0}
      BY <1>1, PlanAssumption DEF ReadyAt, JobLocals
    <2>2. \/ job' = [job EXCEPT !.pc = "store"]
          \/ \E i \in ReadyAt(job) : job' = [job EXCEPT !.pc = "spawn", !.idx = i]
      BY <1>7 DEF PickTask
    <2>5. job' \in JobLocals /\ job'.pc \in {"spawn", "store"}
      BY <1>1, <2>1, <2>2 DEF JobLocals, JobPc
    <2>3. queue # <<>>
      BY <1>2, <1>7 DEF PickTask
    <2>4. QED BY <1>7, <2>3, <2>5 DEF PickTask, TypeOK, Holder
  <1>8. CASE SpawnWorker
    <2>1. PICK k \in Attempts :
            /\ sess' = [sess EXCEPT ![<<Order[job.idx], k>>] = [pc |-> "live", st |-> "running"]]
            /\ job' = [job EXCEPT !.pc = "pick", !.idx = @ + 1, !.fresh[Order[job.idx]] = k]
      BY <1>8 DEF SpawnWorker
    <2>2. [pc |-> "live", st |-> "running"] \in Session /\ k \in 0 .. MaxAttempts
      BY BoundAssumption DEF Session, SessionPc, WorkerStatus, Attempts
    <2>3. sess' \in [Tasks \X Attempts -> Session]
      BY <1>1, <2>1, <2>2
    <2>4. job' \in JobLocals /\ job'.pc = "pick"
      <3>1. job.idx + 1 \in Nat \ {0} /\ "pick" \in JobPc
        BY <1>1 DEF JobLocals, JobPc
      <3>2. [job.fresh EXCEPT ![Order[job.idx]] = k] \in [Tasks -> 0 .. MaxAttempts]
        BY <1>1, <2>2 DEF JobLocals
      <3>3. job' = [job EXCEPT !.pc = "pick", !.idx = job.idx + 1,
                               !.fresh = [job.fresh EXCEPT ![Order[job.idx]] = k]]
        BY <1>1, <2>1 DEF JobLocals
      <3>4. QED BY <1>1, <3>1, <3>2, <3>3 DEF JobLocals
    <2>5. queue # <<>>
      BY <1>2, <1>8 DEF SpawnWorker
    <2>6. QED BY <1>8, <2>3, <2>4, <2>5 DEF SpawnWorker, TypeOK, Holder
  <1>9. CASE SpawnError
    <2>1. job' \in JobLocals /\ job'.pc = "pick"
      <3>1. job.idx + 1 \in Nat \ {0} /\ "pick" \in JobPc
        BY <1>1 DEF JobLocals, JobPc
      <3>2. job' = [job EXCEPT !.pc = "pick", !.idx = job.idx + 1]
        BY <1>9 DEF SpawnError
      <3>3. QED BY <1>1, <3>1, <3>2 DEF JobLocals
    <2>2. queue # <<>>
      BY <1>2, <1>9 DEF SpawnError
    <2>3. QED BY <1>9, <2>1, <2>2 DEF SpawnError, TypeOK, Holder
  <1>10. CASE SaveDispatch
    <2>1. queue' \in Seq(Job) /\ job' \in JobLocals /\ Holder'
      BY <1>2, <1>10, DispatchReturnTypes DEF SaveDispatch
    <2>2. [job.run EXCEPT !.w = View(job)] \in Run
      <3>1. View(job) \in [Tasks -> Entry]
        BY ViewType
      <3>2. QED BY <1>1, <3>1 DEF Run
    <2>3. disk' \in Run
      BY <1>1, <1>10, <2>2 DEF SaveDispatch
    <2>4. QED BY <1>10, <2>1, <2>3 DEF SaveDispatch, TypeOK
  <1>11. CASE FinishExit
    <2>1. queue' \in Seq(Job) /\ job' \in JobLocals /\ Holder'
      BY <1>2, <1>11, ReleaseTypes DEF FinishExit
    <2>2. FinalStatus(job.latest.w) \in RunStatus
      BY DEF FinalStatus, RunStatus
    <2>3. disk' \in Run
      BY <1>1, <1>11, <2>2, StatusEdit DEF FinishExit
    <2>4. checks' \in Nat
      BY <1>11 DEF FinishExit, TypeOK
    <2>5. QED BY <1>11, <2>1, <2>3, <2>4 DEF FinishExit, TypeOK
  <1>12. CASE LoadForReports
    <2>1. job' \in JobLocals /\ job'.pc = "reports"
      BY <1>1, <1>12 DEF LoadForReports, JobLocals, JobPc
    <2>2. QED BY <1>12, <2>1 DEF LoadForReports, LockFree, TypeOK, Holder
  <1>13. CASE SaveReports
    <2>1. queue' \in Seq(Job) /\ job' \in JobLocals /\ Holder'
      BY <1>2, <1>13, ReleaseTypes DEF SaveReports
    <2>2. QED BY <1>1, <1>13, <2>1 DEF SaveReports, TypeOK
  <1>14. QED
    BY <1>3, <1>4, <1>5, <1>6, <1>7, <1>8, <1>9, <1>10, <1>11, <1>12, <1>13 DEF LockStep

(* An operation that writes r and is done. *)
LEMMA CommitTypes ==
  ASSUME TypeOK, NEW c \in Clients, NEW kind, NEW r \in Run, Commit(c, kind, r)
  PROVE  disk' \in Run /\ client' \in [Clients -> Operation]
  BY IdleType DEF Commit, TypeOK

LEMMA OperationEdit ==
  ASSUME NEW o \in Operation, NEW r \in Run,
         NEW pc \in {"idle", "checked", "save", "merging", "archiving"}
  PROVE  [o EXCEPT !.pc = pc] \in Operation /\ [o EXCEPT !.pc = pc, !.run = r] \in Operation
  BY DEF Operation

(* Operations that write run.json and do nothing else. *)
LEMMA PlainCommit ==
  ASSUME TypeInv, NEW c \in Clients, NEW kind, NEW r \in Run, Commit(c, kind, r),
         UNCHANGED <<sess, job, checks, boot, ops, crashes>>,
         \/ UNCHANGED queue
         \/ queue' = Append(queue, DispatchJob),
         pms' \in Nat
  PROVE  TypeInv'
  <1>1. disk' \in Run /\ client' \in [Clients -> Operation]
    BY CommitTypes DEF TypeInv
  <1>2. queue' \in Seq(Job) /\ Holder'
    BY QueuedJobs, AppendHead DEF TypeInv, TypeOK, Holder
  <1>3. QED BY <1>1, <1>2 DEF TypeInv, TypeOK

LEMMA ClientTypes ==
  ASSUME TypeInv, NEW c \in Clients, ClientStep(c)
  PROVE  TypeInv'
  <1> DEFINE r == Copy(c)
  <1>1. r \in Run /\ client[c] \in Operation
    BY CopyType DEF TypeInv
  <1>2. disk \in Run /\ pms \in Nat
    BY DEF TypeInv, TypeOK
  <1>3. /\ {"running", "cancelled", "archived", "merging", "done", "failed"} \subseteq RunStatus
        /\ {"running", "failed"} \subseteq PmStatus /\ "killed" \in WorkerStatus
    BY DEF RunStatus, PmStatus, WorkerStatus
  <1>4. CASE LoadAgain(c)
    <2>1. client' \in [Clients -> Operation]
      <3>1. \A pc \in {"archiving", "save"} :
              [client[c] EXCEPT !.pc = pc, !.run = disk] \in Operation
        BY <1>1, <1>2, OperationEdit
      <3>2. QED BY <1>4, <3>1, IdleType DEF LoadAgain, TypeInv, TypeOK
    <2>2. QED BY <1>4, <2>1 DEF LoadAgain, TypeInv, TypeOK, Holder
  <1>5. CASE Approve(c)
    <2>1. [r EXCEPT !.status = "running"] \in Run
      BY <1>1, <1>3, StatusEdit
    <2>2. QED BY <1>2, <1>5, <2>1, PlainCommit DEF Approve
  <1>6. CASE Kill(c)
    <2>1. [r EXCEPT !.w[client[c].t].st = "killed"] \in Run
      BY <1>1, <1>3, EntryEdit
    <2>2. QED BY <1>2, <1>6, <2>1, PlainCommit DEF Kill
  <1>7. CASE KillAsync(c)
    <2>1. [r EXCEPT !.w[client[c].t].st = "killed"] \in Run
      BY <1>1, <1>3, EntryEdit
    <2>2. QED BY <1>2, <1>7, <2>1, PlainCommit DEF KillAsync
  <1>8. CASE Cancel(c)
    BY <1>1, <1>2, <1>8, CancelledType, PlainCommit DEF Cancel
  <1>9. CASE Delete(c)
    <2>1. disk' \in Run
      BY <1>1, <1>3, <1>9, StatusEdit DEF Delete
    <2>2. client' \in [Clients -> Operation]
      <3>1. [client[c] EXCEPT !.pc = "checked"] \in Operation
        BY <1>1, OperationEdit
      <3>2. QED BY <1>9, <3>1, IdleType DEF Delete, TypeInv, TypeOK
    <2>3. QED BY <1>9, <2>1, <2>2 DEF Delete, TypeInv, TypeOK, Holder
  <1>10. CASE Archive(c)
    <2>1. disk' \in Run
      BY <1>1, <1>3, <1>10, StatusEdit DEF Archive
    <2>2. client' \in [Clients -> Operation]
      BY <1>10, IdleType DEF Archive, TypeInv, TypeOK
    <2>3. QED BY <1>10, <2>1, <2>2 DEF Archive, TypeInv, TypeOK, Holder
  <1>11. CASE Reopen(c)
    BY <1>2, <1>11, NewRunType, PlainCommit DEF Reopen
  <1>12. CASE Resume(c)
    BY <1>1, <1>2, <1>12, ResumedType, PlainCommit DEF Resume
  <1>13. CASE StartMerge(c)
    <2>1. disk' \in Run
      BY <1>1, <1>3, <1>13, StatusEdit DEF StartMerge
    <2>2. client' \in [Clients -> Operation]
      <3>1. [client[c] EXCEPT !.pc = "merging"] \in Operation
        BY <1>1, OperationEdit
      <3>2. QED BY <1>13, <3>1 DEF StartMerge, TypeInv, TypeOK
    <2>3. QED BY <1>13, <2>1, <2>2 DEF StartMerge, TypeInv, TypeOK, Holder
  <1>14. CASE FinishMerge(c)
    <2>1. disk' \in Run
      BY <1>1, <1>3, <1>14, StatusEdit DEF FinishMerge
    <2>2. client' \in [Clients -> Operation]
      BY <1>14, IdleType DEF FinishMerge, TypeInv, TypeOK
    <2>3. QED BY <1>14, <2>1, <2>2 DEF FinishMerge, TypeInv, TypeOK, Holder
  <1>15. CASE SpawnPm(c)
    <2>1. [r EXCEPT !.pm = "running"] \in Run
      BY <1>1, <1>3, PmEdit
    <2>2. pms' \in Nat
      BY <1>2, <1>15 DEF SpawnPm
    <2>3. QED BY <1>15, <2>1, <2>2, PlainCommit DEF SpawnPm
  <1>16. CASE SavePmExit(c)
    <2>1. [r EXCEPT !.pm = "failed"] \in Run
      BY <1>1, <1>3, PmEdit
    <2>2. QED BY <1>2, <1>16, <2>1, PlainCommit DEF SavePmExit
  <1>17. CASE BeginRecover(c)
    <2>1. [kind |-> "recover", pc |-> "save", t |-> NoTask, run |-> disk] \in Operation
      BY <1>2 DEF Operation, OpKinds
    <2>2. client' \in [Clients -> Operation]
      BY <1>17, <2>1 DEF BeginRecover, TypeInv, TypeOK
    <2>3. boot' = FALSE /\ boot' \in BOOLEAN
      BY <1>17, Zenon DEF BeginRecover
    <2>4. QED BY <1>17, <2>2, <2>3 DEF BeginRecover, TypeInv, TypeOK, Holder
  <1>18. CASE Recover(c)
    <2>1. Recovered(r, pms > 0) \in Run
      BY <1>1, RecoveredType
    <2>2. QED BY <1>2, <1>18, <2>1, PlainCommit DEF Recover
  <1>19. QED
    BY <1>4, <1>5, <1>6, <1>7, <1>8, <1>9, <1>10, <1>11, <1>12, <1>13, <1>14, <1>15,
       <1>16, <1>17, <1>18 DEF ClientStep

LEMMA TypeStep == TypeInv /\ [Next]_vars => TypeInv'
  <1> SUFFICES ASSUME TypeInv, [Next]_vars PROVE TypeInv'
    OBVIOUS
  <1>1. ASSUME NEW t \in Tasks, NEW k \in Attempts, SessionStep(t, k) PROVE TypeInv'
    BY <1>1, SessionTypes
  <1>2. CASE LockStep
    BY <1>2, LockTypes
  <1>3. CASE QueueReports
    <2>1. checks' \in Nat
      BY <1>3 DEF QueueReports, TypeInv, TypeOK
    <2>2. QED BY <1>3, <2>1, QueuedJobs, AppendHead DEF QueueReports, TypeInv, TypeOK, Holder
  <1>4. ASSUME NEW c \in Clients, NEW kind \in OpKinds, NEW t \in Tasks \cup {NoTask},
               Begin(c, kind, t)
        PROVE  TypeInv'
    <2>1. \A pc \in {"checked", "save"} :
            [kind |-> kind, t |-> t, run |-> disk, pc |-> pc] \in Operation
      BY DEF Operation, TypeInv, TypeOK
    <2>2. client' \in [Clients -> Operation]
      BY <1>4, <2>1 DEF Begin, TypeInv, TypeOK
    <2>3. ops' \in 0 .. MaxOps
      BY <1>4, BoundAssumption DEF Begin, TypeInv, TypeOK
    <2>4. QED BY <1>4, <2>2, <2>3 DEF Begin, TypeInv, TypeOK, Holder
  <1>5. CASE Dispatch
    <2>1. ops' \in 0 .. MaxOps
      BY <1>5, BoundAssumption DEF Dispatch, TypeInv, TypeOK
    <2>2. QED BY <1>5, <2>1, QueuedJobs, AppendHead DEF Dispatch, TypeInv, TypeOK, Holder
  <1>6. ASSUME NEW c \in Clients, ClientStep(c) \/ SaveMergeLog(c) PROVE TypeInv'
    <2>1. CASE ClientStep(c)
      BY <2>1, ClientTypes
    <2>2. CASE SaveMergeLog(c)
      <3>1. disk' \in Run
        BY <2>2, CopyType, StatusEdit DEF SaveMergeLog, TypeInv, RunStatus
      <3>2. QED BY <2>2, <3>1 DEF SaveMergeLog, TypeInv, TypeOK, Holder
    <2>3. QED BY <1>6, <2>1, <2>2
  <1>7. ASSUME NEW c \in Clients, PmExit(c) PROVE TypeInv'
    <2>1. [kind |-> "pm_exit", pc |-> "save", t |-> NoTask, run |-> disk] \in Operation
      BY DEF Operation, OpKinds, TypeInv, TypeOK
    <2>2. client' \in [Clients -> Operation]
      BY <1>7, <2>1 DEF PmExit, TypeInv, TypeOK
    <2>3. pms' \in Nat
      BY <1>7 DEF PmExit, TypeInv, TypeOK
    <2>4. QED BY <1>7, <2>2, <2>3 DEF PmExit, TypeInv, TypeOK, Holder
  <1>8. CASE Crash
    <2>1. sess' \in [Tasks \X Attempts -> Session]
      BY <1>8 DEF Crash, TypeInv, TypeOK, Session, SessionPc
    <2>2. /\ job' = NoJob /\ job'.pc = "idle" /\ queue' = <<>>
          /\ client' \in [Clients -> Operation]
      BY <1>8, IdleType DEF Crash, NoJob
    <2>3. crashes' \in 0 .. MaxCrashes /\ checks' \in Nat /\ pms' \in Nat
      BY <1>8, BoundAssumption DEF Crash, TypeInv, TypeOK
    <2>4. boot' \in BOOLEAN
      BY <1>8, Zenon DEF Crash
    <2>5. TypeOK'
      BY <1>8, <2>1, <2>2, <2>3, <2>4, NoJobType DEF Crash, TypeInv, TypeOK
    <2>6. QED BY <2>2, <2>5 DEF TypeInv, Holder
  <1>9. CASE UNCHANGED vars
    BY <1>9 DEF vars, TypeInv, TypeOK, Holder
  <1>10. QED
    BY <1>1, <1>2, <1>3, <1>4, <1>5, <1>6, <1>7, <1>8, <1>9 DEF Next, Rest

(* Every value stays in its type, whatever requests, torn reads and        *)
(* crashes do.                                                             *)
THEOREM TypeCorrect == Spec => []TypeOK
  <1>1. TypeInv => TypeOK
    BY DEF TypeInv
  <1>2. QED BY <1>1, TypeInit, TypeStep, PTL DEF Spec

-----------------------------------------------------------------------------
(* Order.  A stale copy of run.json can be written back at any time, so    *)
(* the argument is about every copy there is: an entry that says done, in  *)
(* whatever copy, names a session that exited cleanly, and no session ever *)
(* takes that back.                                                        *)

Clean == {"done", "validation_failed"}

Earned(w, ss) ==
    \A t \in Tasks :
        w[t].st = "done" => w[t].k \in Attempts /\ ss[<<t, w[t].k>>].st \in Clean

CopiesEarned ==
    /\ Earned(disk.w, sess)
    /\ Earned(job.latest.w, sess)
    /\ Earned(job.run.w, sess)
    /\ \A c \in Clients : Earned(client[c].run.w, sess)

SessionsFit ==
    \A s \in Tasks \X Attempts :
        /\ sess[s].pc = "unused" => sess[s].st = "none"
        /\ sess[s].pc = "live" => sess[s].st \in {"running", "stuck"}

(* An exit that waits for the lock is that of a session that was started. *)
QueueFits ==
    \A i \in 1 .. Len(queue) :
        queue[i].kind = "exit" => sess[<<queue[i].t, queue[i].k>>].pc # "unused"

(* Cleanly exited dependencies, not "done" entries: validation may demote  *)
(* a dependency while the worktree of its dependent is being set up.       *)
SpawnFits ==
    job.pc = "spawn" =>
        /\ job.idx \in 1 .. Len(Order)
        /\ \A d \in Deps[Order[job.idx]] : \E h \in Attempts : sess[<<d, h>>].st \in Clean

OrderInv ==
    /\ TypeInv
    /\ CopiesEarned
    /\ SessionsFit
    /\ QueueFits
    /\ SpawnFits
    /\ DependenciesRanFirst

(* From ss to tt no session forgets a clean exit. *)
KeepsExits(ss, tt) == \A s \in Tasks \X Attempts : ss[s].st \in Clean => tt[s].st \in Clean

KeepsUse(ss, tt) == \A s \in Tasks \X Attempts : (ss[s].pc = "unused") = (tt[s].pc = "unused")

LEMMA EarnedKept ==
  ASSUME NEW w, NEW ss, NEW tt, Earned(w, ss), KeepsExits(ss, tt)
  PROVE  Earned(w, tt)
  BY DEF Earned, KeepsExits

(* A copy whose done entries are done entries of an earned copy. *)
LEMMA EarnedEdit ==
  ASSUME NEW v, NEW w, NEW ss, Earned(v, ss),
         \A t \in Tasks : w[t].st = "done" => v[t].st = "done" /\ w[t].k = v[t].k
  PROVE  Earned(w, ss)
  BY DEF Earned

LEMMA NewRunEarned == \A ss : Earned(NewRun.w, ss)
  BY DEF Earned, NewRun, NoWorker

LEMMA ViewEarned ==
  ASSUME OrderInv
  PROVE  Earned(View(job), sess)
  <1> SUFFICES ASSUME NEW t \in Tasks, View(job)[t].st = "done"
               PROVE  /\ View(job)[t].k \in Attempts
                      /\ sess[<<t, View(job)[t].k>>].st \in Clean
    BY DEF Earned
  <1>1. job.fresh \in [Tasks -> 0 .. MaxAttempts]
    BY DEF OrderInv, TypeInv, TypeOK, JobLocals
  <1>2. CASE job.fresh[t] # 0
    <2>1. View(job)[t] = [st |-> sess[<<t, job.fresh[t]>>].st, k |-> job.fresh[t]]
      BY <1>2 DEF View
    <2>2. job.fresh[t] \in Attempts
      BY <1>1, <1>2, BoundAssumption DEF Attempts
    <2>3. QED BY <2>1, <2>2 DEF Clean
  <1>3. CASE job.fresh[t] = 0
    <2>1. View(job)[t] = job.run.w[t]
      BY <1>3 DEF View
    <2>2. QED BY <2>1 DEF OrderInv, CopiesEarned, Earned
  <1>4. QED BY <1>2, <1>3

LEMMA RecordExitEarned ==
  ASSUME NEW r \in Run, NEW ss, Earned(r.w, ss), NEW t \in Tasks, NEW k \in Attempts
  PROVE  Earned(RecordExit(r, t, [st |-> ss[<<t, k>>].st, k |-> k]).w, ss)
  <1> DEFINE e == [st |-> ss[<<t, k>>].st, k |-> k]
             w == RecordExit(r, t, e).w
  <1>1. \A u \in Tasks : (w[u] = e /\ u = t) \/ w[u] = Blocked \/ w[u] = r.w[u]
    BY DEF RecordExit, Run
  <1>2. ASSUME NEW u \in Tasks, w[u].st = "done"
        PROVE  w[u].k \in Attempts /\ ss[<<u, w[u].k>>].st \in Clean
    <2>1. CASE w[u] = e /\ u = t
      BY <1>2, <2>1 DEF Clean
    <2>2. CASE w[u] = Blocked
      BY <1>2, <2>2 DEF Blocked
    <2>3. CASE w[u] = r.w[u]
      BY <1>2, <2>3 DEF Earned
    <2>4. QED BY <1>1, <2>1, <2>2, <2>3
  <1>3. QED BY <1>2 DEF Earned

(* What a step leaves intact that neither starts a session nor makes one   *)
(* forget how it ended.                                                    *)
LEMMA NoNewSession ==
  ASSUME OrderInv, KeepsExits(sess, sess'), KeepsUse(sess, sess')
  PROVE  /\ DependenciesRanFirst'
         /\ \A w : Earned(w, sess) => Earned(w, sess')
         /\ queue' = queue => QueueFits'
         /\ (queue # <<>> /\ queue' = Tail(queue)) => QueueFits'
         /\ UNCHANGED job => SpawnFits'
  <1>1. DependenciesRanFirst'
    <2> SUFFICES ASSUME NEW t \in Tasks, NEW k \in Attempts, sess'[<<t, k>>].pc # "unused",
                        NEW d \in Deps[t]
                 PROVE  \E h \in Attempts : sess'[<<d, h>>].st \in Clean
      BY DEF DependenciesRanFirst, ExitedCleanly, Clean
    <2>1. sess[<<t, k>>].pc # "unused" /\ d \in Tasks
      BY PlanAssumption DEF KeepsUse
    <2>2. PICK h \in Attempts : sess[<<d, h>>].st \in Clean
      BY <2>1 DEF OrderInv, DependenciesRanFirst, ExitedCleanly, Clean
    <2>3. QED BY <2>1, <2>2 DEF KeepsExits
  <1>2. \A w : Earned(w, sess) => Earned(w, sess')
    BY EarnedKept
  <1>3. \A i \in 1 .. Len(queue) :
          queue[i].kind = "exit" => sess'[<<queue[i].t, queue[i].k>>].pc # "unused"
    <2> SUFFICES ASSUME NEW i \in 1 .. Len(queue), queue[i].kind = "exit"
                 PROVE  sess'[<<queue[i].t, queue[i].k>>].pc # "unused"
      OBVIOUS
    <2>1. queue[i] \in Job
      BY DEF OrderInv, TypeInv, TypeOK
    <2>2. queue[i].t \in Tasks /\ queue[i].k \in Attempts
      BY <2>1 DEF Job
    <2>3. QED BY <2>2 DEF OrderInv, QueueFits, KeepsUse
  <1>4. queue' = queue => QueueFits'
    BY <1>3 DEF QueueFits
  <1>5. ASSUME queue # <<>>, queue' = Tail(queue) PROVE QueueFits'
    <2>1. /\ Len(queue') = Len(queue) - 1
          /\ \A i \in 1 .. Len(queue') : queue'[i] = queue[i + 1]
          /\ Len(queue) \in Nat
      BY <1>5, HeadTailProperties DEF OrderInv, TypeInv, TypeOK
    <2>2. QED BY <1>3, <2>1 DEF QueueFits
  <1>6. ASSUME UNCHANGED job PROVE SpawnFits'
    <2> SUFFICES ASSUME job.pc = "spawn"
                 PROVE  \A d \in Deps[Order[job.idx]] :
                          \E h \in Attempts : sess'[<<d, h>>].st \in Clean
      BY <1>6 DEF SpawnFits, OrderInv
    <2>1. Order[job.idx] \in Tasks
      BY PlanAssumption DEF OrderInv, SpawnFits
    <2>2. QED BY <2>1, PlanAssumption DEF OrderInv, SpawnFits, KeepsExits
  <1>7. QED BY <1>1, <1>2, <1>4, <1>5, <1>6

LEMMA OrderInit == Init => OrderInv
  <1> SUFFICES ASSUME Init PROVE OrderInv
    OBVIOUS
  <1>1. CopiesEarned
    BY NewRunEarned DEF Init, CopiesEarned, NoJob, Idle
  <1>2. SessionsFit /\ DependenciesRanFirst
    BY DEF Init, SessionsFit, DependenciesRanFirst
  <1>3. QueueFits /\ SpawnFits
    BY DEF Init, QueueFits, SpawnFits, NoJob
  <1>4. QED BY <1>1, <1>2, <1>3, TypeInit DEF OrderInv

LEMMA QueueAppend ==
  ASSUME OrderInv, KeepsUse(sess, sess'), NEW j \in Job, queue' = Append(queue, j),
         j.kind = "exit" => sess'[<<j.t, j.k>>].pc # "unused"
  PROVE  QueueFits'
  <1>1. queue \in Seq(Job) /\ Len(queue) \in Nat
    BY DEF OrderInv, TypeInv, TypeOK
  <1>2. /\ Len(queue') = Len(queue) + 1
        /\ \A i \in 1 .. Len(queue) : queue'[i] = queue[i]
        /\ queue'[Len(queue) + 1] = j
    BY <1>1, AppendProperties
  <1>3. SUFFICES ASSUME NEW i \in 1 .. Len(queue'), queue'[i].kind = "exit"
                 PROVE  sess'[<<queue'[i].t, queue'[i].k>>].pc # "unused"
    BY DEF QueueFits
  <1>4. CASE i = Len(queue) + 1
    BY <1>2, <1>3, <1>4
  <1>5. CASE i # Len(queue) + 1
    <2>1. i \in 1 .. Len(queue) /\ queue'[i] = queue[i]
      BY <1>1, <1>2, <1>5
    <2>2. queue[i] \in Job
      BY <1>1, <2>1
    <2>3. queue[i].t \in Tasks /\ queue[i].k \in Attempts
      BY <1>3, <2>1, <2>2 DEF Job
    <2>4. sess[<<queue[i].t, queue[i].k>>].pc # "unused"
      BY <1>3, <2>1 DEF OrderInv, QueueFits
    <2>5. QED BY <2>1, <2>3, <2>4 DEF KeepsUse
  <1>6. QED BY <1>4, <1>5

LEMMA SessionOrder ==
  ASSUME OrderInv, NEW t \in Tasks, NEW k \in Attempts, SessionStep(t, k)
  PROVE  OrderInv'
  <1>1. TypeInv'
    BY SessionTypes DEF OrderInv
  <1>2. /\ sess \in [Tasks \X Attempts -> Session]
        /\ sess[<<t, k>>].pc = "live" => sess[<<t, k>>].st \in {"running", "stuck"}
    BY DEF OrderInv, TypeInv, TypeOK, SessionsFit
  <1>3. PICK p \in {"live", "validating", "queued"}, st \in WorkerStatus :
          /\ sess' = [sess EXCEPT ![<<t, k>>] = [pc |-> p, st |-> st]]
          /\ sess[<<t, k>>].pc # "unused"
          /\ p = "live" => st = "stuck"
          /\ sess[<<t, k>>].st \in Clean => st \in Clean
          /\ \/ UNCHANGED queue
             \/ p = "queued" /\ queue' = Append(queue, [kind |-> "exit", t |-> t, k |-> k])
    <2>1. CASE Stall(t, k)
      <3>1. [sess[<<t, k>>] EXCEPT !.st = "stuck"] = [pc |-> "live", st |-> "stuck"]
        BY <1>2, <2>1 DEF Stall, Session
      <3>2. QED BY <2>1, <3>1 DEF Stall, WorkerStatus, Clean
    <2>2. CASE ExitClean(t, k)
      BY <2>2 DEF ExitClean, WorkerStatus, Clean
    <2>3. CASE ExitError(t, k)
      <3>1. \E st \in {"stuck", "failed"} :
              sess' = [sess EXCEPT ![<<t, k>>] = [pc |-> "queued", st |-> st]]
        BY <2>3 DEF ExitError
      <3>2. QED BY <1>2, <2>3, <3>1 DEF ExitError, WorkerStatus, Clean
    <2>4. CASE Validate(t, k)
      BY <2>4 DEF Validate, WorkerStatus, Clean
    <2>5. QED BY <2>1, <2>2, <2>3, <2>4 DEF SessionStep
  <1>4. KeepsExits(sess, sess') /\ KeepsUse(sess, sess')
    BY <1>2, <1>3 DEF KeepsExits, KeepsUse
  <1>5. SessionsFit'
    BY <1>2, <1>3 DEF SessionsFit, OrderInv
  <1>6. QueueFits'
    <2>1. CASE UNCHANGED queue
      BY <1>4, <2>1, NoNewSession
    <2>2. CASE queue' = Append(queue, [kind |-> "exit", t |-> t, k |-> k])
      <3>1. sess'[<<t, k>>].pc # "unused"
        BY <1>2, <1>3
      <3>2. QED BY <1>4, <2>2, <3>1, QueueAppend, QueuedJobs
    <2>3. QED BY <1>3, <2>1, <2>2
  <1>7. UNCHANGED <<disk, job, client>>
    BY DEF SessionStep, Stall, ExitClean, ExitError, Validate
  <1>8. CopiesEarned'
    BY <1>4, <1>7, NoNewSession DEF OrderInv, CopiesEarned
  <1>9. QED BY <1>1, <1>4, <1>5, <1>6, <1>7, <1>8, NoNewSession DEF OrderInv

(* A job that starts no session. *)
LEMMA LockFrame ==
  ASSUME OrderInv, TypeInv', KeepsExits(sess, sess'), KeepsUse(sess, sess'), SessionsFit',
         UNCHANGED client,
         queue' = queue \/ (queue # <<>> /\ queue' = Tail(queue)),
         Earned(disk'.w, sess), Earned(job'.latest.w, sess), Earned(job'.run.w, sess),
         SpawnFits'
  PROVE  OrderInv'
  <1>1. CopiesEarned'
    BY NoNewSession DEF OrderInv, CopiesEarned
  <1>2. QED BY <1>1, NoNewSession DEF OrderInv

(* An operation: no session and no job moves. *)
LEMMA ClientFrame ==
  ASSUME OrderInv, TypeInv', UNCHANGED <<sess, job>>,
         \/ UNCHANGED queue
         \/ \E j \in {DispatchJob, ConflictsJob} : queue' = Append(queue, j),
         Earned(disk'.w, sess), \A c \in Clients : Earned(client'[c].run.w, sess)
  PROVE  OrderInv'
  <1>1. KeepsExits(sess, sess') /\ KeepsUse(sess, sess')
    BY DEF KeepsExits, KeepsUse
  <1>2. QueueFits'
    BY <1>1, QueueAppend, QueuedJobs, NoNewSession DEF DispatchJob, ConflictsJob
  <1>3. CopiesEarned' /\ SessionsFit'
    BY DEF OrderInv, CopiesEarned, SessionsFit
  <1>4. QED BY <1>1, <1>2, <1>3, NoNewSession DEF OrderInv

LEMMA ReleaseOrder ==
  ASSUME Release
  PROVE  /\ queue' = Tail(queue)
         /\ \A ss : Earned(job'.latest.w, ss) /\ Earned(job'.run.w, ss)
         /\ SpawnFits'
  BY NewRunEarned DEF Release, NoJob, SpawnFits

LEMMA DispatchReturnOrder ==
  ASSUME OrderInv, queue # <<>>, DispatchReturn
  PROVE  /\ queue' = queue \/ queue' = Tail(queue)
         /\ Earned(job'.latest.w, sess) /\ Earned(job'.run.w, sess)
         /\ SpawnFits'
  <1>1. CASE Head(queue).kind = "exit"
    <2>1. queue' = queue /\ job' = [NoJob EXCEPT !.pc = "finish", !.latest = job.latest]
      BY <1>1 DEF DispatchReturn
    <2>2. job'.pc = "finish" /\ job'.latest = job.latest /\ job'.run = NewRun
      BY <2>1 DEF NoJob
    <2>3. QED BY <2>1, <2>2, NewRunEarned DEF OrderInv, CopiesEarned, SpawnFits
  <1>2. CASE Head(queue).kind # "exit"
    BY <1>2, ReleaseOrder DEF DispatchReturn
  <1>3. QED BY <1>1, <1>2

(* The exit at the head of the queue is recorded: its session was started. *)
LEMMA SettleOrder ==
  ASSUME OrderInv, queue # <<>>, Head(queue).kind = "exit",
         sess' = [sess EXCEPT ![<<Head(queue).t, Head(queue).k>>].pc = "settled"]
  PROVE  KeepsExits(sess, sess') /\ KeepsUse(sess, sess') /\ SessionsFit'
  <1>1. queue \in Seq(Job) /\ sess \in [Tasks \X Attempts -> Session]
    BY DEF OrderInv, TypeInv, TypeOK
  <1>2. Head(queue) = queue[1] /\ 1 \in 1 .. Len(queue)
    BY <1>1, HeadTailProperties
  <1>3. Head(queue).t \in Tasks /\ Head(queue).k \in Attempts
    BY <1>1, HeadIsJob
  <1>4. sess[<<Head(queue).t, Head(queue).k>>].pc # "unused"
    BY <1>2 DEF OrderInv, QueueFits
  <1>5. \A s \in Tasks \X Attempts :
          /\ sess'[s].st = sess[s].st
          /\ sess'[s].pc = IF s = <<Head(queue).t, Head(queue).k>> THEN "settled" ELSE sess[s].pc
    BY <1>1, <1>3 DEF Session
  <1>6. QED BY <1>4, <1>5 DEF KeepsExits, KeepsUse, SessionsFit, OrderInv

(* A pass settles on a task only after its dependencies exited cleanly. *)
LEMMA PickOrder ==
  ASSUME OrderInv, PickTask
  PROVE  /\ job'.latest = job.latest /\ job'.run = job.run
         /\ SpawnFits'
  <1>1. job \in JobLocals /\ Len(Order) \in Nat
    BY PlanAssumption DEF OrderInv, TypeInv, TypeOK
  <1>2. CASE job' = [job EXCEPT !.pc = "store"]
    BY <1>1, <1>2 DEF JobLocals, SpawnFits
  <1>3. ASSUME NEW i \in ReadyAt(job), job' = [job EXCEPT !.pc = "spawn", !.idx = i]
        PROVE  /\ job'.latest = job.latest /\ job'.run = job.run
               /\ SpawnFits'
    <2>1. /\ i \in 1 .. Len(Order) /\ Order[i] \in Tasks
          /\ \A d \in Deps[Order[i]] : View(job)[d].st = "done"
      BY <1>1, PlanAssumption DEF ReadyAt, JobLocals
    <2>2. ASSUME NEW d \in Deps[Order[i]]
          PROVE  \E h \in Attempts : sess[<<d, h>>].st \in Clean
      <3>1. d \in Tasks
        BY <2>1, PlanAssumption
      <3>2. QED BY <2>1, <3>1, ViewEarned DEF Earned
    <2>3. /\ job'.latest = job.latest /\ job'.run = job.run
          /\ job'.idx = i
      BY <1>1, <1>3 DEF JobLocals
    <2>4. UNCHANGED sess
      BY DEF PickTask
    <2>5. QED BY <2>1, <2>2, <2>3, <2>4 DEF SpawnFits
  <1>4. QED BY <1>2, <1>3 DEF PickTask

(* The one step that starts a session. *)
LEMMA SpawnOrder ==
  ASSUME OrderInv, TypeInv', SpawnWorker
  PROVE  OrderInv'
  <1> DEFINE t == Order[job.idx]
  <1>1. /\ job.idx \in 1 .. Len(Order) /\ t \in Tasks
        /\ \A d \in Deps[t] : \E h \in Attempts : sess[<<d, h>>].st \in Clean
    <2>1. job.pc = "spawn"
      BY DEF SpawnWorker
    <2>2. /\ job.idx \in 1 .. Len(Order)
          /\ \A d \in Deps[t] : \E h \in Attempts : sess[<<d, h>>].st \in Clean
      BY <2>1 DEF OrderInv, SpawnFits
    <2>3. QED BY <2>2, PlanAssumption
  <1>2. PICK k \in Attempts :
          /\ sess[<<t, k>>].pc = "unused"
          /\ sess' = [sess EXCEPT ![<<t, k>>] = [pc |-> "live", st |-> "running"]]
          /\ job' = [job EXCEPT !.pc = "pick", !.idx = @ + 1, !.fresh[t] = k]
    <2>1. PICK k \in Attempts :
            /\ \A h \in Attempts : sess[<<t, h>>].pc = "unused" <=> h >= k
            /\ sess' = [sess EXCEPT ![<<t, k>>] = [pc |-> "live", st |-> "running"]]
            /\ job' = [job EXCEPT !.pc = "pick", !.idx = @ + 1, !.fresh[t] = k]
      BY DEF SpawnWorker
    <2>2. k >= k
      BY DEF Attempts
    <2>3. QED BY <2>1, <2>2
  <1>3. job \in JobLocals /\ sess \in [Tasks \X Attempts -> Session]
    BY DEF OrderInv, TypeInv, TypeOK
  <1>4. job'.latest = job.latest /\ job'.run = job.run /\ job'.pc = "pick"
    BY <1>2, <1>3 DEF JobLocals
  <1>5. sess[<<t, k>>].st = "none"
    BY <1>1, <1>2 DEF OrderInv, SessionsFit
  <1>6. \A s \in Tasks \X Attempts :
          sess'[s] = IF s = <<t, k>> THEN [pc |-> "live", st |-> "running"] ELSE sess[s]
    BY <1>2, <1>3
  <1>7. KeepsExits(sess, sess')
    BY <1>5, <1>6 DEF KeepsExits, Clean
  <1>8. UNCHANGED <<disk, queue, client>>
    BY DEF SpawnWorker
  <1>9. CopiesEarned'
    <2>1. \A w : Earned(w, sess) => Earned(w, sess')
      BY <1>7, EarnedKept
    <2>2. QED BY <1>4, <1>8, <2>1 DEF OrderInv, CopiesEarned
  <1>10. SessionsFit'
    BY <1>6 DEF SessionsFit, OrderInv
  <1>11. QueueFits'
    <2> SUFFICES ASSUME NEW i \in 1 .. Len(queue), queue[i].kind = "exit"
                 PROVE  sess'[<<queue[i].t, queue[i].k>>].pc # "unused"
      BY <1>8 DEF QueueFits
    <2>1. queue[i] \in Job
      BY DEF OrderInv, TypeInv, TypeOK
    <2>2. <<queue[i].t, queue[i].k>> \in Tasks \X Attempts
      BY <2>1 DEF Job
    <2>3. QED BY <1>6, <2>2 DEF OrderInv, QueueFits
  <1>12. SpawnFits'
    BY <1>4 DEF SpawnFits
  <1>13. DependenciesRanFirst'
    <2> SUFFICES ASSUME NEW u \in Tasks, NEW h \in Attempts, sess'[<<u, h>>].pc # "unused",
                        NEW d \in Deps[u]
                 PROVE  \E g \in Attempts : sess'[<<d, g>>].st \in Clean
      BY DEF DependenciesRanFirst, ExitedCleanly, Clean
    <2>1. d \in Tasks
      BY PlanAssumption
    <2>2. \E g \in Attempts : sess[<<d, g>>].st \in Clean
      <3>1. CASE <<u, h>> = <<t, k>>
        BY <1>1, <3>1
      <3>2. CASE <<u, h>> # <<t, k>>
        BY <1>6, <3>2 DEF OrderInv, DependenciesRanFirst, ExitedCleanly, Clean
      <3>3. QED BY <3>1, <3>2
    <2>3. QED BY <1>7, <2>1, <2>2 DEF KeepsExits
  <1>14. QED BY <1>9, <1>10, <1>11, <1>12, <1>13 DEF OrderInv

LEMMA LockOrder ==
  ASSUME OrderInv, LockStep
  PROVE  OrderInv'
  <1>1. TypeInv'
    BY LockTypes DEF OrderInv
  <1>2. /\ disk \in Run /\ job \in JobLocals /\ queue \in Seq(Job)
        /\ Earned(disk.w, sess) /\ Earned(job.latest.w, sess) /\ Earned(job.run.w, sess)
        /\ SessionsFit /\ SpawnFits
    BY DEF OrderInv, TypeInv, TypeOK, CopiesEarned
  <1>3. LockFree \/ job.pc # "idle" => queue # <<>>
    BY DEF LockFree, Holder, OrderInv, TypeInv
  <1>4. UNCHANGED sess => KeepsExits(sess, sess') /\ KeepsUse(sess, sess') /\ SessionsFit'
    BY <1>2 DEF KeepsExits, KeepsUse, SessionsFit
  <1>5. CASE StartExit
    <2> DEFINE t == Head(queue).t  k == Head(queue).k
               r == RecordExit(disk, t, [st |-> sess[<<t, k>>].st, k |-> k])
    <2>1. t \in Tasks /\ k \in Attempts
      BY <1>2, <1>5, HeadIsJob DEF StartExit, LockFree
    <2>2. Earned(r.w, sess)
      BY <1>2, <2>1, RecordExitEarned
    <2>3. job' = [job EXCEPT !.pc = "record", !.latest = r]
      BY <1>5 DEF StartExit
    <2>4. job'.latest = r /\ job'.run = job.run /\ job'.pc = "record"
      BY <1>2, <2>3 DEF JobLocals
    <2>5. UNCHANGED <<disk, sess, queue, client>>
      BY <1>5 DEF StartExit
    <2>6. QED BY <1>1, <1>2, <1>4, <2>2, <2>4, <2>5, LockFrame DEF SpawnFits
  <1>6. CASE SaveExit
    <2>1. queue # <<>> /\ Head(queue).kind = "exit"
      BY <1>3, <1>6 DEF SaveExit, OrderInv, TypeInv, Holder
    <2>2. KeepsExits(sess, sess') /\ KeepsUse(sess, sess') /\ SessionsFit'
      BY <1>6, <2>1, SettleOrder DEF SaveExit
    <2>3. job'.latest = job.latest /\ job'.run = job.run /\ job'.pc # "spawn"
      BY <1>2, <1>6 DEF SaveExit, JobLocals
    <2>4. disk' = job.latest /\ UNCHANGED <<queue, client>>
      BY <1>6 DEF SaveExit
    <2>5. QED BY <1>1, <1>2, <2>2, <2>3, <2>4, LockFrame DEF SpawnFits
  <1>7. CASE TornLoad
    <2>1. queue # <<>>
      BY <1>3, <1>7 DEF TornLoad
    <2>2. KeepsExits(sess, sess') /\ KeepsUse(sess, sess') /\ SessionsFit'
      BY <1>4, <1>7, <2>1, SettleOrder DEF TornLoad
    <2>3. /\ queue' = queue \/ queue' = Tail(queue)
          /\ Earned(job'.latest.w, sess) /\ Earned(job'.run.w, sess)
          /\ SpawnFits'
      BY <1>7, <2>1, ReleaseOrder, DispatchReturnOrder DEF TornLoad
    <2>4. UNCHANGED <<disk, client>>
      BY <1>7 DEF TornLoad
    <2>5. QED BY <1>1, <1>2, <2>1, <2>2, <2>3, <2>4, LockFrame
  <1>8. CASE LoadForDispatch
    <2>1. queue # <<>> /\ UNCHANGED <<disk, sess, client>>
      BY <1>3, <1>8 DEF LoadForDispatch, AtDispatch
    <2>2. CASE disk.status = "running"
      <3>1. job' = [job EXCEPT !.pc = "pick", !.run = disk] /\ queue' = queue
        BY <1>8, <2>2 DEF LoadForDispatch
      <3>2. job'.latest = job.latest /\ job'.run = disk /\ job'.pc = "pick"
        BY <1>2, <3>1 DEF JobLocals
      <3>3. QED BY <1>1, <1>2, <1>4, <2>1, <3>1, <3>2, LockFrame DEF SpawnFits
    <2>3. CASE disk.status # "running"
      <3>1. DispatchReturn
        BY <1>8, <2>3 DEF LoadForDispatch
      <3>2. QED BY <1>1, <1>2, <1>4, <2>1, <3>1, DispatchReturnOrder, LockFrame
    <2>4. QED BY <2>2, <2>3
  <1>9. CASE PickTask
    <2>1. UNCHANGED <<disk, sess, queue, client>>
      BY <1>9 DEF PickTask
    <2>2. QED BY <1>1, <1>2, <1>4, <1>9, <2>1, PickOrder, LockFrame
  <1>10. CASE SpawnWorker
    BY <1>1, <1>10, SpawnOrder
  <1>11. CASE SpawnError
    <2>1. job'.latest = job.latest /\ job'.run = job.run /\ job'.pc = "pick"
      BY <1>2, <1>11 DEF SpawnError, JobLocals
    <2>2. UNCHANGED <<disk, sess, queue, client>>
      BY <1>11 DEF SpawnError
    <2>3. QED BY <1>1, <1>2, <1>4, <2>1, <2>2, LockFrame DEF SpawnFits
  <1>12. CASE SaveDispatch
    <2>1. queue # <<>> /\ DispatchReturn /\ UNCHANGED <<sess, client>>
      BY <1>3, <1>12 DEF SaveDispatch
    <2>2. Earned(disk'.w, sess)
      <3>1. disk' = disk \/ disk' = [job.run EXCEPT !.w = View(job)]
        BY <1>12 DEF SaveDispatch
      <3>2. [job.run EXCEPT !.w = View(job)].w = View(job)
        BY <1>2 DEF JobLocals, Run
      <3>3. QED BY <1>2, <3>1, <3>2, ViewEarned
    <2>3. QED BY <1>1, <1>4, <2>1, <2>2, DispatchReturnOrder, LockFrame
  <1>13. CASE FinishExit
    <2>1. queue # <<>> /\ Release /\ UNCHANGED <<sess, client>>
      BY <1>3, <1>13 DEF FinishExit
    <2>2. disk'.w \in {disk.w, job.latest.w}
      BY <1>2, <1>13 DEF FinishExit, JobLocals, Run
    <2>3. QED BY <1>1, <1>2, <1>4, <2>1, <2>2, ReleaseOrder, LockFrame
  <1>14. CASE LoadForReports
    <2>1. job'.latest = disk /\ job'.run = job.run /\ job'.pc = "reports"
      BY <1>2, <1>14 DEF LoadForReports, JobLocals
    <2>2. UNCHANGED <<disk, sess, queue, client>>
      BY <1>14 DEF LoadForReports
    <2>3. QED BY <1>1, <1>2, <1>4, <2>1, <2>2, LockFrame DEF SpawnFits
  <1>15. CASE SaveReports
    <2>1. queue # <<>> /\ Release /\ UNCHANGED <<sess, client>> /\ disk' = job.latest
      BY <1>3, <1>15 DEF SaveReports
    <2>2. QED BY <1>1, <1>2, <1>4, <2>1, ReleaseOrder, LockFrame
  <1>16. QED
    BY <1>5, <1>6, <1>7, <1>8, <1>9, <1>10, <1>11, <1>12, <1>13, <1>14, <1>15 DEF LockStep

(* What an operation may write: entries of run.json, of its own copy, or   *)
(* fresh ones, and in their place entries that say neither running nor     *)
(* done.                                                                   *)
LEMMA ClientEdits ==
  ASSUME TypeInv, NEW c \in Clients, ClientStep(c) \/ SaveMergeLog(c)
  PROVE  \E v \in {disk, Copy(c), NewRun} :
           \A t \in Tasks : disk'.w[t] = v.w[t] \/ disk'.w[t].st \notin {"running", "done"}
  <1> DEFINE r == Copy(c)
             Edit(v) == \A t \in Tasks : \/ disk'.w[t] = v.w[t]
                                        \/ disk'.w[t].st \notin {"running", "done"}
  <1>1. r \in Run /\ r.w \in [Tasks -> Entry] /\ disk \in Run
    BY CopyType DEF TypeInv, TypeOK, Run
  <1>2. CASE LoadAgain(c) \/ BeginRecover(c)
    BY <1>2 DEF LoadAgain, BeginRecover
  <1>3. CASE Kill(c) \/ KillAsync(c)
    <2>1. disk' = [r EXCEPT !.w[client[c].t].st = "killed"]
      BY <1>3 DEF Kill, KillAsync, Commit
    <2>2. disk'.w = [r.w EXCEPT ![client[c].t].st = "killed"]
      BY <1>1, <2>1 DEF Run
    <2>3. Edit(r)
      BY <1>1, <2>2 DEF Entry
    <2>4. QED BY <2>3
  <1>4. CASE Cancel(c)
    <2>1. disk'.w = [t \in Tasks |-> [r.w[t] EXCEPT !.st = Killed(@)]]
      BY <1>4 DEF Cancel, Commit
    <2>2. ASSUME NEW t \in Tasks, r.w[t].st # "running" PROVE disk'.w[t] = r.w[t]
      BY <1>1, <2>1, <2>2 DEF Entry, Killed
    <2>3. ASSUME NEW t \in Tasks, r.w[t].st = "running" PROVE disk'.w[t].st = "killed"
      BY <1>1, <2>1, <2>3 DEF Entry, Killed
    <2>4. Edit(r)
      BY <2>2, <2>3
    <2>5. QED BY <2>4
  <1>5. CASE \E st : disk' = [r EXCEPT !.status = st]
    <2>1. disk'.w = r.w
      BY <1>1, <1>5 DEF Run
    <2>2. QED BY <2>1
  <1>6. CASE SpawnPm(c) \/ SavePmExit(c)
    <2>1. disk'.w = r.w
      BY <1>1, <1>6 DEF SpawnPm, SavePmExit, Commit, Run
    <2>2. QED BY <2>1
  <1>7. CASE Reopen(c)
    BY <1>7 DEF Reopen, Commit
  <1>8. CASE Resume(c)
    <2>1. PICK D : disk' = [r EXCEPT !.status = "running",
                                     !.w = [t \in Tasks |->
                                       IF r.w[t].st = "interrupted" \/ t \in D
                                       THEN NoWorker ELSE r.w[t]]]
      BY <1>8 DEF Resume, Commit
    <2>2. disk'.w = [t \in Tasks |-> IF r.w[t].st = "interrupted" \/ t \in D
                                     THEN NoWorker ELSE r.w[t]]
      BY <1>1, <2>1 DEF Run
    <2>3. Edit(r)
      BY <2>2 DEF NoWorker
    <2>4. QED BY <2>3
  <1>9. CASE Recover(c)
    <2> DEFINE f == Recovered(r, pms > 0)
    <2>1. disk' = disk \/ disk' = f
      BY <1>9 DEF Recover, Commit
    <2>2. f.w = [t \in Tasks |->
                  IF r.w[t].st = "running" /\ ~IsAlive(t, r.w[t].k)
                  THEN [r.w[t] EXCEPT !.st = "interrupted"] ELSE r.w[t]]
      BY DEF Recovered
    <2>3. \A t \in Tasks : f.w[t] = r.w[t] \/ f.w[t].st = "interrupted"
      BY <1>1, <2>2 DEF Entry
    <2>4. disk' = f => Edit(r)
      BY <2>3
    <2>5. QED BY <2>1, <2>4
  <1>10. Approve(c) \/ Delete(c) \/ Archive(c) \/ StartMerge(c) \/ FinishMerge(c)
           \/ SaveMergeLog(c) => \E st : disk' = [r EXCEPT !.status = st]
    BY DEF Approve, Delete, Archive, StartMerge, FinishMerge, SaveMergeLog, Commit
  <1>11. QED
    BY <1>2, <1>3, <1>4, <1>5, <1>6, <1>7, <1>8, <1>9, <1>10 DEF ClientStep

(* What an operation remembers: the copy it had, one it has just taken, or *)
(* nothing.                                                                *)
LEMMA ClientCopies ==
  ASSUME TypeInv, NEW c \in Clients, ClientStep(c) \/ SaveMergeLog(c)
  PROVE  \A b \in Clients : client'[b].run \in {client[b].run, disk, NewRun}
  <1>1. client \in [Clients -> Operation] /\ Idle.run = NewRun
    BY DEF TypeInv, TypeOK, Idle
  <1>2. CASE LoadAgain(c)
    <2>1. \A b \in Clients : b # c => client'[b] = client[b]
      BY <1>1, <1>2 DEF LoadAgain
    <2>2. client'[c] = Idle \/ client'[c].run = disk
      BY <1>1, <1>2 DEF LoadAgain, Operation
    <2>3. QED BY <1>1, <2>1, <2>2
  <1>3. CASE Delete(c) \/ StartMerge(c)
    <2>1. \A b \in Clients : client'[b] = client[b] \/ client'[b] = Idle
                             \/ client'[b].run = client[b].run
      BY <1>1, <1>3 DEF Delete, StartMerge, Operation
    <2>2. QED BY <1>1, <2>1
  <1>4. CASE BeginRecover(c)
    BY <1>1, <1>4 DEF BeginRecover
  <1>5. CASE client' = client \/ client' = [client EXCEPT ![c] = Idle]
    BY <1>1, <1>5
  <1>6. QED
    BY <1>2, <1>3, <1>4, <1>5
    DEF ClientStep, SaveMergeLog, Approve, Kill, KillAsync, Cancel, Archive, Reopen, Resume,
        FinishMerge, SpawnPm, SavePmExit, Recover, Commit

LEMMA ClientQueue ==
  ASSUME NEW c \in Clients, ClientStep(c) \/ SaveMergeLog(c)
  PROVE  UNCHANGED <<sess, job>> /\ (UNCHANGED queue \/ queue' = Append(queue, DispatchJob))
  BY DEF ClientStep, LoadAgain, Approve, Kill, KillAsync, Cancel, Delete, Archive, Reopen,
         Resume, StartMerge, FinishMerge, SpawnPm, SavePmExit, BeginRecover, Recover,
         SaveMergeLog

(* A request that arrives and a PM session that ends copy run.json. *)
LEMMA NewCopies ==
  ASSUME TypeInv, NEW c \in Clients,
         PmExit(c) \/ \E kind \in OpKinds, t \in Tasks \cup {NoTask} : Begin(c, kind, t)
  PROVE  /\ UNCHANGED <<disk, sess, job, queue>>
         /\ \A b \in Clients : client'[b].run \in {client[b].run, disk, NewRun}
  BY DEF PmExit, Begin, TypeInv, TypeOK

LEMMA EarnedCopies ==
  ASSUME CopiesEarned,
         \A b \in Clients : client'[b].run \in {client[b].run, disk, NewRun}
  PROVE  \A b \in Clients : Earned(client'[b].run.w, sess)
  BY NewRunEarned DEF CopiesEarned

LEMMA ClientWrites ==
  ASSUME OrderInv, NEW c \in Clients, ClientStep(c) \/ SaveMergeLog(c)
  PROVE  Earned(disk'.w, sess)
  <1>1. PICK v \in {disk, Copy(c), NewRun} :
           \A t \in Tasks : disk'.w[t] = v.w[t] \/ disk'.w[t].st \notin {"running", "done"}
    BY ClientEdits DEF OrderInv
  <1>2. Earned(v.w, sess)
    BY NewRunEarned DEF OrderInv, CopiesEarned, Copy
  <1>3. \A t \in Tasks :
          disk'.w[t].st = "done" => v.w[t].st = "done" /\ disk'.w[t].k = v.w[t].k
    BY <1>1
  <1>4. QED BY <1>2, <1>3, EarnedEdit

LEMMA OrderStep == OrderInv /\ [Next]_vars => OrderInv'
  <1> SUFFICES ASSUME OrderInv, [Next]_vars PROVE OrderInv'
    OBVIOUS
  <1>1. TypeInv'
    BY TypeStep DEF OrderInv
  <1>2. /\ client \in [Clients -> Operation]
        /\ Earned(disk.w, sess) /\ \A c \in Clients : Earned(client[c].run.w, sess)
    BY DEF OrderInv, TypeInv, TypeOK, CopiesEarned
  <1>3. ASSUME NEW t \in Tasks, NEW k \in Attempts, SessionStep(t, k) PROVE OrderInv'
    BY <1>3, SessionOrder
  <1>4. CASE LockStep
    BY <1>4, LockOrder
  <1>5. CASE QueueReports \/ Dispatch
    BY <1>1, <1>2, <1>5, ClientFrame DEF QueueReports, Dispatch
  <1>6. ASSUME NEW c \in Clients,
               PmExit(c) \/ \E kind \in OpKinds, t \in Tasks \cup {NoTask} : Begin(c, kind, t)
        PROVE  OrderInv'
    BY <1>1, <1>2, <1>6, NewCopies, EarnedCopies, ClientFrame DEF OrderInv
  <1>7. ASSUME NEW c \in Clients, ClientStep(c) \/ SaveMergeLog(c) PROVE OrderInv'
    <2>1. \A b \in Clients : Earned(client'[b].run.w, sess)
      BY <1>7, ClientCopies, EarnedCopies DEF OrderInv
    <2>2. QED BY <1>1, <1>7, <2>1, ClientWrites, ClientQueue, ClientFrame
  <1>9. CASE Crash
    <2>1. \A s \in Tasks \X Attempts :
            /\ sess'[s].st = sess[s].st
            /\ (sess'[s].pc = "unused") = (sess[s].pc = "unused")
            /\ sess'[s].pc # "live"
      BY <1>9 DEF Crash, OrderInv, TypeInv, TypeOK, Session
    <2>2. KeepsExits(sess, sess') /\ KeepsUse(sess, sess') /\ SessionsFit'
      BY <2>1 DEF KeepsExits, KeepsUse, SessionsFit, OrderInv
    <2>3. Earned(disk.w, sess') /\ Earned(NewRun.w, sess')
      BY <1>2, <2>2, EarnedKept, NewRunEarned
    <2>4. CopiesEarned'
      BY <1>9, <2>3 DEF Crash, CopiesEarned, NoJob, Idle
    <2>5. QueueFits' /\ SpawnFits'
      BY <1>9 DEF Crash, QueueFits, SpawnFits, NoJob
    <2>6. QED BY <1>1, <2>2, <2>4, <2>5, NoNewSession DEF OrderInv
  <1>10. CASE UNCHANGED vars
    BY <1>1, <1>2, <1>10, ClientFrame DEF vars
  <1>11. QED
    BY <1>3, <1>4, <1>5, <1>6, <1>7, <1>9, <1>10 DEF Next, Rest

(* A worker is started only after a session of each task it depends on has *)
(* exited cleanly, whatever stale copy of run.json is written when.        *)
THEOREM OrderOfDependents == Spec => []DependenciesRanFirst
  <1>1. OrderInv => DependenciesRanFirst
    BY DEF OrderInv
  <1>2. QED BY <1>1, OrderInit, OrderStep, PTL DEF Spec

(* An entry of run.json that says done, and that a merge may pick, is that *)
(* of a session that exited cleanly.                                       *)
THEOREM DoneEarned == Spec => []DoneIsEarned
  <1>1. OrderInv => DoneIsEarned
    BY DEF OrderInv, CopiesEarned, Earned, DoneIsEarned, ExitedCleanly, Clean, Attempts
  <1>2. QED BY <1>1, OrderInit, OrderStep, PTL DEF Spec

-----------------------------------------------------------------------------
(* The worker limit: run.json never shows more running tasks than it       *)
(* allows.  As with the order of tasks the argument is about every copy    *)
(* there is, and about the pass that adds to its own.                      *)

Fits(w) == Cardinality(RunningTasks(w)) <= MaxWorkers

CopiesFit ==
    /\ Fits(disk.w)
    /\ Fits(job.latest.w)
    /\ \A c \in Clients : Fits(client[c].run.w)

InPass == job.pc \in {"pick", "spawn", "store"}

(* What the pass loaded and what it started, together. *)
PassLoad == Cardinality(RunningTasks(job.run.w)) + Cardinality(FreshTasks(job.fresh))

PassFits ==
    /\ InPass => PassLoad <= MaxWorkers
    /\ job.pc = "spawn" => PassLoad < MaxWorkers
    /\ ~InPass => FreshTasks(job.fresh) = {}

(* The worker of a waiting exit does not run any more. *)
QueueOver ==
    \A i \in 1 .. Len(queue) :
        queue[i].kind = "exit" => sess[<<queue[i].t, queue[i].k>>].st # "running"

CapInv == OrderInv /\ CopiesFit /\ PassFits /\ QueueOver

(* From ss to tt no session that was started runs again. *)
KeepsOver(ss, tt) ==
    \A s \in Tasks \X Attempts :
        ss[s].pc # "unused" /\ ss[s].st # "running" => tt[s].st # "running"

-----------------------------------------------------------------------------
LEMMA FiniteTasks ==
  ASSUME NEW S \in SUBSET Tasks
  PROVE  IsFiniteSet(S) /\ Cardinality(S) \in Nat
  BY PlanAssumption, FS_Subset, FS_CardinalityType

LEMMA CountSubset ==
  ASSUME NEW S \in SUBSET Tasks, NEW T \in SUBSET Tasks, S \subseteq T
  PROVE  Cardinality(S) <= Cardinality(T)
  BY FiniteTasks, FS_Subset

LEMMA CountUnion ==
  ASSUME NEW S \in SUBSET Tasks, NEW T \in SUBSET Tasks
  PROVE  Cardinality(S \cup T) <= Cardinality(S) + Cardinality(T)
  <1>1. IsFiniteSet(S) /\ IsFiniteSet(T) /\ Cardinality(S \cap T) \in Nat
    BY FiniteTasks
  <1>2. Cardinality(S) \in Nat /\ Cardinality(T) \in Nat
    BY FiniteTasks
  <1>3. Cardinality(S \cup T) = Cardinality(S) + Cardinality(T) - Cardinality(S \cap T)
    BY <1>1, FS_Union
  <1>4. QED BY <1>1, <1>2, <1>3

LEMMA CountOne ==
  ASSUME NEW S \in SUBSET Tasks, NEW t \in Tasks
  PROVE  Cardinality(S \cup {t}) <= Cardinality(S) + 1
  <1>1. IsFiniteSet(S) /\ Cardinality(S) \in Nat
    BY FiniteTasks
  <1>2. Cardinality(S \cup {t}) = IF t \in S THEN Cardinality(S) ELSE Cardinality(S) + 1
    BY <1>1, FS_AddElement
  <1>3. QED BY <1>1, <1>2

(* A copy whose running entries are running in a copy that fits. *)
LEMMA FitsEdit ==
  ASSUME NEW v, NEW w, Fits(v),
         \A t \in Tasks : w[t].st = "running" => v[t].st = "running"
  PROVE  Fits(w)
  <1>1. RunningTasks(w) \subseteq RunningTasks(v) /\ RunningTasks(v) \in SUBSET Tasks
    BY DEF RunningTasks
  <1>2. Cardinality(RunningTasks(w)) <= Cardinality(RunningTasks(v))
    BY <1>1, CountSubset
  <1>3. /\ Cardinality(RunningTasks(w)) \in Nat
        /\ Cardinality(RunningTasks(v)) \in Nat /\ MaxWorkers \in Nat
    BY <1>1, FiniteTasks, BoundAssumption
  <1>4. QED BY <1>2, <1>3 DEF Fits

LEMMA NewRunFits == Fits(NewRun.w)
  <1>1. RunningTasks(NewRun.w) = {}
    BY DEF RunningTasks, NewRun, NoWorker
  <1>2. QED BY <1>1, FS_EmptySet, BoundAssumption DEF Fits

LEMMA NoFresh == FreshTasks(NoJob.fresh) = {}
  BY DEF FreshTasks, NoJob

(* The recording of an exit adds no running entry. *)
LEMMA RecordExitFits ==
  ASSUME NEW r \in Run, Fits(r.w), NEW t \in Tasks, NEW e, e.st # "running"
  PROVE  Fits(RecordExit(r, t, e).w)
  <1>1. \A u \in Tasks : RecordExit(r, t, e).w[u] \in {e, Blocked, r.w[u]}
    BY DEF RecordExit, Run
  <1>2. Blocked.st # "running"
    BY DEF Blocked
  <1>3. QED BY <1>1, <1>2, FitsEdit

(* What the pass would write fits when its load does. *)
LEMMA ViewFits ==
  ASSUME TypeOK, PassLoad <= MaxWorkers
  PROVE  Fits(View(job))
  <1> DEFINE R == RunningTasks(job.run.w)  F == FreshTasks(job.fresh)
  <1>1. R \in SUBSET Tasks /\ F \in SUBSET Tasks /\ RunningTasks(View(job)) \in SUBSET Tasks
    BY DEF RunningTasks, FreshTasks
  <1>2. RunningTasks(View(job)) \subseteq R \cup F
    BY DEF RunningTasks, FreshTasks, View
  <1>3. Cardinality(RunningTasks(View(job))) <= Cardinality(R \cup F)
    BY <1>1, <1>2, CountSubset
  <1>4. Cardinality(R \cup F) <= Cardinality(R) + Cardinality(F)
    BY <1>1, CountUnion
  <1>5. /\ Cardinality(R) \in Nat /\ Cardinality(F) \in Nat /\ Cardinality(R \cup F) \in Nat
        /\ Cardinality(RunningTasks(View(job))) \in Nat /\ MaxWorkers \in Nat
    BY <1>1, FiniteTasks, BoundAssumption
  <1>6. QED BY <1>3, <1>4, <1>5 DEF Fits, PassLoad

LEMMA QueueOverKept ==
  ASSUME OrderInv, QueueOver, KeepsOver(sess, sess')
  PROVE  /\ queue' = queue => QueueOver'
         /\ (queue # <<>> /\ queue' = Tail(queue)) => QueueOver'
         /\ \A j \in Job :
              queue' = Append(queue, j) /\ (j.kind = "exit" => sess'[<<j.t, j.k>>].st # "running")
                => QueueOver'
  <1>1. queue \in Seq(Job) /\ Len(queue) \in Nat
    BY DEF OrderInv, TypeInv, TypeOK
  <1>2. \A i \in 1 .. Len(queue) :
          queue[i].kind = "exit" => sess'[<<queue[i].t, queue[i].k>>].st # "running"
    <2> SUFFICES ASSUME NEW i \in 1 .. Len(queue), queue[i].kind = "exit"
                 PROVE  sess'[<<queue[i].t, queue[i].k>>].st # "running"
      OBVIOUS
    <2>1. queue[i] \in Job
      BY <1>1
    <2>2. <<queue[i].t, queue[i].k>> \in Tasks \X Attempts
      BY <2>1 DEF Job
    <2>3. sess[<<queue[i].t, queue[i].k>>].pc # "unused"
      BY DEF OrderInv, QueueFits
    <2>4. sess[<<queue[i].t, queue[i].k>>].st # "running"
      BY DEF QueueOver
    <2>5. QED BY <2>2, <2>3, <2>4 DEF KeepsOver
  <1>3. queue' = queue => QueueOver'
    BY <1>2 DEF QueueOver
  <1>4. ASSUME queue # <<>>, queue' = Tail(queue) PROVE QueueOver'
    <2>1. Len(queue') = Len(queue) - 1 /\ \A i \in 1 .. Len(queue') : queue'[i] = queue[i + 1]
      BY <1>1, <1>4, HeadTailProperties
    <2>2. SUFFICES ASSUME NEW i \in 1 .. Len(queue'), queue'[i].kind = "exit"
                   PROVE  sess'[<<queue'[i].t, queue'[i].k>>].st # "running"
      BY DEF QueueOver
    <2>3. queue'[i] = queue[i + 1] /\ i + 1 \in 1 .. Len(queue)
      BY <1>1, <2>1
    <2>4. QED BY <1>2, <2>2, <2>3
  <1>5. ASSUME NEW j \in Job, queue' = Append(queue, j),
               j.kind = "exit" => sess'[<<j.t, j.k>>].st # "running"
        PROVE  QueueOver'
    <2>1. /\ Len(queue') = Len(queue) + 1
          /\ \A i \in 1 .. Len(queue) : queue'[i] = queue[i]
          /\ queue'[Len(queue) + 1] = j
      BY <1>1, <1>5, AppendProperties
    <2>2. \A i \in 1 .. Len(queue') : i \in 1 .. Len(queue) \/ i = Len(queue) + 1
      BY <1>1, <2>1
    <2>3. QED BY <1>2, <1>5, <2>1, <2>2 DEF QueueOver
  <1>6. QED BY <1>3, <1>4, <1>5

-----------------------------------------------------------------------------
LEMMA CapInit == Init => CapInv
  <1> SUFFICES ASSUME Init PROVE CapInv
    OBVIOUS
  <1>1. CopiesFit
    BY NewRunFits DEF Init, CopiesFit, NoJob, Idle
  <1>2. PassFits
    BY NoFresh DEF Init, PassFits, InPass, NoJob
  <1>3. QueueOver
    BY DEF Init, QueueOver
  <1>4. QED BY <1>1, <1>2, <1>3, OrderInit DEF CapInv

LEMMA SessionCap ==
  ASSUME CapInv, OrderInv', NEW t \in Tasks, NEW k \in Attempts, SessionStep(t, k)
  PROVE  CapInv'
  <1>1. sess \in [Tasks \X Attempts -> Session]
    BY DEF CapInv, OrderInv, TypeInv, TypeOK
  <1>2. sess'[<<t, k>>].st # "running" /\ \A s \in Tasks \X Attempts :
          s # <<t, k>> => sess'[s] = sess[s]
    BY <1>1 DEF SessionStep, Stall, ExitClean, ExitError, Validate, Session
  <1>3. KeepsOver(sess, sess')
    BY <1>2 DEF KeepsOver
  <1>4. /\ UNCHANGED <<disk, job, client>>
        /\ \/ UNCHANGED queue
           \/ queue' = Append(queue, [kind |-> "exit", t |-> t, k |-> k])
    BY DEF SessionStep, Stall, ExitClean, ExitError, Validate
  <1>5. QueueOver'
    <2>1. CASE UNCHANGED queue
      BY <1>3, <2>1, QueueOverKept DEF CapInv
    <2>2. CASE queue' = Append(queue, [kind |-> "exit", t |-> t, k |-> k])
      <3> DEFINE j == [kind |-> "exit", t |-> t, k |-> k]
      <3>1. j \in Job /\ j.t = t /\ j.k = k
        BY QueuedJobs
      <3>2. sess'[<<j.t, j.k>>].st # "running"
        BY <1>2, <3>1
      <3>3. QED BY <1>3, <2>2, <3>1, <3>2, QueueOverKept DEF CapInv
    <2>3. QED BY <1>4, <2>1, <2>2
  <1>6. CopiesFit' /\ PassFits'
    BY <1>4 DEF CapInv, CopiesFit, PassFits, InPass, PassLoad
  <1>7. QED BY <1>5, <1>6 DEF CapInv

(* A job that starts no session: what it writes and what it keeps. *)
LEMMA LockCapFrame ==
  ASSUME CapInv, OrderInv', KeepsOver(sess, sess'), UNCHANGED client,
         queue' = queue \/ (queue # <<>> /\ queue' = Tail(queue)),
         Fits(disk'.w), Fits(job'.latest.w), PassFits'
  PROVE  CapInv'
  <1>1. QueueOver'
    BY QueueOverKept DEF CapInv
  <1>2. CopiesFit'
    BY DEF CapInv, CopiesFit
  <1>3. QED BY <1>1, <1>2 DEF CapInv

LEMMA ReleaseCap ==
  ASSUME Release
  PROVE  queue' = Tail(queue) /\ Fits(job'.latest.w) /\ PassFits'
  <1>1. queue' = Tail(queue) /\ job' = NoJob
    BY DEF Release
  <1>2. job'.pc = "idle" /\ job'.latest = NewRun /\ FreshTasks(job'.fresh) = {}
    BY <1>1, NoFresh DEF NoJob
  <1>3. PassFits'
    BY <1>2 DEF PassFits, InPass
  <1>4. QED BY <1>1, <1>2, <1>3, NewRunFits

LEMMA DispatchReturnCap ==
  ASSUME CapInv, queue # <<>>, DispatchReturn
  PROVE  /\ queue' = queue \/ queue' = Tail(queue)
         /\ Fits(job'.latest.w) /\ PassFits'
  <1>1. CASE Head(queue).kind = "exit"
    <2>1. queue' = queue /\ job' = [NoJob EXCEPT !.pc = "finish", !.latest = job.latest]
      BY <1>1 DEF DispatchReturn
    <2>2. job'.pc = "finish" /\ job'.latest = job.latest /\ job'.fresh = NoJob.fresh
      BY <2>1 DEF NoJob
    <2>3. PassFits'
      BY <2>2, NoFresh DEF PassFits, InPass
    <2>4. QED BY <2>1, <2>2, <2>3 DEF CapInv, CopiesFit
  <1>2. CASE Head(queue).kind # "exit"
    BY <1>2, ReleaseCap DEF DispatchReturn
  <1>3. QED BY <1>1, <1>2

(* The pass loads run.json: it has started nothing yet. *)
LEMMA LoadCap ==
  ASSUME CapInv, job' = [job EXCEPT !.pc = "pick", !.run = disk],
         job.pc = "load" \/ job.pc = "idle"
  PROVE  job'.latest = job.latest /\ PassFits'
  <1>1. job \in JobLocals
    BY DEF CapInv, OrderInv, TypeInv, TypeOK
  <1>2. /\ job'.latest = job.latest /\ job'.run = disk /\ job'.pc = "pick"
        /\ job'.fresh = job.fresh
    BY <1>1 DEF JobLocals
  <1>3. FreshTasks(job'.fresh) = {}
    BY <1>2 DEF CapInv, PassFits, InPass
  <1>4. Cardinality(FreshTasks(job'.fresh)) = 0
    BY <1>3, FS_EmptySet
  <1>5. Cardinality(RunningTasks(disk.w)) \in Nat
    BY FiniteTasks DEF RunningTasks
  <1>6. PassLoad' <= MaxWorkers
    BY <1>2, <1>4, <1>5 DEF PassLoad, CapInv, CopiesFit, Fits
  <1>7. QED BY <1>2, <1>6 DEF PassFits, InPass

(* The limit is checked on what was loaded and what was started. *)
LEMMA PickCap ==
  ASSUME CapInv, PickTask
  PROVE  job'.latest = job.latest /\ PassFits'
  <1>1. job \in JobLocals
    BY DEF CapInv, OrderInv, TypeInv, TypeOK
  <1>2. PassLoad <= MaxWorkers
    BY DEF CapInv, PassFits, InPass, PickTask
  <1>3. /\ job'.latest = job.latest /\ job'.run = job.run /\ job'.fresh = job.fresh
        /\ job'.pc \in {"spawn", "store"}
        /\ job'.pc = "spawn" =>
             CanSpawnWorker(ActiveWorkerCount(job.run) + Cardinality(FreshTasks(job.fresh)))
    BY <1>1 DEF PickTask, JobLocals
  <1>4. /\ Cardinality(RunningTasks(job.run.w)) \in Nat
        /\ Cardinality(FreshTasks(job.fresh)) \in Nat
    BY FiniteTasks DEF RunningTasks, FreshTasks
  <1>5. CanSpawnWorker(ActiveWorkerCount(job.run) + Cardinality(FreshTasks(job.fresh)))
          => PassLoad < MaxWorkers
    BY <1>4, BoundAssumption DEF CanSpawnWorker, ActiveWorkerCount, PassLoad
  <1>6. PassLoad' = PassLoad
    BY <1>3 DEF PassLoad
  <1>7. QED BY <1>2, <1>3, <1>5, <1>6 DEF PassFits, InPass

(* One more worker, and there was room for it. *)
LEMMA SpawnCap ==
  ASSUME CapInv, OrderInv', SpawnWorker
  PROVE  CapInv'
  <1> DEFINE t == Order[job.idx]
  <1>1. job \in JobLocals /\ sess \in [Tasks \X Attempts -> Session] /\ job.pc = "spawn"
    BY DEF CapInv, OrderInv, TypeInv, TypeOK, SpawnWorker
  <1>2. t \in Tasks
    BY <1>1, PlanAssumption DEF CapInv, OrderInv, SpawnFits
  <1>3. PICK k \in Attempts :
          /\ \A h \in Attempts : sess[<<t, h>>].pc = "unused" <=> h >= k
          /\ sess' = [sess EXCEPT ![<<t, k>>] = [pc |-> "live", st |-> "running"]]
          /\ job' = [job EXCEPT !.pc = "pick", !.idx = @ + 1, !.fresh[t] = k]
    BY DEF SpawnWorker
  <1>4. sess[<<t, k>>].pc = "unused"
    <2>1. k >= k
      BY DEF Attempts
    <2>2. QED BY <1>3, <2>1
  <1>5. KeepsOver(sess, sess')
    BY <1>1, <1>3, <1>4 DEF KeepsOver
  <1>6. /\ job'.latest = job.latest /\ job'.run = job.run /\ job'.pc = "pick"
        /\ job'.fresh = [job.fresh EXCEPT ![t] = k]
    BY <1>1, <1>3 DEF JobLocals
  <1>7. FreshTasks(job'.fresh) \subseteq FreshTasks(job.fresh) \cup {t}
    BY <1>1, <1>6 DEF FreshTasks, JobLocals
  <1>8. PassLoad' <= MaxWorkers
    <2> DEFINE R == RunningTasks(job.run.w)  F == FreshTasks(job.fresh)  G == FreshTasks(job'.fresh)
    <2>1. R \in SUBSET Tasks /\ F \in SUBSET Tasks /\ G \in SUBSET Tasks
          /\ F \cup {t} \in SUBSET Tasks
      BY <1>2 DEF RunningTasks, FreshTasks
    <2>2. Cardinality(G) <= Cardinality(F \cup {t})
      BY <1>7, <2>1, CountSubset
    <2>3. Cardinality(F \cup {t}) <= Cardinality(F) + 1
      BY <1>2, <2>1, CountOne
    <2>4. /\ Cardinality(R) \in Nat /\ Cardinality(F) \in Nat /\ Cardinality(G) \in Nat
          /\ Cardinality(F \cup {t}) \in Nat /\ MaxWorkers \in Nat
      BY <2>1, FiniteTasks, BoundAssumption
    <2>5. Cardinality(R) + Cardinality(F) < MaxWorkers
      BY <1>1 DEF CapInv, PassFits, PassLoad
    <2>6. Cardinality(R) + Cardinality(G) <= MaxWorkers
      BY <2>2, <2>3, <2>4, <2>5
    <2>7. QED BY <1>6, <2>6 DEF PassLoad
  <1>9. PassFits'
    BY <1>6, <1>8 DEF PassFits, InPass
  <1>10. UNCHANGED <<disk, queue, client>>
    BY DEF SpawnWorker
  <1>11. QED BY <1>5, <1>6, <1>9, <1>10, LockCapFrame DEF CapInv, CopiesFit

LEMMA LockCap ==
  ASSUME CapInv, OrderInv', LockStep
  PROVE  CapInv'
  <1>1. /\ disk \in Run /\ job \in JobLocals /\ queue \in Seq(Job)
        /\ sess \in [Tasks \X Attempts -> Session]
        /\ Fits(disk.w) /\ Fits(job.latest.w)
    BY DEF CapInv, OrderInv, TypeInv, TypeOK, CopiesFit
  <1>2. LockFree \/ job.pc # "idle" => queue # <<>>
    BY DEF LockFree, Holder, CapInv, OrderInv, TypeInv
  <1>3. UNCHANGED sess => KeepsOver(sess, sess')
    BY DEF KeepsOver
  <1>4. ASSUME NEW s, sess' = [sess EXCEPT ![s].pc = "settled"]
        PROVE  KeepsOver(sess, sess')
    BY <1>1, <1>4 DEF KeepsOver, Session
  (* Outside a pass nothing has been started. *)
  <1>5. ASSUME ~InPass, ~InPass', job'.fresh = job.fresh
        PROVE  PassFits'
    BY <1>5 DEF CapInv, PassFits, InPass
  <1>6. CASE StartExit
    <2> DEFINE t == Head(queue).t  k == Head(queue).k
               r == RecordExit(disk, t, [st |-> sess[<<t, k>>].st, k |-> k])
    <2>1. queue # <<>> /\ Head(queue).kind = "exit" /\ job.pc = "idle"
      BY <1>6 DEF StartExit, LockFree
    <2>2. t \in Tasks /\ k \in Attempts
      BY <1>1, <2>1, HeadIsJob
    <2>3. Head(queue) = queue[1] /\ 1 \in 1 .. Len(queue)
      BY <1>1, <2>1, HeadTailProperties
    <2>4. sess[<<t, k>>].st # "running"
      BY <2>1, <2>3 DEF CapInv, QueueOver
    <2>5. Fits(r.w)
      BY <1>1, <2>2, <2>4, RecordExitFits
    <2>6. job' = [job EXCEPT !.pc = "record", !.latest = r]
      BY <1>6 DEF StartExit
    <2>7. job'.latest = r /\ job'.pc = "record" /\ job'.fresh = job.fresh
      BY <1>1, <2>6 DEF JobLocals
    <2>8. PassFits'
      BY <1>5, <2>1, <2>7 DEF InPass
    <2>9. UNCHANGED <<disk, sess, queue, client>>
      BY <1>6 DEF StartExit
    <2>10. QED BY <1>1, <1>3, <2>5, <2>7, <2>8, <2>9, LockCapFrame
  <1>7. CASE SaveExit
    <2>1. /\ job'.latest = job.latest /\ job'.pc \in {"load", "finish"}
          /\ job'.fresh = job.fresh /\ job.pc = "record"
      BY <1>1, <1>7 DEF SaveExit, JobLocals
    <2>2. disk' = job.latest /\ UNCHANGED <<queue, client>>
      BY <1>7 DEF SaveExit
    <2>3. KeepsOver(sess, sess')
      BY <1>4, <1>7 DEF SaveExit
    <2>4. PassFits'
      BY <1>5, <2>1 DEF InPass
    <2>5. QED BY <1>1, <2>1, <2>2, <2>3, <2>4, LockCapFrame
  <1>8. CASE TornLoad
    <2>1. queue # <<>>
      BY <1>2, <1>8 DEF TornLoad
    <2>2. KeepsOver(sess, sess')
      BY <1>3, <1>4, <1>8 DEF TornLoad
    <2>3. /\ queue' = queue \/ queue' = Tail(queue)
          /\ Fits(job'.latest.w) /\ PassFits'
      BY <1>8, <2>1, ReleaseCap, DispatchReturnCap DEF TornLoad
    <2>4. UNCHANGED <<disk, client>>
      BY <1>8 DEF TornLoad
    <2>5. QED BY <1>1, <2>1, <2>2, <2>3, <2>4, LockCapFrame
  <1>9. CASE LoadForDispatch
    <2>1. queue # <<>> /\ UNCHANGED <<disk, sess, client>>
      BY <1>2, <1>9 DEF LoadForDispatch, AtDispatch
    <2>2. CASE disk.status = "running"
      <3>1. job' = [job EXCEPT !.pc = "pick", !.run = disk] /\ queue' = queue
        BY <1>9, <2>2 DEF LoadForDispatch
      <3>2. job.pc = "load" \/ job.pc = "idle"
        BY <1>9 DEF LoadForDispatch, AtDispatch, LockFree
      <3>3. QED BY <1>1, <1>3, <2>1, <3>1, <3>2, LoadCap, LockCapFrame
    <2>3. CASE disk.status # "running"
      <3>1. DispatchReturn
        BY <1>9, <2>3 DEF LoadForDispatch
      <3>2. QED BY <1>1, <1>3, <2>1, <3>1, DispatchReturnCap, LockCapFrame
    <2>4. QED BY <2>2, <2>3
  <1>10. CASE PickTask
    <2>1. UNCHANGED <<disk, sess, queue, client>>
      BY <1>10 DEF PickTask
    <2>2. QED BY <1>1, <1>3, <1>10, <2>1, PickCap, LockCapFrame
  <1>11. CASE SpawnWorker
    BY <1>11, SpawnCap
  <1>12. CASE SpawnError
    <2>1. /\ job'.latest = job.latest /\ job'.run = job.run /\ job'.fresh = job.fresh
          /\ job'.pc = "pick" /\ job.pc = "spawn"
      BY <1>1, <1>12 DEF SpawnError, JobLocals
    <2>2. PassLoad' = PassLoad
      BY <2>1 DEF PassLoad
    <2>3. PassFits'
      BY <2>1, <2>2 DEF CapInv, PassFits, InPass
    <2>4. UNCHANGED <<disk, sess, queue, client>>
      BY <1>12 DEF SpawnError
    <2>5. QED BY <1>1, <1>3, <2>1, <2>3, <2>4, LockCapFrame
  <1>13. CASE SaveDispatch
    <2>1. queue # <<>> /\ DispatchReturn /\ UNCHANGED <<sess, client>> /\ job.pc = "store"
      BY <1>2, <1>13 DEF SaveDispatch
    <2>2. Fits(View(job))
      BY <2>1, ViewFits DEF CapInv, OrderInv, TypeInv, PassFits, InPass
    <2>3. disk'.w \in {disk.w, View(job)}
      <3>1. [job.run EXCEPT !.w = View(job)].w = View(job)
        BY <1>1 DEF JobLocals, Run
      <3>2. QED BY <1>13, <3>1 DEF SaveDispatch
    <2>4. QED BY <1>1, <1>3, <2>1, <2>2, <2>3, DispatchReturnCap, LockCapFrame
  <1>14. CASE FinishExit
    <2>1. queue # <<>> /\ Release /\ UNCHANGED <<sess, client>>
      BY <1>2, <1>14 DEF FinishExit
    <2>2. disk'.w \in {disk.w, job.latest.w}
      BY <1>1, <1>14 DEF FinishExit, JobLocals, Run
    <2>3. QED BY <1>1, <1>3, <2>1, <2>2, ReleaseCap, LockCapFrame
  <1>15. CASE LoadForReports
    <2>1. /\ job'.latest = disk /\ job'.pc = "reports" /\ job'.fresh = job.fresh
          /\ job.pc = "idle"
      BY <1>1, <1>15 DEF LoadForReports, LockFree, JobLocals
    <2>2. PassFits'
      BY <1>5, <2>1 DEF InPass
    <2>3. UNCHANGED <<disk, sess, queue, client>>
      BY <1>15 DEF LoadForReports
    <2>4. QED BY <1>1, <1>3, <2>1, <2>2, <2>3, LockCapFrame
  <1>16. CASE SaveReports
    <2>1. queue # <<>> /\ Release /\ UNCHANGED <<sess, client>> /\ disk' = job.latest
      BY <1>2, <1>16 DEF SaveReports
    <2>2. QED BY <1>1, <1>3, <2>1, ReleaseCap, LockCapFrame
  <1>17. QED
    BY <1>6, <1>7, <1>8, <1>9, <1>10, <1>11, <1>12, <1>13, <1>14, <1>15, <1>16 DEF LockStep

(* An operation writes no running entry that its copy did not have. *)
LEMMA ClientCapFrame ==
  ASSUME CapInv, OrderInv', UNCHANGED <<sess, job>>,
         \/ UNCHANGED queue
         \/ \E j \in {DispatchJob, ConflictsJob} : queue' = Append(queue, j),
         Fits(disk'.w),
         \A b \in Clients : client'[b].run \in {client[b].run, disk, NewRun}
  PROVE  CapInv'
  <1>1. KeepsOver(sess, sess')
    BY DEF KeepsOver
  <1>2. QueueOver'
    BY <1>1, QueueOverKept, QueuedJobs DEF CapInv, DispatchJob, ConflictsJob
  <1>3. CopiesFit'
    BY NewRunFits DEF CapInv, CopiesFit
  <1>4. PassFits'
    BY DEF CapInv, PassFits, InPass, PassLoad
  <1>5. QED BY <1>2, <1>3, <1>4 DEF CapInv

LEMMA ClientCap ==
  ASSUME CapInv, OrderInv', NEW c \in Clients, ClientStep(c) \/ SaveMergeLog(c)
  PROVE  CapInv'
  <1>1. TypeInv
    BY DEF CapInv, OrderInv
  <1>2. PICK v \in {disk, Copy(c), NewRun} :
          \A t \in Tasks : disk'.w[t] = v.w[t] \/ disk'.w[t].st \notin {"running", "done"}
    BY <1>1, ClientEdits
  <1>3. Fits(v.w)
    BY NewRunFits DEF CapInv, CopiesFit, Copy
  <1>4. \A t \in Tasks : disk'.w[t].st = "running" => v.w[t].st = "running"
    BY <1>2
  <1>5. Fits(disk'.w)
    BY <1>3, <1>4, FitsEdit
  <1>6. QED BY <1>1, <1>5, ClientCopies, ClientQueue, ClientCapFrame

LEMMA CapStep == CapInv /\ [Next]_vars => CapInv'
  <1> SUFFICES ASSUME CapInv, [Next]_vars PROVE CapInv'
    OBVIOUS
  <1>1. OrderInv' /\ TypeInv /\ Fits(disk.w)
    BY OrderStep DEF CapInv, OrderInv, CopiesFit
  <1>2. ASSUME NEW t \in Tasks, NEW k \in Attempts, SessionStep(t, k) PROVE CapInv'
    BY <1>1, <1>2, SessionCap
  <1>3. CASE LockStep
    BY <1>1, <1>3, LockCap
  <1>4. CASE QueueReports \/ Dispatch
    BY <1>1, <1>4, ClientCapFrame DEF QueueReports, Dispatch
  <1>5. ASSUME NEW c \in Clients,
               PmExit(c) \/ \E kind \in OpKinds, t \in Tasks \cup {NoTask} : Begin(c, kind, t)
        PROVE  CapInv'
    BY <1>1, <1>5, NewCopies, ClientCapFrame
  <1>6. ASSUME NEW c \in Clients, ClientStep(c) \/ SaveMergeLog(c) PROVE CapInv'
    BY <1>1, <1>6, ClientCap
  <1>7. CASE Crash
    <2>1. CopiesFit'
      BY <1>1, <1>7, NewRunFits DEF Crash, CopiesFit, NoJob, Idle
    <2>2. PassFits'
      BY <1>7, NoFresh DEF Crash, PassFits, InPass, NoJob
    <2>3. QueueOver'
      BY <1>7 DEF Crash, QueueOver
    <2>4. QED BY <1>1, <2>1, <2>2, <2>3 DEF CapInv
  <1>8. CASE UNCHANGED vars
    BY <1>1, <1>8, ClientCapFrame DEF vars
  <1>9. QED
    BY <1>2, <1>3, <1>4, <1>5, <1>6, <1>7, <1>8 DEF Next, Rest

(* Whatever stale copy of run.json is written when, the record never shows *)
(* more tasks running than the worker limit allows.                        *)
THEOREM WithinCapacity == Spec => []RecordWithinCapacity
  <1>1. CapInv => RecordWithinCapacity
    BY DEF CapInv, CopiesFit, Fits, RecordWithinCapacity
  <1>2. QED BY <1>1, CapInit, CapStep, PTL DEF Spec

-----------------------------------------------------------------------------
(* The conductor left to itself: no request but one approval (and passes   *)
(* of the loop, which ask for nothing), no crash.  Then whoever holds the  *)
(* lock is the only one who writes run.json.                               *)

LeftAlone ==
    /\ Kinds \subseteq {"approve", "dispatch"}
    /\ \A c, d \in Clients : c = d
    /\ "crash" \notin Faults
    /\ MaxAttempts # 0

Calm ==
    /\ pms = 0 /\ ~boot
    /\ \A c \in Clients :
         /\ client[c].kind \in {"idle", "approve"}
         /\ client[c].pc \in {"idle", "save"}
         /\ client[c].pc = "save" => disk.status = "planning" /\ client[c].run = disk

(* Before the approval nothing has happened.                               *)
Unstarted ==
    disk.status = "planning" =>
        /\ job.pc = "idle" /\ checks = 0
        /\ \A s \in Tasks \X Attempts : sess[s].pc = "unused"
        /\ \A t \in Tasks : disk.w[t] = NoWorker
        /\ \A i \in 1 .. Len(queue) : queue[i].kind = "dispatch"

Outcomes == {"done", "failed", "stuck", "validation_failed"}

(* A session by the place it has come to.                                  *)
Placed(s) ==
    /\ s.pc # "lost"
    /\ s.pc = "validating" => s.st = "done"
    /\ s.pc \in {"queued", "settled"} => s.st \in Outcomes

(* A task has one session, named by run.json or by the pass that started   *)
(* it and has not written yet.                                             *)
Entered(e, f, t) ==
    /\ e[t].k \in {0, 1} /\ f[t] \in {0, 1}
    /\ e[t].k = 0 <=> e[t].st \in {"none", "blocked"}
    /\ f[t] # 0 => e[t].st = "none"
    /\ \A k \in Attempts :
         LET s == sess[<<t, k>>] IN
         /\ s.pc # "unused" <=> k = 1 /\ (e[t].k = 1 \/ f[t] = 1)
         /\ s.st = "running" => f[t] = 1 \/ e[t].st = "running"
         /\ s.pc = "settled" => e[t] = [st |-> s.st, k |-> k]

SessionsAlone ==
    /\ \A s \in Tasks \X Attempts : Placed(sess[s])
    /\ \A t \in Tasks : Entered(disk.w, job.fresh, t)

(* Every exit that waits is that of a session of its own.                  *)
QueueAlone ==
    /\ \A i \in 1 .. Len(queue) : queue[i].kind = "exit" =>
          sess[<<queue[i].t, queue[i].k>>].pc =
             IF i = 1 /\ job.pc \notin {"idle", "record"} THEN "settled" ELSE "queued"
    /\ \A i, j \in 1 .. Len(queue) :
          queue[i].kind = "exit" /\ queue[j].kind = "exit" /\ queue[i].t = queue[j].t => i = j

(* The copies of the job are those of nobody else's making.                *)
JobAlone ==
    /\ disk.status \in {"planning", "running", "done", "failed"}
    /\ job.pc = "record" =>
         job.latest = RecordExit(disk, Head(queue).t,
                        [st |-> sess[<<Head(queue).t, Head(queue).k>>].st, k |-> Head(queue).k])
    /\ job.pc \in {"load", "reports"} => job.latest = disk
    /\ job.pc = "load" => disk.status = "running"
    /\ job.pc \in {"pick", "spawn", "store"} =>
         /\ job.run = disk /\ disk.status = "running"
         /\ Head(queue).kind = "exit" => job.latest = disk
    /\ job.pc = "finish" /\ (AllDone(job.latest.w) \/ disk.status # "running") => job.latest = disk
    /\ job.pc = "spawn" =>
         LET t == Order[job.idx] IN
         /\ disk.w[t].st = "none" /\ job.fresh[t] = 0
         /\ \A d \in Deps[t] : job.fresh[d] # 0 \/ disk.w[d].st = "done"

VerdictAlone ==
    disk.status \in {"done", "failed"} =>
        /\ AllDone(disk.w)
        /\ job.pc # "finish" => disk.status = FinalStatus(disk.w)

AloneParts == Calm /\ Unstarted /\ SessionsAlone /\ QueueAlone /\ JobAlone /\ VerdictAlone

AloneInv == CapInv /\ AloneParts

LEMMA AloneInit == LeftAlone /\ Init => AloneInv
  <1> SUFFICES ASSUME LeftAlone, Init PROVE AloneInv
    OBVIOUS
  <1>1. Calm /\ Unstarted /\ QueueAlone /\ VerdictAlone
    BY DEF Init, Calm, Unstarted, QueueAlone, VerdictAlone, Idle, NewRun, NoJob
  <1>2. JobAlone
    BY DEF Init, JobAlone, NewRun, NoJob
  <1>3. SessionsAlone
    BY DEF Init, SessionsAlone, Placed, Entered, NewRun, NoWorker, NoJob
  <1>4. QED BY <1>1, <1>2, <1>3, CapInit DEF AloneInv, AloneParts

(* What can happen to a conductor left to itself.                          *)
LEMMA StepsAlone ==
  ASSUME LeftAlone, AloneInv, Next
  PROVE  \/ \E t \in Tasks, k \in Attempts : SessionStep(t, k)
         \/ LockStep \/ QueueReports \/ Dispatch
         \/ \E c \in Clients : Approve(c) \/ Begin(c, "approve", NoTask)
         \/ UNCHANGED vars
  <1>1. Calm
    BY DEF AloneInv, AloneParts
  <1>2. ASSUME NEW c \in Clients, ClientStep(c) \/ SaveMergeLog(c) \/ PmExit(c)
        PROVE  Approve(c)
    <2>1. client[c].kind \in {"idle", "approve"} /\ client[c].pc \in {"idle", "save"} /\ pms = 0 /\ ~boot
      BY <1>1 DEF Calm
    <2>2. ~LoadAgain(c) /\ ~Delete(c) /\ ~Archive(c) /\ ~StartMerge(c) /\ ~FinishMerge(c) /\ ~SaveMergeLog(c)
      BY <2>1 DEF LoadAgain, Delete, Archive, StartMerge, FinishMerge, SaveMergeLog
    <2>3. /\ ~Kill(c) /\ ~KillAsync(c) /\ ~Cancel(c) /\ ~Reopen(c) /\ ~Resume(c) /\ ~SpawnPm(c)
          /\ ~SavePmExit(c) /\ ~Recover(c)
      <3>1. /\ Kill(c) => client[c].kind = "kill"
            /\ KillAsync(c) => client[c].kind = "kill_async"
            /\ Reopen(c) => client[c].kind = "reopen"
            /\ SpawnPm(c) => client[c].kind = "pm"
            /\ SavePmExit(c) => client[c].kind = "pm_exit"
        BY DEF Kill, KillAsync, Reopen, SpawnPm, SavePmExit, Commit
      <3>2. Cancel(c) => client[c].kind = "cancel"
        BY DEF Cancel, Commit
      <3>3. Resume(c) => client[c].kind = "resume"
        BY DEF Resume, Commit
      <3>4. Recover(c) => client[c].kind = "recover"
        BY DEF Recover, Commit
      <3>5. QED
        BY <2>1, <3>1, <3>2, <3>3, <3>4
    <2>4. ~BeginRecover(c)
      BY <2>1 DEF BeginRecover
    <2>5. ~PmExit(c)
      BY <2>1 DEF PmExit
    <2>6. QED
      BY <1>2, <2>2, <2>3, <2>4, <2>5 DEF ClientStep
  <1>3. ASSUME NEW c \in Clients, NEW kind \in OpKinds, NEW t \in Tasks \cup {NoTask}, Begin(c, kind, t)
        PROVE  Begin(c, "approve", NoTask)
    <2>1. kind \in {"approve", "dispatch"} /\ Accepts(kind, t, disk) /\ (kind \in {"kill", "kill_async"} <=> t # NoTask)
      BY <1>3 DEF Begin, LeftAlone
    <2>2. kind = "approve" /\ t = NoTask
      BY <2>1 DEF Accepts
    <2>3. QED BY <1>3, <2>2
  <1>4. ~Crash
    BY DEF Crash, LeftAlone
  <1>5. QED
    BY <1>2, <1>3, <1>4 DEF Next, Rest

-----------------------------------------------------------------------------
(* The queue of the lock.                                                  *)

LEMMA QueueSame ==
  ASSUME QueueAlone, UNCHANGED <<queue, sess>>,
         \/ (job'.pc \in {"idle", "record"}) <=> (job.pc \in {"idle", "record"})
         \/ Len(queue) >= 1 => queue[1].kind # "exit"
  PROVE  QueueAlone'
  BY DEF QueueAlone

LEMMA QueueShorter ==
  ASSUME QueueAlone, queue \in Seq(Job), queue # <<>>, queue' = Tail(queue), UNCHANGED sess, job'.pc = "idle"
  PROVE  QueueAlone'
  <1>1. /\ Len(queue) \in Nat /\ Len(queue') = Len(queue) - 1
        /\ \A i \in 1 .. Len(queue') : queue'[i] = queue[i + 1]
    BY HeadTailProperties
  <1>2. ASSUME NEW i \in 1 .. Len(queue')
        PROVE  i + 1 \in 1 .. Len(queue) /\ i + 1 # 1 /\ queue'[i] = queue[i + 1]
    BY <1>1
  <1>3. ASSUME NEW i \in 1 .. Len(queue'), queue'[i].kind = "exit"
        PROVE  sess'[<<queue'[i].t, queue'[i].k>>].pc = "queued"
    BY <1>2, <1>3 DEF QueueAlone
  <1>4. ASSUME NEW i \in 1 .. Len(queue'), NEW j \in 1 .. Len(queue'),
               queue'[i].kind = "exit", queue'[j].kind = "exit", queue'[i].t = queue'[j].t
        PROVE  i = j
    <2>1. i + 1 = j + 1
      BY <1>2, <1>4 DEF QueueAlone
    <2>2. QED BY <1>1, <2>1
  <1>5. QED BY <1>3, <1>4 DEF QueueAlone

LEMMA QueueLonger ==
  ASSUME QueueAlone, queue \in Seq(Job), NEW j \in Job, queue' = Append(queue, j), UNCHANGED job,
         job.pc # "idle" => queue # <<>>,
         \A i \in 1 .. Len(queue) : queue[i].kind = "exit" =>
            sess'[<<queue[i].t, queue[i].k>>].pc = sess[<<queue[i].t, queue[i].k>>].pc,
         j.kind = "exit" =>
            /\ sess'[<<j.t, j.k>>].pc = "queued"
            /\ \A i \in 1 .. Len(queue) : queue[i].kind = "exit" => queue[i].t # j.t
  PROVE  QueueAlone'
  <1>1. /\ Len(queue) \in Nat /\ Len(queue') = Len(queue) + 1
        /\ \A i \in 1 .. Len(queue) : queue'[i] = queue[i]
        /\ queue'[Len(queue) + 1] = j
    BY AppendProperties
  <1>2. \A i \in 1 .. Len(queue') : i \in 1 .. Len(queue) \/ i = Len(queue) + 1
    BY <1>1
  <1>3. Len(queue) + 1 = 1 => job.pc = "idle"
    BY <1>1, EmptySeq
  <1>4. ASSUME NEW i \in 1 .. Len(queue'), queue'[i].kind = "exit"
        PROVE  sess'[<<queue'[i].t, queue'[i].k>>].pc =
                 IF i = 1 /\ job'.pc \notin {"idle", "record"} THEN "settled" ELSE "queued"
    <2>1. CASE i \in 1 .. Len(queue)
      BY <1>1, <1>4, <2>1 DEF QueueAlone
    <2>2. CASE i = Len(queue) + 1
      <3>1. queue'[i] = j /\ (i = 1 => job.pc = "idle")
        BY <1>1, <1>3, <2>2
      <3>2. QED BY <1>4, <3>1
    <2>3. QED BY <1>2, <2>1, <2>2
  <1>5. ASSUME NEW a \in 1 .. Len(queue'), NEW b \in 1 .. Len(queue'),
               queue'[a].kind = "exit", queue'[b].kind = "exit", queue'[a].t = queue'[b].t
        PROVE  a = b
    <2>1. CASE a \in 1 .. Len(queue) /\ b \in 1 .. Len(queue)
      BY <1>1, <1>5, <2>1 DEF QueueAlone
    <2>2. CASE a = Len(queue) + 1 /\ b \in 1 .. Len(queue)
      BY <1>1, <1>5, <2>2
    <2>3. CASE b = Len(queue) + 1 /\ a \in 1 .. Len(queue)
      BY <1>1, <1>5, <2>3
    <2>4. QED BY <1>2, <2>1, <2>2, <2>3
  <1>6. QED BY <1>4, <1>5 DEF QueueAlone


-----------------------------------------------------------------------------
(* Steps of the conductor left to itself.                                  *)

LEMMA AloneTypes ==
  ASSUME AloneInv
  PROVE  /\ disk \in Run /\ disk.w \in [Tasks -> Entry] /\ job \in JobLocals /\ queue \in Seq(Job)
         /\ sess \in [Tasks \X Attempts -> Session] /\ client \in [Clients -> Operation]
         /\ SessionsFit /\ Holder /\ MaxAttempts \in Nat
         /\ (~InPass => \A t \in Tasks : job.fresh[t] = 0)
  BY BoundAssumption DEF AloneInv, CapInv, OrderInv, TypeInv, TypeOK, Run, PassFits, FreshTasks

LEMMA HeadAlone ==
  ASSUME AloneInv, queue # <<>>
  PROVE  /\ Head(queue) = queue[1] /\ 1 \in 1 .. Len(queue) /\ Len(queue) \in Nat
         /\ Head(queue).kind # "dispatch" => disk.status # "planning"
         /\ Head(queue).kind = "exit" =>
              /\ Head(queue).t \in Tasks /\ Head(queue).k = 1 /\ 1 \in Attempts
              /\ sess[<<Head(queue).t, 1>>].pc =
                   IF job.pc \notin {"idle", "record"} THEN "settled" ELSE "queued"
  <1>1. queue \in Seq(Job)
    BY AloneTypes
  <1>2. Head(queue) = queue[1] /\ 1 \in 1 .. Len(queue) /\ Len(queue) \in Nat
    BY <1>1, HeadTailProperties
  <1>3. Head(queue).kind # "dispatch" => disk.status # "planning"
    BY <1>2 DEF AloneInv, AloneParts, Unstarted
  <1>4. ASSUME Head(queue).kind = "exit"
        PROVE  /\ Head(queue).t \in Tasks /\ Head(queue).k = 1 /\ 1 \in Attempts
               /\ sess[<<Head(queue).t, 1>>].pc =
                    IF job.pc \notin {"idle", "record"} THEN "settled" ELSE "queued"
    <2>1. Head(queue).t \in Tasks /\ Head(queue).k \in Attempts
      BY <1>1, <1>4, HeadIsJob
    <2>2. sess[<<Head(queue).t, Head(queue).k>>].pc =
            IF job.pc \notin {"idle", "record"} THEN "settled" ELSE "queued"
      BY <1>2, <1>4 DEF AloneInv, AloneParts, QueueAlone
    <2>3. Entered(disk.w, job.fresh, Head(queue).t)
      BY <2>1 DEF AloneInv, AloneParts, SessionsAlone
    <2>4. Head(queue).k = 1
      BY <2>1, <2>2, <2>3 DEF Entered
    <2>5. QED BY <2>1, <2>2, <2>4
  <1>5. QED BY <1>2, <1>3, <1>4

LEMMA UsedIs ==
  ASSUME AloneInv, NEW t \in Tasks, NEW k \in Attempts, sess[<<t, k>>].pc # "unused"
  PROVE  /\ k = 1 /\ disk.status # "planning"
         /\ disk.w[t].k = 1 \/ job.fresh[t] = 1
         /\ sess[<<t, k>>].st \in Outcomes \cup {"running"}
         /\ sess[<<t, k>>].pc # "live" => sess[<<t, k>>].st \in Outcomes
  <1>1. Entered(disk.w, job.fresh, t) /\ Placed(sess[<<t, k>>]) /\ disk.status # "planning"
    BY DEF AloneInv, AloneParts, SessionsAlone, Unstarted
  <1>2. sess[<<t, k>>] \in Session /\ (sess[<<t, k>>].pc = "live" => sess[<<t, k>>].st \in {"running", "stuck"})
    BY AloneTypes DEF SessionsFit
  <1>3. QED BY <1>1, <1>2 DEF Entered, Placed, Outcomes, Session, SessionPc

(* A job that only looks.                                                  *)
LEMMA JobFrame ==
  ASSUME AloneInv, UNCHANGED <<disk, sess, queue, client, checks, pms, boot>>, job'.fresh = job.fresh,
         disk.status # "planning", job.pc # "finish", JobAlone',
         \/ (job'.pc \in {"idle", "record"}) <=> (job.pc \in {"idle", "record"})
         \/ Head(queue).kind # "exit"
  PROVE  AloneParts'
  <1>1. QueueAlone'
    <2>1. Len(queue) >= 1 => queue[1] = Head(queue)
      BY AloneTypes, HeadAlone, EmptySeq
    <2>2. QED BY <2>1, QueueSame DEF AloneInv, AloneParts
  <1>2. SessionsAlone'
    BY DEF AloneInv, AloneParts, SessionsAlone, Entered
  <1>3. Calm' /\ Unstarted' /\ VerdictAlone'
    BY DEF AloneInv, AloneParts, Calm, Unstarted, VerdictAlone
  <1>4. QED BY <1>1, <1>2, <1>3 DEF AloneParts

LEMMA StartExitAlone ==
  ASSUME AloneInv, StartExit
  PROVE  AloneParts'
  <1>1. PICK r : r = RecordExit(disk, Head(queue).t,
                        [st |-> sess[<<Head(queue).t, Head(queue).k>>].st, k |-> Head(queue).k])
    OBVIOUS
  <1>2. job' = [job EXCEPT !.pc = "record", !.latest = r]
    BY <1>1 DEF StartExit
  <1>3. job'.pc = "record" /\ job'.latest = r /\ job'.fresh = job.fresh
    BY <1>2, AloneTypes DEF JobLocals
  <1>4. /\ UNCHANGED <<disk, sess, queue, client, checks, pms, boot>>
        /\ job.pc = "idle" /\ queue # <<>> /\ Head(queue).kind = "exit"
    BY DEF StartExit, LockFree
  <1>5. disk.status # "planning"
    BY <1>4, HeadAlone
  <1>6. JobAlone'
    BY <1>1, <1>3, <1>4 DEF AloneInv, AloneParts, JobAlone
  <1>7. QED BY <1>3, <1>4, <1>5, <1>6, JobFrame

LEMMA LoadAlone ==
  ASSUME AloneInv, LoadForDispatch, disk.status = "running"
  PROVE  AloneParts'
  <1>1. job' = [job EXCEPT !.pc = "pick", !.run = disk] /\ UNCHANGED <<disk, sess, queue, client, checks, pms, boot>>
    BY DEF LoadForDispatch
  <1>2. job'.pc = "pick" /\ job'.run = disk /\ job'.latest = job.latest /\ job'.fresh = job.fresh
    BY <1>1, AloneTypes DEF JobLocals
  <1>3. job.pc = "load" \/ (job.pc = "idle" /\ Head(queue).kind = "dispatch")
    BY DEF LoadForDispatch, AtDispatch, LockFree
  <1>4. JobAlone'
    BY <1>1, <1>2, <1>3 DEF AloneInv, AloneParts, JobAlone
  <1>5. QED BY <1>1, <1>2, <1>3, <1>4, JobFrame

LEMMA PickAlone ==
  ASSUME AloneInv, PickTask
  PROVE  AloneParts'
  <1>1. /\ UNCHANGED <<disk, sess, queue, client, checks, pms, boot>> /\ job.pc = "pick"
        /\ job.run = disk /\ disk.status = "running" /\ (Head(queue).kind = "exit" => job.latest = disk)
    BY DEF PickTask, AloneInv, AloneParts, JobAlone
  <1>2. CASE job' = [job EXCEPT !.pc = "store"]
    <2>1. job'.pc = "store" /\ job'.run = disk /\ job'.latest = job.latest /\ job'.fresh = job.fresh
      BY <1>1, <1>2, AloneTypes DEF JobLocals
    <2>2. JobAlone'
      BY <1>1, <2>1 DEF AloneInv, AloneParts, JobAlone
    <2>3. QED BY <1>1, <2>1, <2>2, JobFrame
  <1>3. ASSUME NEW i \in ReadyAt(job), job' = [job EXCEPT !.pc = "spawn", !.idx = i]
        PROVE  AloneParts'
    <2>1. /\ job'.pc = "spawn" /\ job'.idx = i
          /\ job'.run = disk /\ job'.latest = job.latest /\ job'.fresh = job.fresh
      BY <1>1, <1>3, AloneTypes DEF JobLocals
    <2>2. PICK t : t = Order[i]
      OBVIOUS
    <2>3. t \in Tasks
      <3>1. i \in job.idx .. Len(Order) /\ job.idx \in Nat \ {0} /\ Len(Order) \in Nat
        BY AloneTypes, PlanAssumption DEF ReadyAt, JobLocals
      <3>2. i \in 1 .. Len(Order)
        BY <3>1
      <3>3. QED BY <2>2, <3>2, PlanAssumption
    <2>4. View(job)[t].st = "none" /\ \A d \in Deps[t] : View(job)[d].st = "done"
      BY <2>2 DEF ReadyAt
    <2>5. job.fresh[t] = 0 /\ disk.w[t].st = "none"
      <3>1. CASE job.fresh[t] # 0
        <4>1. job.fresh[t] = 1
          BY <2>3, <3>1 DEF AloneInv, AloneParts, SessionsAlone, Entered
        <4>2. 1 \in Attempts
          <5>1. job.fresh[t] \in 0 .. MaxAttempts /\ MaxAttempts \in Nat
            BY <2>3, AloneTypes DEF JobLocals
          <5>2. QED BY <4>1, <5>1 DEF Attempts
        <4>3. sess[<<t, 1>>].pc # "unused"
          BY <2>3, <4>1, <4>2 DEF AloneInv, AloneParts, SessionsAlone, Entered
        <4>4. sess[<<t, 1>>].st # "none"
          BY <2>3, <4>2, <4>3, UsedIs DEF Outcomes
        <4>5. QED BY <2>3, <2>4, <4>1, <4>4 DEF View
      <3>2. CASE job.fresh[t] = 0
        BY <1>1, <2>3, <2>4, <3>2 DEF View
      <3>3. QED BY <3>1, <3>2
    <2>6. ASSUME NEW d \in Deps[t] PROVE job.fresh[d] # 0 \/ disk.w[d].st = "done"
      <3>1. d \in Tasks
        BY <2>3, PlanAssumption
      <3>2. QED BY <1>1, <2>4, <3>1 DEF View
    <2>7. JobAlone'
      BY <1>1, <2>1, <2>2, <2>5, <2>6 DEF AloneInv, AloneParts, JobAlone
    <2>8. QED BY <1>1, <2>1, <2>7, JobFrame
  <1>4. QED BY <1>2, <1>3 DEF PickTask

LEMMA SpawnErrorAlone ==
  ASSUME AloneInv, SpawnError
  PROVE  AloneParts'
  <1>1. job' = [job EXCEPT !.pc = "pick", !.idx = @ + 1] /\ job.pc = "spawn"
    BY DEF SpawnError
  <1>2. job'.pc = "pick" /\ job'.run = job.run /\ job'.latest = job.latest /\ job'.fresh = job.fresh
    BY <1>1, AloneTypes DEF JobLocals
  <1>3. UNCHANGED <<disk, sess, queue, client, checks, pms, boot>>
    BY DEF SpawnError
  <1>4. JobAlone' /\ disk.status = "running"
    BY <1>1, <1>2, <1>3 DEF AloneInv, AloneParts, JobAlone
  <1>5. QED BY <1>1, <1>2, <1>3, <1>4, JobFrame

LEMMA LoadReportsAlone ==
  ASSUME AloneInv, LoadForReports
  PROVE  AloneParts'
  <1>1. /\ job' = [job EXCEPT !.pc = "reports", !.latest = disk]
        /\ job.pc = "idle" /\ queue # <<>> /\ Head(queue).kind = "conflicts"
        /\ UNCHANGED <<disk, sess, queue, client, checks, pms, boot>>
    BY DEF LoadForReports, LockFree
  <1>2. job'.pc = "reports" /\ job'.latest = disk /\ job'.fresh = job.fresh
    BY <1>1, AloneTypes DEF JobLocals
  <1>3. JobAlone'
    BY <1>1, <1>2 DEF AloneInv, AloneParts, JobAlone
  <1>4. disk.status # "planning"
    BY <1>1, HeadAlone
  <1>5. QED BY <1>1, <1>2, <1>3, <1>4, JobFrame


(* A job that ends and leaves the entries as they are.                     *)
LEMMA ReleaseAlone ==
  ASSUME AloneInv, Release, queue # <<>>, UNCHANGED <<sess, client, pms, boot>>,
         disk'.w = disk.w, \A t \in Tasks : job.fresh[t] = 0,
         \/ disk' = disk /\ (disk.status \in {"done", "failed"} => disk.status = FinalStatus(disk.w))
         \/ disk.status # "planning" /\ AllDone(disk.w) /\ disk'.status = FinalStatus(disk.w),
         checks' = checks \/ disk.status # "planning"
  PROVE  AloneParts'
  <1>1. job'.pc = "idle" /\ (\A t \in Tasks : job'.fresh[t] = 0) /\ queue' = Tail(queue)
    BY DEF Release, NoJob
  <1>2. QueueAlone'
    BY <1>1, AloneTypes, QueueShorter DEF AloneInv, AloneParts
  <1>3. SessionsAlone'
    BY <1>1 DEF AloneInv, AloneParts, SessionsAlone, Entered
  <1>4. FinalStatus(disk.w) \in {"done", "failed"}
    BY DEF FinalStatus
  <1>5. JobAlone'
    BY <1>1, <1>4 DEF JobAlone, AloneInv, AloneParts
  <1>6. disk'.status = "planning" <=> disk.status = "planning"
    BY <1>4
  <1>7. Unstarted'
    <2> SUFFICES ASSUME disk'.status = "planning" PROVE Unstarted'
      BY DEF Unstarted
    <2>1. Unstarted /\ disk.status = "planning" /\ checks' = checks
      BY <1>6 DEF AloneInv, AloneParts
    <2>2. \A i \in 1 .. Len(queue') : queue'[i] = queue[i + 1] /\ i + 1 \in 1 .. Len(queue)
      <3>1. /\ Len(queue) \in Nat /\ Len(queue') = Len(queue) - 1
            /\ \A i \in 1 .. Len(queue') : queue'[i] = queue[i + 1]
        BY <1>1, AloneTypes, HeadTailProperties
      <3>2. QED BY <3>1
    <2>3. QED BY <1>1, <2>1, <2>2 DEF Unstarted
  <1>8. Calm'
    <2>1. \A c \in Clients : client[c].pc = "save" => disk' = disk
      BY DEF AloneInv, AloneParts, Calm
    <2>2. QED BY <1>6, <2>1 DEF AloneInv, AloneParts, Calm
  <1>9. VerdictAlone'
    <2>1. disk'.status \in {"done", "failed"} => AllDone(disk'.w) /\ disk'.status = FinalStatus(disk'.w)
      BY DEF AloneInv, AloneParts, VerdictAlone
    <2>2. QED BY <2>1 DEF VerdictAlone
  <1>10. QED BY <1>2, <1>3, <1>5, <1>7, <1>8, <1>9 DEF AloneParts

LEMMA TornAlone ==
  ASSUME AloneInv, TornLoad
  PROVE  AloneParts'
  <1>1. disk.status = "planning"
    BY DEF TornLoad, WriteUnderWay, AloneInv, AloneParts, Calm
  <1>2. job.pc = "idle" /\ \A i \in 1 .. Len(queue) : queue[i].kind = "dispatch"
    BY <1>1 DEF AloneInv, AloneParts, Unstarted
  <1>3. LockFree /\ Release /\ UNCHANGED <<disk, client, checks, pms, boot>>
    BY <1>2 DEF TornLoad
  <1>4. queue # <<>>
    BY <1>3 DEF LockFree
  <1>5. Head(queue).kind = "dispatch"
    BY <1>2, <1>4, HeadAlone
  <1>6. UNCHANGED sess
    BY <1>2, <1>5 DEF TornLoad
  <1>7. \A t \in Tasks : job.fresh[t] = 0
    BY <1>2, AloneTypes DEF InPass
  <1>8. QED BY <1>1, <1>3, <1>4, <1>6, <1>7, ReleaseAlone

LEMMA NoLoadAlone ==
  ASSUME AloneInv, LoadForDispatch, disk.status # "running"
  PROVE  AloneParts'
  <1>1. job.pc = "idle" /\ queue # <<>> /\ Head(queue).kind = "dispatch"
    BY DEF LoadForDispatch, AtDispatch, LockFree, AloneInv, AloneParts, JobAlone
  <1>2. Release /\ UNCHANGED <<disk, sess, client, checks, pms, boot>>
    BY <1>1 DEF LoadForDispatch, DispatchReturn
  <1>3. \A t \in Tasks : job.fresh[t] = 0
    BY <1>1, AloneTypes DEF InPass
  <1>4. disk.status \in {"done", "failed"} => disk.status = FinalStatus(disk.w)
    BY <1>1 DEF AloneInv, AloneParts, VerdictAlone
  <1>5. QED BY <1>1, <1>2, <1>3, <1>4, ReleaseAlone

LEMMA SaveReportsAlone ==
  ASSUME AloneInv, SaveReports
  PROVE  AloneParts'
  <1>1. job.pc = "reports" /\ Release /\ UNCHANGED <<sess, client, checks, pms, boot>> /\ disk' = job.latest
    BY DEF SaveReports
  <1>2. disk' = disk /\ queue # <<>>
    BY <1>1, AloneTypes DEF AloneInv, AloneParts, JobAlone, Holder
  <1>3. \A t \in Tasks : job.fresh[t] = 0
    BY <1>1, AloneTypes DEF InPass
  <1>4. disk.status \in {"done", "failed"} => disk.status = FinalStatus(disk.w)
    BY <1>1 DEF AloneInv, AloneParts, VerdictAlone
  <1>5. QED BY <1>1, <1>2, <1>3, <1>4, ReleaseAlone

(* What the end of an exit listener finds, and what it writes.             *)
LEMMA FinishIs ==
  ASSUME AloneInv, FinishExit
  PROVE  /\ disk.status # "planning" /\ queue # <<>>
         /\ \/ AllDone(disk.w) /\ disk' = [disk EXCEPT !.status = FinalStatus(disk.w)]
            \/ disk.status = "running" /\ disk' = disk
  <1>1. job.pc = "finish"
    BY DEF FinishExit
  <1>2. queue # <<>> /\ Head(queue).kind = "exit"
    BY <1>1, AloneTypes DEF Holder
  <1>3. disk.status \in {"running", "done", "failed"}
    BY <1>2, HeadAlone DEF AloneInv, AloneParts, JobAlone
  <1>4. CASE AllDone(job.latest.w)
    <2>1. job.latest = disk
      BY <1>1, <1>4 DEF AloneInv, AloneParts, JobAlone
    <2>2. QED BY <1>2, <1>3, <1>4, <2>1 DEF FinishExit
  <1>5. CASE ~AllDone(job.latest.w)
    <2>1. disk.status # "running" => job.latest = disk /\ AllDone(disk.w)
      BY <1>1, <1>3 DEF AloneInv, AloneParts, JobAlone, VerdictAlone
    <2>2. disk' = disk
      BY <1>5 DEF FinishExit
    <2>3. QED BY <1>2, <1>3, <1>5, <2>1, <2>2
  <1>6. QED BY <1>4, <1>5

LEMMA FinishAlone ==
  ASSUME AloneInv, FinishExit
  PROVE  AloneParts'
  <1>1. Release /\ UNCHANGED <<sess, client, pms, boot>> /\ job.pc = "finish"
    BY DEF FinishExit
  <1>2. /\ disk.status # "planning" /\ queue # <<>>
        /\ \/ AllDone(disk.w) /\ disk' = [disk EXCEPT !.status = FinalStatus(disk.w)]
           \/ disk.status = "running" /\ disk' = disk
    BY FinishIs
  <1>3. \A t \in Tasks : job.fresh[t] = 0
    BY <1>1, AloneTypes DEF InPass
  <1>4. CASE disk.status = "running" /\ disk' = disk
    BY <1>1, <1>2, <1>3, <1>4, ReleaseAlone
  <1>5. CASE AllDone(disk.w) /\ disk' = [disk EXCEPT !.status = FinalStatus(disk.w)]
    <2>1. disk'.w = disk.w /\ disk'.status = FinalStatus(disk.w)
      BY <1>5, AloneTypes DEF Run
    <2>2. QED BY <1>1, <1>2, <1>3, <1>5, <2>1, ReleaseAlone
  <1>6. QED BY <1>2, <1>4, <1>5

-----------------------------------------------------------------------------
(* The steps that change entries.                                          *)

(* What the exit listener has put together, and what its write makes.      *)
LEMMA RecordIs ==
  ASSUME AloneInv, job.pc = "record"
  PROVE  LET t == Head(queue).t
         IN  /\ queue # <<>> /\ Head(queue).kind = "exit" /\ t \in Tasks
             /\ Head(queue).k = 1 /\ 1 \in Attempts
             /\ disk.status # "planning"
             /\ sess[<<t, 1>>].pc = "queued" /\ sess[<<t, 1>>].st \in Outcomes
             /\ job.latest.status = disk.status
             /\ job.latest.w[t] = [st |-> sess[<<t, 1>>].st, k |-> 1]
             /\ \A u \in Tasks : u # t =>
                  job.latest.w[u] = IF sess[<<t, 1>>].st # "done" /\ t \in Deps[u] /\ disk.w[u].st = "none"
                                    THEN Blocked ELSE disk.w[u]
  <1>1. PICK t : t = Head(queue).t
    OBVIOUS
  <1>2. /\ queue # <<>> /\ Head(queue).kind = "exit"
    BY AloneTypes DEF Holder
  <1>3. /\ t \in Tasks /\ Head(queue).k = 1 /\ 1 \in Attempts /\ disk.status # "planning"
        /\ sess[<<t, 1>>].pc = "queued"
    BY <1>1, <1>2, HeadAlone
  <1>4. sess[<<t, 1>>].st \in Outcomes
    BY <1>3, UsedIs
  <1>5. PICK e : e = [st |-> sess[<<t, 1>>].st, k |-> 1]
    OBVIOUS
  <1>6. job.latest = RecordExit(disk, t, e)
    BY <1>1, <1>3, <1>5 DEF AloneInv, AloneParts, JobAlone
  <1>7. e.st = sess[<<t, 1>>].st /\ (e.st \in Unsuccessful <=> e.st # "done")
    BY <1>4, <1>5 DEF Outcomes, Unsuccessful
  <1>8. /\ job.latest.status = disk.status
        /\ job.latest.w = [u \in Tasks |->
              IF u = t THEN e
              ELSE IF e.st \in Unsuccessful /\ t \in Deps[u] /\ disk.w[u].st = "none"
                   THEN Blocked ELSE disk.w[u]]
    BY <1>6, AloneTypes DEF RecordExit, Run
  <1>9. /\ job.latest.w[t] = e
        /\ \A u \in Tasks : u # t =>
             job.latest.w[u] = IF sess[<<t, 1>>].st # "done" /\ t \in Deps[u] /\ disk.w[u].st = "none"
                               THEN Blocked ELSE disk.w[u]
    BY <1>3, <1>7, <1>8
  <1>10. QED BY <1>1, <1>2, <1>3, <1>4, <1>5, <1>8, <1>9

LEMMA SaveExitAlone ==
  ASSUME AloneInv, SaveExit
  PROVE  AloneParts'
  <1>1. PICK t : t = Head(queue).t
    OBVIOUS
  <1>2. PICK e : e = [st |-> sess[<<t, 1>>].st, k |-> 1]
    OBVIOUS
  <1>3. /\ queue # <<>> /\ Head(queue).kind = "exit" /\ t \in Tasks /\ Head(queue).k = 1 /\ 1 \in Attempts
        /\ disk.status # "planning" /\ job.pc = "record"
        /\ sess[<<t, 1>>].pc = "queued" /\ sess[<<t, 1>>].st \in Outcomes
        /\ job.latest.status = disk.status /\ job.latest.w[t] = e
        /\ \A u \in Tasks : u # t => \/ job.latest.w[u] = disk.w[u]
                                     \/ disk.w[u].st = "none" /\ job.latest.w[u] = Blocked
    BY <1>1, <1>2, RecordIs DEF SaveExit
  <1>4. /\ disk' = job.latest /\ UNCHANGED <<queue, client, checks, pms, boot>>
        /\ sess' = [sess EXCEPT ![<<t, 1>>].pc = "settled"]
        /\ job' = [job EXCEPT !.pc = IF job.latest.status = "running" THEN "load" ELSE "finish"]
    BY <1>1, <1>3 DEF SaveExit
  <1>5. /\ job'.pc = IF disk.status = "running" THEN "load" ELSE "finish"
        /\ job'.latest = disk' /\ job'.fresh = job.fresh
    BY <1>3, <1>4, AloneTypes DEF JobLocals
  <1>6. \A u \in Tasks : job.fresh[u] = 0
    BY <1>3, AloneTypes DEF InPass
  <1>7. /\ sess'[<<t, 1>>].pc = "settled" /\ sess'[<<t, 1>>].st = sess[<<t, 1>>].st
        /\ \A s \in Tasks \X Attempts : s # <<t, 1>> => sess'[s] = sess[s]
    BY <1>3, <1>4, AloneTypes DEF Session
  <1>8. \A s \in Tasks \X Attempts : Placed(sess[s])' 
    BY <1>3, <1>7 DEF AloneInv, AloneParts, SessionsAlone, Placed
  <1>9. ASSUME NEW u \in Tasks PROVE Entered(disk.w, job.fresh, u)'
    <2>0. Entered(disk.w, job.fresh, u) /\ job.fresh[u] = 0
      BY <1>6 DEF AloneInv, AloneParts, SessionsAlone
    <2>1. CASE u = t
      <3>1. disk'.w[u] = e /\ e.k = 1 /\ e.st = sess[<<t, 1>>].st
        BY <1>2, <1>3, <1>4, <2>1
      <3>2. \A k \in Attempts : k # 1 => sess'[<<u, k>>] = sess[<<u, k>>]
        BY <1>3, <1>7, <2>1
      <3>3. ASSUME NEW k \in Attempts
            PROVE  /\ sess'[<<u, k>>].pc # "unused" <=> k = 1
                   /\ sess'[<<u, k>>].st # "running"
                   /\ sess'[<<u, k>>].pc = "settled" => k = 1
        <4>1. CASE k = 1
          BY <1>3, <1>7, <2>1, <4>1 DEF Outcomes
        <4>2. CASE k # 1
          <5>1. sess[<<u, k>>].pc = "unused"
            BY <2>0, <4>2 DEF Entered
          <5>2. sess[<<u, k>>].st = "none"
            BY <5>1, AloneTypes DEF SessionsFit
          <5>3. QED BY <3>2, <4>2, <5>1, <5>2
        <4>3. QED BY <4>1, <4>2
      <3>4. e.st \notin {"none", "blocked", "running"}
        BY <1>3, <3>1 DEF Outcomes
      <3>5. e = [st |-> sess'[<<u, 1>>].st, k |-> 1]
        BY <1>2, <1>7, <2>1
      <3>6. job'.fresh[u] = 0
        BY <1>5, <2>0
      <3>7. QED BY <3>1, <3>3, <3>4, <3>5, <3>6 DEF Entered
    <2>2. CASE u # t
      <3>1. \A k \in Attempts : sess'[<<u, k>>] = sess[<<u, k>>]
        BY <1>7, <2>2
      <3>2. CASE disk'.w[u] = disk.w[u]
        BY <1>5, <2>0, <3>1, <3>2 DEF Entered
      <3>3. CASE disk.w[u].st = "none" /\ disk'.w[u] = Blocked
        <4>1. disk.w[u].k = 0
          BY <2>0, <3>3 DEF Entered
        <4>2. Blocked.k = 0 /\ Blocked.st = "blocked"
          BY DEF Blocked
        <4>3. ASSUME NEW k \in Attempts
              PROVE  /\ sess[<<u, k>>].pc = "unused" /\ sess[<<u, k>>].st # "running"
                     /\ sess[<<u, k>>].pc # "settled"
          <5>1. sess[<<u, k>>].pc = "unused"
            BY <2>0, <4>1, UsedIs
          <5>2. sess[<<u, k>>].st = "none"
            BY <5>1, AloneTypes DEF SessionsFit
          <5>3. QED BY <5>1, <5>2
        <4>4. QED BY <1>5, <2>0, <3>1, <3>3, <4>2, <4>3 DEF Entered
      <3>4. QED BY <1>3, <1>4, <2>2, <3>2, <3>3
    <2>3. QED BY <2>1, <2>2
  <1>10. SessionsAlone'
    BY <1>8, <1>9 DEF SessionsAlone
  <1>11. QueueAlone'
    <2>0. QueueAlone /\ Head(queue) = queue[1] /\ 1 \in 1 .. Len(queue) /\ queue \in Seq(Job)
      BY <1>3, AloneTypes, HeadAlone DEF AloneInv, AloneParts
    <2>1. ASSUME NEW i \in 1 .. Len(queue), queue[i].kind = "exit"
          PROVE  sess'[<<queue[i].t, queue[i].k>>].pc = IF i = 1 THEN "settled" ELSE "queued"
      <3>1. CASE i = 1
        BY <1>1, <1>3, <1>7, <2>0, <3>1
      <3>2. CASE i # 1
        <4>1. queue[i].t # t
          BY <1>1, <1>3, <2>0, <2>1, <3>2 DEF QueueAlone
        <4>2. queue[i] \in Job
          BY <2>0, <2>1
        <4>3. queue[i].t \in Tasks /\ queue[i].k \in Attempts
          BY <2>1, <4>2 DEF Job
        <4>4. sess'[<<queue[i].t, queue[i].k>>] = sess[<<queue[i].t, queue[i].k>>]
          BY <1>7, <4>1, <4>3
        <4>5. QED BY <2>0, <2>1, <3>2, <4>4 DEF QueueAlone
      <3>3. QED BY <3>1, <3>2
    <2>2. job'.pc \notin {"idle", "record"}
      BY <1>5
    <2>3. QED BY <1>4, <2>0, <2>1, <2>2 DEF QueueAlone
  <1>12. JobAlone'
    BY <1>3, <1>4, <1>5 DEF AloneInv, AloneParts, JobAlone
  <1>13. VerdictAlone'
    <2> SUFFICES ASSUME disk'.status \in {"done", "failed"}
                 PROVE  AllDone(disk'.w) /\ job'.pc = "finish"
      BY DEF VerdictAlone
    <2>1. AllDone(disk.w) /\ job'.pc = "finish"
      BY <1>3, <1>4, <1>5 DEF AloneInv, AloneParts, VerdictAlone
    <2>2. e.st \in Terminal
      BY <1>2, <1>3 DEF Outcomes, Terminal, Unsuccessful
    <2>3. \A u \in Tasks : disk.w[u].st \in Terminal /\ disk.w[u].st # "none"
      BY <2>1 DEF AllDone, Terminal, Unsuccessful
    <2>4. \A u \in Tasks : disk'.w[u].st \in Terminal
      BY <1>3, <1>4, <2>2, <2>3
    <2>5. QED BY <2>1, <2>4 DEF AllDone
  <1>14. Calm'
    BY <1>3, <1>4 DEF AloneInv, AloneParts, Calm
  <1>15. Unstarted'
    BY <1>3, <1>4 DEF Unstarted
  <1>16. QED BY <1>10, <1>11, <1>12, <1>13, <1>14, <1>15 DEF AloneParts


LEMMA SpawnIs ==
  ASSUME AloneInv, SpawnWorker
  PROVE  LET t == Order[job.idx]
         IN  /\ t \in Tasks /\ 1 \in Attempts
             /\ job.pc = "spawn" /\ job.run = disk /\ disk.status = "running"
             /\ disk.w[t].st = "none" /\ disk.w[t].k = 0 /\ job.fresh[t] = 0
             /\ \A k \in Attempts : sess[<<t, k>>].pc = "unused"
             /\ sess' = [sess EXCEPT ![<<t, 1>>] = [pc |-> "live", st |-> "running"]]
             /\ job' = [job EXCEPT !.pc = "pick", !.idx = @ + 1, !.fresh[t] = 1]
  <1>1. PICK t : t = Order[job.idx]
    OBVIOUS
  <1>2. job.pc = "spawn"
    BY DEF SpawnWorker
  <1>3. t \in Tasks
    <2>1. job.idx \in 1 .. Len(Order)
      BY <1>2 DEF AloneInv, CapInv, OrderInv, SpawnFits
    <2>2. QED BY <1>1, <2>1, PlanAssumption
  <1>4. job.run = disk /\ disk.status = "running" /\ disk.w[t].st = "none" /\ job.fresh[t] = 0
    BY <1>1, <1>2 DEF AloneInv, AloneParts, JobAlone
  <1>5. Entered(disk.w, job.fresh, t)
    BY <1>3 DEF AloneInv, AloneParts, SessionsAlone
  <1>6. disk.w[t].k = 0
    BY <1>4, <1>5 DEF Entered
  <1>7. ASSUME NEW k \in Attempts PROVE sess[<<t, k>>].pc = "unused"
    BY <1>3, <1>4, <1>6, UsedIs
  <1>8. PICK k \in Attempts :
          /\ \A h \in Attempts : sess[<<t, h>>].pc = "unused" <=> h >= k
          /\ sess' = [sess EXCEPT ![<<t, k>>] = [pc |-> "live", st |-> "running"]]
          /\ job' = [job EXCEPT !.pc = "pick", !.idx = @ + 1, !.fresh[t] = k]
    BY <1>1 DEF SpawnWorker
  <1>9. 1 \in Attempts /\ k = 1
    <2>1. k \in 1 .. MaxAttempts /\ MaxAttempts \in Nat
      BY AloneTypes DEF Attempts
    <2>2. 1 \in Attempts
      BY <2>1 DEF Attempts
    <2>3. 1 >= k
      BY <1>7, <1>8, <2>2
    <2>4. QED BY <2>1, <2>2, <2>3
  <1>10. QED BY <1>1, <1>2, <1>3, <1>4, <1>6, <1>7, <1>8, <1>9

LEMMA SpawnAlone ==
  ASSUME AloneInv, SpawnWorker
  PROVE  AloneParts'
  <1>1. PICK t : t = Order[job.idx]
    OBVIOUS
  <1>2. /\ t \in Tasks /\ 1 \in Attempts
        /\ job.pc = "spawn" /\ job.run = disk /\ disk.status = "running"
        /\ disk.w[t].st = "none" /\ disk.w[t].k = 0 /\ job.fresh[t] = 0
        /\ \A k \in Attempts : sess[<<t, k>>].pc = "unused"
        /\ sess' = [sess EXCEPT ![<<t, 1>>] = [pc |-> "live", st |-> "running"]]
        /\ job' = [job EXCEPT !.pc = "pick", !.idx = @ + 1, !.fresh[t] = 1]
    BY <1>1, SpawnIs
  <1>3. UNCHANGED <<disk, queue, client, checks, pms, boot>>
    BY DEF SpawnWorker
  <1>4. /\ job'.pc = "pick" /\ job'.run = job.run /\ job'.latest = job.latest
        /\ \A u \in Tasks : job'.fresh[u] = IF u = t THEN 1 ELSE job.fresh[u]
    BY <1>2, AloneTypes DEF JobLocals
  <1>5. /\ sess'[<<t, 1>>].pc = "live" /\ sess'[<<t, 1>>].st = "running"
        /\ \A s \in Tasks \X Attempts : s # <<t, 1>> => sess'[s] = sess[s]
    BY <1>2, AloneTypes
  <1>6. \A s \in Tasks \X Attempts : Placed(sess[s])'
    BY <1>2, <1>5 DEF AloneInv, AloneParts, SessionsAlone, Placed
  <1>7. ASSUME NEW u \in Tasks PROVE Entered(disk.w, job.fresh, u)'
    <2>0. Entered(disk.w, job.fresh, u)
      BY DEF AloneInv, AloneParts, SessionsAlone
    <2>1. CASE u = t
      <3>1. disk'.w[u].st = "none" /\ disk'.w[u].k = 0 /\ job'.fresh[u] = 1
        BY <1>2, <1>3, <1>4, <2>1
      <3>2. ASSUME NEW k \in Attempts
            PROVE  (sess'[<<u, k>>].pc # "unused" <=> k = 1) /\ sess'[<<u, k>>].pc # "settled"
        BY <1>2, <1>5, <2>1
      <3>3. QED BY <3>1, <3>2 DEF Entered
    <2>2. CASE u # t
      <3>1. \A k \in Attempts : sess'[<<u, k>>] = sess[<<u, k>>]
        BY <1>5, <2>2
      <3>2. QED BY <1>3, <1>4, <2>0, <2>2, <3>1 DEF Entered
    <2>3. QED BY <2>1, <2>2
  <1>8. SessionsAlone'
    BY <1>6, <1>7 DEF SessionsAlone
  <1>9. QueueAlone'
    <2>1. QueueAlone /\ queue \in Seq(Job)
      BY AloneTypes DEF AloneInv, AloneParts
    <2>2. ASSUME NEW i \in 1 .. Len(queue), queue[i].kind = "exit"
          PROVE  sess'[<<queue[i].t, queue[i].k>>] = sess[<<queue[i].t, queue[i].k>>]
      <3>1. queue[i] \in Job
        BY <2>1
      <3>2. queue[i].t \in Tasks /\ queue[i].k \in Attempts
        BY <2>2, <3>1 DEF Job
      <3>3. sess[<<queue[i].t, queue[i].k>>].pc # "unused"
        BY <2>1, <2>2 DEF QueueAlone
      <3>4. QED BY <1>2, <1>5, <3>2, <3>3
    <2>3. job'.pc \notin {"idle", "record"} /\ job.pc \notin {"idle", "record"}
      BY <1>2, <1>4
    <2>4. QED BY <1>3, <2>1, <2>2, <2>3 DEF QueueAlone
  <1>10. JobAlone'
    BY <1>2, <1>3, <1>4 DEF AloneInv, AloneParts, JobAlone
  <1>11. Calm' /\ Unstarted' /\ VerdictAlone'
    BY <1>2, <1>3, <1>4 DEF AloneInv, AloneParts, Calm, Unstarted, VerdictAlone
  <1>12. QED BY <1>8, <1>9, <1>10, <1>11 DEF AloneParts

(* What a pass writes back: an entry for each task it started.             *)
LEMMA StoreIs ==
  ASSUME AloneInv, SaveDispatch
  PROVE  /\ queue # <<>> /\ disk.status = "running" /\ disk'.status = "running"
         /\ Head(queue).kind = "exit" => job.latest = disk
         /\ \A t \in Tasks :
              \/ job.fresh[t] = 0 /\ disk'.w[t] = disk.w[t]
              \/ /\ job.fresh[t] = 1 /\ disk.w[t].st = "none" /\ 1 \in Attempts
                 /\ disk'.w[t] = [st |-> sess[<<t, 1>>].st, k |-> 1]
                 /\ sess[<<t, 1>>].st \in Outcomes \cup {"running"}
                 /\ sess[<<t, 1>>].pc \notin {"unused", "settled"}
         /\ (\A t \in Tasks : job.fresh[t] = 0) => disk' = disk
  <1>1. job.pc = "store" /\ job.run = disk /\ disk.status = "running"
        /\ (Head(queue).kind = "exit" => job.latest = disk)
    BY DEF SaveDispatch, AloneInv, AloneParts, JobAlone
  <1>2. queue # <<>>
    BY <1>1, AloneTypes DEF Holder
  <1>3. CASE FreshTasks(job.fresh) = {}
    <2>1. disk' = disk
      BY <1>3 DEF SaveDispatch
    <2>2. \A t \in Tasks : job.fresh[t] = 0
      BY <1>3 DEF FreshTasks
    <2>3. QED BY <1>1, <1>2, <2>1, <2>2
  <1>4. CASE FreshTasks(job.fresh) # {}
    <2>1. PICK v : v = View(job)
      OBVIOUS
    <2>2. disk' = [disk EXCEPT !.w = v]
      BY <1>1, <1>4, <2>1 DEF SaveDispatch
    <2>3. disk'.w = v /\ disk'.status = "running"
      BY <1>1, <2>2, AloneTypes DEF Run
    <2>4. ASSUME NEW t \in Tasks
          PROVE  \/ job.fresh[t] = 0 /\ disk'.w[t] = disk.w[t]
                 \/ /\ job.fresh[t] = 1 /\ disk.w[t].st = "none" /\ 1 \in Attempts
                    /\ disk'.w[t] = [st |-> sess[<<t, 1>>].st, k |-> 1]
                    /\ sess[<<t, 1>>].st \in Outcomes \cup {"running"}
                    /\ sess[<<t, 1>>].pc \notin {"unused", "settled"}
      <3>0. Entered(disk.w, job.fresh, t)
        BY DEF AloneInv, AloneParts, SessionsAlone
      <3>1. CASE job.fresh[t] = 0
        BY <1>1, <2>1, <2>3, <3>1 DEF View
      <3>2. CASE job.fresh[t] # 0
        <4>1. job.fresh[t] = 1 /\ disk.w[t].st = "none" /\ disk.w[t].k = 0
          BY <3>0, <3>2 DEF Entered
        <4>2. 1 \in Attempts
          <5>1. job.fresh[t] \in 0 .. MaxAttempts /\ MaxAttempts \in Nat
            BY AloneTypes DEF JobLocals
          <5>2. QED BY <4>1, <5>1 DEF Attempts
        <4>3. disk'.w[t] = [st |-> sess[<<t, 1>>].st, k |-> 1]
          BY <2>1, <2>3, <4>1 DEF View
        <4>4. sess[<<t, 1>>].pc # "unused"
          BY <3>0, <4>1, <4>2 DEF Entered
        <4>5. sess[<<t, 1>>].st \in Outcomes \cup {"running"}
          BY <4>2, <4>4, UsedIs
        <4>6. sess[<<t, 1>>].pc # "settled"
          <5>1. sess[<<t, 1>>].pc = "settled" => disk.w[t] = [st |-> sess[<<t, 1>>].st, k |-> 1]
            BY <3>0, <4>2 DEF Entered
          <5>2. QED BY <4>1, <5>1
        <4>7. QED BY <4>1, <4>2, <4>3, <4>4, <4>5, <4>6
      <3>3. QED BY <3>1, <3>2
    <2>5. ~(\A t \in Tasks : job.fresh[t] = 0)
      BY <1>4 DEF FreshTasks
    <2>6. QED BY <1>1, <1>2, <2>3, <2>4, <2>5
  <1>5. QED BY <1>3, <1>4

LEMMA StoreAlone ==
  ASSUME AloneInv, SaveDispatch
  PROVE  AloneParts'
  <1>1. /\ queue # <<>> /\ disk.status = "running" /\ disk'.status = "running"
        /\ Head(queue).kind = "exit" => job.latest = disk
        /\ \A t \in Tasks :
             \/ job.fresh[t] = 0 /\ disk'.w[t] = disk.w[t]
             \/ /\ job.fresh[t] = 1 /\ disk.w[t].st = "none" /\ 1 \in Attempts
                /\ disk'.w[t] = [st |-> sess[<<t, 1>>].st, k |-> 1]
                /\ sess[<<t, 1>>].st \in Outcomes \cup {"running"}
                /\ sess[<<t, 1>>].pc \notin {"unused", "settled"}
        /\ (\A t \in Tasks : job.fresh[t] = 0) => disk' = disk
    BY StoreIs
  <1>2. /\ job.pc = "store" /\ UNCHANGED <<sess, client, checks, pms, boot>>
        /\ DispatchReturn
    BY DEF SaveDispatch
  <1>3. /\ \A t \in Tasks : job'.fresh[t] = 0
        /\ \/ job'.pc = "idle" /\ queue' = Tail(queue)
           \/ /\ Head(queue).kind = "exit" /\ job'.pc = "finish" /\ job'.latest = job.latest
              /\ queue' = queue
    <2>1. CASE Head(queue).kind = "exit"
      <3>1. PICK l : l = job.latest
        OBVIOUS
      <3>2. job' = [NoJob EXCEPT !.pc = "finish", !.latest = l] /\ queue' = queue
        BY <1>2, <2>1, <3>1 DEF DispatchReturn
      <3>3. job'.pc = "finish" /\ job'.latest = l /\ job'.fresh = [t \in Tasks |-> 0]
        BY <3>2 DEF NoJob
      <3>4. QED BY <2>1, <3>1, <3>2, <3>3
    <2>2. CASE Head(queue).kind # "exit"
      <3>1. job' = NoJob /\ queue' = Tail(queue)
        BY <1>2, <2>2 DEF DispatchReturn, Release
      <3>2. QED BY <3>1 DEF NoJob
    <2>3. QED BY <2>1, <2>2
  <1>4. QueueAlone'
    <2>1. CASE job'.pc = "idle" /\ queue' = Tail(queue)
      BY <1>1, <1>2, <2>1, AloneTypes, QueueShorter DEF AloneInv, AloneParts
    <2>2. CASE job'.pc = "finish" /\ queue' = queue
      <3>1. job'.pc \notin {"idle", "record"} /\ job.pc \notin {"idle", "record"}
        BY <1>2, <2>2
      <3>2. QED BY <1>2, <2>2, <3>1, QueueSame DEF AloneInv, AloneParts
    <2>3. QED BY <1>3, <2>1, <2>2
  <1>5. ASSUME NEW t \in Tasks PROVE Entered(disk.w, job.fresh, t)'
    <2>0. Entered(disk.w, job.fresh, t) /\ job'.fresh[t] = 0
      BY <1>3 DEF AloneInv, AloneParts, SessionsAlone
    <2>1. CASE job.fresh[t] = 0 /\ disk'.w[t] = disk.w[t]
      BY <1>2, <2>0, <2>1 DEF Entered
    <2>2. CASE /\ job.fresh[t] = 1 /\ disk.w[t].st = "none" /\ 1 \in Attempts
               /\ disk'.w[t] = [st |-> sess[<<t, 1>>].st, k |-> 1]
               /\ sess[<<t, 1>>].st \in Outcomes \cup {"running"}
               /\ sess[<<t, 1>>].pc \notin {"unused", "settled"}
      <3>1. disk'.w[t].k = 1 /\ disk'.w[t].st = sess[<<t, 1>>].st
        BY <2>2
      <3>2. disk'.w[t].st \notin {"none", "blocked"}
        BY <2>2, <3>1 DEF Outcomes
      <3>3. ASSUME NEW k \in Attempts
            PROVE  /\ sess'[<<t, k>>].pc # "unused" <=> k = 1
                   /\ sess'[<<t, k>>].st = "running" => disk'.w[t].st = "running"
                   /\ sess'[<<t, k>>].pc # "settled"
        <4>1. CASE k = 1
          BY <1>2, <2>2, <3>1, <4>1
        <4>2. CASE k # 1
          <5>1. sess[<<t, k>>].pc = "unused"
            BY <4>2, UsedIs
          <5>2. sess[<<t, k>>].st = "none"
            BY <5>1, AloneTypes DEF SessionsFit
          <5>3. QED BY <1>2, <4>2, <5>1, <5>2
        <4>3. QED BY <4>1, <4>2
      <3>4. QED BY <2>0, <3>1, <3>2, <3>3 DEF Entered
    <2>3. QED BY <1>1, <2>1, <2>2
  <1>6. SessionsAlone'
    BY <1>2, <1>5 DEF AloneInv, AloneParts, SessionsAlone
  <1>7. JobAlone'
    <2>1. job'.pc = "finish" => job'.latest = disk
      BY <1>1, <1>3
    <2>2. job'.pc = "finish" /\ AllDone(job'.latest.w) => job'.latest = disk'
      <3> SUFFICES ASSUME job'.pc = "finish", AllDone(disk.w) PROVE disk' = disk
        BY <2>1
      <3>1. \A t \in Tasks : disk.w[t].st # "none"
        BY DEF AllDone, Terminal, Unsuccessful
      <3>2. QED BY <1>1, <3>1
    <2>3. job'.pc \in {"idle", "finish"}
      BY <1>3
    <2>4. QED BY <1>1, <2>2, <2>3 DEF JobAlone
  <1>8. Calm' /\ Unstarted' /\ VerdictAlone'
    BY <1>1, <1>2 DEF AloneInv, AloneParts, Calm, Unstarted, VerdictAlone
  <1>9. QED BY <1>4, <1>6, <1>7, <1>8 DEF AloneParts


-----------------------------------------------------------------------------
(* What happens outside the lock.                                          *)

(* A job that is not an exit joins the queue.                              *)
LEMMA JoinAlone ==
  ASSUME AloneInv, NEW j \in {DispatchJob, ConflictsJob}, queue' = Append(queue, j),
         UNCHANGED <<sess, job>>, disk'.w = disk.w, Calm',
         disk' = disk \/ (disk.status = "planning" /\ disk'.status = "running"),
         disk'.status = "planning" => checks' = 0 /\ j = DispatchJob
  PROVE  AloneParts'
  <1>1. j \in Job /\ j.kind # "exit" /\ (j = DispatchJob => j.kind = "dispatch")
    BY DEF Job, DispatchJob, ConflictsJob
  <1>2. QueueAlone'
    BY <1>1, AloneTypes, QueueLonger DEF AloneInv, AloneParts, Holder
  <1>3. SessionsAlone'
    BY DEF AloneInv, AloneParts, SessionsAlone, Entered
  <1>4. disk' # disk => job.pc = "idle"
    BY DEF AloneInv, AloneParts, Unstarted
  <1>5. JobAlone'
    <2>1. Head(queue') = Head(queue) \/ job.pc = "idle"
      BY <1>1, AloneTypes, AppendHead DEF Holder
    <2>2. CASE job.pc = "idle"
      BY <2>2 DEF AloneInv, AloneParts, JobAlone
    <2>3. CASE job.pc # "idle"
      BY <1>4, <2>1, <2>3 DEF AloneInv, AloneParts, JobAlone
    <2>4. QED BY <2>2, <2>3
  <1>6. Unstarted'
    <2> SUFFICES ASSUME disk'.status = "planning" PROVE Unstarted'
      BY DEF Unstarted
    <2>1. Unstarted /\ disk' = disk /\ checks' = 0 /\ j.kind = "dispatch"
      BY <1>1 DEF AloneInv, AloneParts
    <2>2. \A i \in 1 .. Len(queue') : queue'[i].kind = "dispatch"
      <3>1. /\ Len(queue) \in Nat /\ Len(queue') = Len(queue) + 1
            /\ \A i \in 1 .. Len(queue) : queue'[i] = queue[i]
            /\ queue'[Len(queue) + 1] = j
        BY <1>1, AloneTypes, AppendProperties
      <3>2. \A i \in 1 .. Len(queue') : i \in 1 .. Len(queue) \/ i = Len(queue) + 1
        BY <3>1
      <3>3. QED BY <2>1, <3>1, <3>2 DEF Unstarted
    <2>3. QED BY <2>1, <2>2 DEF Unstarted
  <1>7. VerdictAlone'
    BY DEF AloneInv, AloneParts, VerdictAlone
  <1>8. QED BY <1>2, <1>3, <1>5, <1>6, <1>7 DEF AloneParts

LEMMA QueueReportsAlone ==
  ASSUME AloneInv, QueueReports
  PROVE  AloneParts'
  <1>1. disk.status # "planning"
    BY DEF QueueReports, AloneInv, AloneParts, Unstarted
  <1>2. UNCHANGED <<disk, sess, job, client, pms, boot>> /\ (queue' = Append(queue, ConflictsJob) \/ UNCHANGED queue)
    BY DEF QueueReports
  <1>3. Calm'
    BY <1>2 DEF AloneInv, AloneParts, Calm
  <1>4. CASE queue' = Append(queue, ConflictsJob)
    BY <1>1, <1>2, <1>3, <1>4, JoinAlone
  <1>5. CASE UNCHANGED queue
    <2>1. QueueAlone' /\ SessionsAlone' /\ JobAlone'
      BY <1>2, <1>5 DEF AloneInv, AloneParts, QueueAlone, SessionsAlone, Entered, JobAlone
    <2>2. Unstarted' /\ VerdictAlone'
      BY <1>1, <1>2 DEF AloneInv, AloneParts, Unstarted, VerdictAlone
    <2>3. QED BY <1>3, <2>1, <2>2 DEF AloneParts
  <1>6. QED BY <1>2, <1>4, <1>5

LEMMA DispatchAlone ==
  ASSUME AloneInv, Dispatch
  PROVE  AloneParts'
  <1>1. queue' = Append(queue, DispatchJob) /\ UNCHANGED <<disk, sess, job, client, checks, pms, boot>>
    BY DEF Dispatch
  <1>2. Calm' /\ (disk'.status = "planning" => checks' = 0)
    BY <1>1 DEF AloneInv, AloneParts, Calm, Unstarted
  <1>3. QED BY <1>1, <1>2, JoinAlone

LEMMA BeginAlone ==
  ASSUME AloneInv, NEW c \in Clients, Begin(c, "approve", NoTask)
  PROVE  AloneParts'
  <1>1. disk.status = "planning" /\ UNCHANGED <<disk, sess, queue, job, checks, pms, boot>>
    BY DEF Begin, Accepts, MayApprove
  <1>2. client' = [client EXCEPT ![c] = [kind |-> "approve", t |-> NoTask, run |-> disk, pc |-> "save"]]
    BY DEF Begin
  <1>3. Calm'
    <2>1. ASSUME NEW d \in Clients
          PROVE  \/ client'[d] = client[d]
                 \/ client'[d] = [kind |-> "approve", t |-> NoTask, run |-> disk, pc |-> "save"]
      BY <1>2, AloneTypes
    <2>2. QED BY <1>1, <2>1 DEF AloneInv, AloneParts, Calm
  <1>4. QueueAlone' /\ SessionsAlone' /\ JobAlone'
    BY <1>1 DEF AloneInv, AloneParts, QueueAlone, SessionsAlone, Entered, JobAlone
  <1>5. Unstarted' /\ VerdictAlone'
    BY <1>1 DEF AloneInv, AloneParts, Unstarted, VerdictAlone
  <1>6. QED BY <1>3, <1>4, <1>5 DEF AloneParts

LEMMA ApproveIs ==
  ASSUME AloneInv, NEW c \in Clients, Approve(c)
  PROVE  /\ disk.status = "planning" /\ disk' = [disk EXCEPT !.status = "running"]
         /\ disk'.status = "running" /\ disk'.w = disk.w
         /\ client' = [client EXCEPT ![c] = Idle]
         /\ queue' = Append(queue, DispatchJob) /\ UNCHANGED <<sess, job, checks, pms, boot>>
  <1>1. /\ client[c].pc = "save" /\ disk' = [client[c].run EXCEPT !.status = "running"]
        /\ client' = [client EXCEPT ![c] = Idle]
        /\ queue' = Append(queue, DispatchJob) /\ UNCHANGED <<sess, job, checks, pms, boot>>
    BY DEF Approve, Commit, Copy
  <1>2. client[c].run = disk /\ disk.status = "planning"
    BY <1>1 DEF AloneInv, AloneParts, Calm
  <1>3. disk' = [disk EXCEPT !.status = "running"]
    BY <1>1, <1>2
  <1>4. QED BY <1>1, <1>2, <1>3, AloneTypes DEF Run

LEMMA ApproveAlone ==
  ASSUME LeftAlone, AloneInv, NEW c \in Clients, Approve(c)
  PROVE  AloneParts'
  <1>1. /\ disk.status = "planning" /\ disk'.status = "running" /\ disk'.w = disk.w
        /\ client' = [client EXCEPT ![c] = Idle]
        /\ queue' = Append(queue, DispatchJob) /\ UNCHANGED <<sess, job, checks, pms, boot>>
    BY ApproveIs
  <1>2. \A d \in Clients : client'[d] = Idle
    BY <1>1, AloneTypes DEF LeftAlone
  <1>3. Calm'
    BY <1>1, <1>2 DEF AloneInv, AloneParts, Calm, Idle
  <1>4. QED BY <1>1, <1>3, JoinAlone

(* What a session does, and that it is the first of its task.              *)
LEMMA SessionIs ==
  ASSUME AloneInv, NEW t \in Tasks, NEW k \in Attempts, SessionStep(t, k)
  PROVE  /\ k = 1 /\ disk.status # "planning"
         /\ UNCHANGED <<disk, job, client, checks, pms, boot>>
         /\ \E p \in {"live", "validating", "queued"}, st \in Outcomes :
              /\ sess' = [sess EXCEPT ![<<t, k>>] = [pc |-> p, st |-> st]]
              /\ \/ p = "live" /\ st = "stuck" /\ UNCHANGED queue
                    /\ sess[<<t, k>>] = [pc |-> "live", st |-> "running"]
                 \/ p = "validating" /\ st = "done" /\ UNCHANGED queue /\ sess[<<t, k>>].pc = "live"
                 \/ /\ p = "queued" /\ queue' = Append(queue, [kind |-> "exit", t |-> t, k |-> k])
                    /\ \/ sess[<<t, k>>].pc = "live" /\ st \in {"stuck", "failed"}
                       \/ sess[<<t, k>>].pc = "validating" /\ st \in {"done", "validation_failed"}
  <1>1. sess[<<t, k>>].pc \in {"live", "validating"} /\ UNCHANGED <<disk, job, client, checks, pms, boot>>
    BY DEF SessionStep, Stall, ExitClean, ExitError, Validate
  <1>2. k = 1 /\ disk.status # "planning"
    BY <1>1, UsedIs
  <1>3. sess[<<t, k>>] \in Session
    BY AloneTypes
  <1>4. CASE Stall(t, k)
    <2>1. sess[<<t, k>>] = [pc |-> "live", st |-> "running"]
      BY <1>3, <1>4 DEF Stall, Session
    <2>2. sess' = [sess EXCEPT ![<<t, k>>] = [pc |-> "live", st |-> "stuck"]]
      <3>1. [sess[<<t, k>>] EXCEPT !.st = "stuck"] = [pc |-> "live", st |-> "stuck"]
        BY <2>1
      <3>2. sess' = [sess EXCEPT ![<<t, k>>] = [sess[<<t, k>>] EXCEPT !.st = "stuck"]]
        BY <1>4 DEF Stall
      <3>3. QED BY <3>1, <3>2
    <2>3. UNCHANGED queue /\ "stuck" \in Outcomes /\ "live" \in {"live", "validating", "queued"}
      BY <1>4 DEF Stall, Outcomes
    <2>4. QED BY <1>1, <1>2, <2>1, <2>2, <2>3
  <1>5. CASE ExitClean(t, k)
    BY <1>1, <1>2, <1>5 DEF ExitClean, Outcomes
  <1>6. CASE ExitError(t, k)
    <2>1. \E st \in {"stuck", "failed"} :
            sess' = [sess EXCEPT ![<<t, k>>] = [pc |-> "queued", st |-> st]]
      BY <1>6 DEF ExitError
    <2>2. sess[<<t, k>>].pc = "live" /\ queue' = Append(queue, [kind |-> "exit", t |-> t, k |-> k])
      BY <1>6 DEF ExitError
    <2>3. QED BY <1>1, <1>2, <2>1, <2>2 DEF Outcomes
  <1>7. CASE Validate(t, k)
    BY <1>1, <1>2, <1>7 DEF Validate, Outcomes
  <1>8. QED BY <1>4, <1>5, <1>6, <1>7 DEF SessionStep

LEMMA SessionAlone ==
  ASSUME AloneInv, NEW t \in Tasks, NEW k \in Attempts, SessionStep(t, k)
  PROVE  AloneParts'
  <1>1. k = 1 /\ disk.status # "planning" /\ UNCHANGED <<disk, job, client, checks, pms, boot>>
    BY SessionIs
  <1>2. PICK p \in {"live", "validating", "queued"}, st \in Outcomes :
          /\ sess' = [sess EXCEPT ![<<t, k>>] = [pc |-> p, st |-> st]]
          /\ sess[<<t, k>>].pc \in {"live", "validating"}
          /\ p = "validating" => st = "done"
          /\ \/ UNCHANGED queue
             \/ p = "queued" /\ queue' = Append(queue, [kind |-> "exit", t |-> t, k |-> k])
    <2>1. PICK p \in {"live", "validating", "queued"}, st \in Outcomes :
            /\ sess' = [sess EXCEPT ![<<t, k>>] = [pc |-> p, st |-> st]]
            /\ \/ p = "live" /\ st = "stuck" /\ UNCHANGED queue
                  /\ sess[<<t, k>>] = [pc |-> "live", st |-> "running"]
               \/ p = "validating" /\ st = "done" /\ UNCHANGED queue /\ sess[<<t, k>>].pc = "live"
               \/ /\ p = "queued" /\ queue' = Append(queue, [kind |-> "exit", t |-> t, k |-> k])
                  /\ \/ sess[<<t, k>>].pc = "live" /\ st \in {"stuck", "failed"}
                     \/ sess[<<t, k>>].pc = "validating" /\ st \in {"done", "validation_failed"}
      BY SessionIs
    <2>2. sess[<<t, k>>].pc \in {"live", "validating"}
      BY <2>1
    <2>3. QED BY <2>1, <2>2
  <1>3. /\ sess'[<<t, k>>].pc = p /\ sess'[<<t, k>>].st = st
        /\ \A s \in Tasks \X Attempts : s # <<t, k>> => sess'[s] = sess[s]
    BY <1>2, AloneTypes
  <1>4. \A s \in Tasks \X Attempts : Placed(sess[s])'
    BY <1>2, <1>3 DEF AloneInv, AloneParts, SessionsAlone, Placed
  <1>5. ASSUME NEW u \in Tasks PROVE Entered(disk.w, job.fresh, u)'
    <2>1. Entered(disk.w, job.fresh, u)
      BY DEF AloneInv, AloneParts, SessionsAlone
    <2>2. ASSUME NEW h \in Attempts
          PROVE  /\ sess'[<<u, h>>].pc # "unused" <=> sess[<<u, h>>].pc # "unused"
                 /\ sess'[<<u, h>>].st = "running" => sess[<<u, h>>].st = "running"
                 /\ sess'[<<u, h>>].pc = "settled" => sess'[<<u, h>>] = sess[<<u, h>>]
      <3>1. CASE <<u, h>> = <<t, k>>
        BY <1>2, <1>3, <3>1 DEF Outcomes
      <3>2. CASE <<u, h>> # <<t, k>>
        BY <1>3, <3>2
      <3>3. QED BY <3>1, <3>2
    <2>3. QED BY <1>1, <2>1, <2>2 DEF Entered
  <1>6. SessionsAlone'
    BY <1>4, <1>5 DEF SessionsAlone
  <1>7. ASSUME NEW i \in 1 .. Len(queue), queue[i].kind = "exit"
        PROVE  /\ queue[i].t # t
               /\ sess'[<<queue[i].t, queue[i].k>>] = sess[<<queue[i].t, queue[i].k>>]
    <2>1. queue[i] \in Job
      BY AloneTypes
    <2>2. queue[i].t \in Tasks /\ queue[i].k \in Attempts
      BY <1>7, <2>1 DEF Job
    <2>3. sess[<<queue[i].t, queue[i].k>>].pc \in {"settled", "queued"}
      BY <1>7 DEF AloneInv, AloneParts, QueueAlone
    <2>4. queue[i].k = 1
      BY <2>2, <2>3, UsedIs
    <2>5. queue[i].t # t
      BY <1>1, <1>2, <2>3, <2>4
    <2>6. QED BY <1>3, <2>2, <2>5
  <1>8. QueueAlone'
    <2>1. CASE UNCHANGED queue
      BY <1>1, <1>7, <2>1 DEF AloneInv, AloneParts, QueueAlone
    <2>2. CASE p = "queued" /\ queue' = Append(queue, [kind |-> "exit", t |-> t, k |-> k])
      <3>1. PICK j \in Job : j = [kind |-> "exit", t |-> t, k |-> k]
        BY QueuedJobs
      <3>2. j.t = t /\ j.k = k /\ sess'[<<j.t, j.k>>].pc = "queued"
        BY <1>3, <2>2, <3>1
      <3>3. QueueAlone /\ queue \in Seq(Job) /\ (job.pc # "idle" => queue # <<>>) /\ queue' = Append(queue, j)
        BY <2>2, <3>1, AloneTypes DEF AloneInv, AloneParts, Holder
      <3>4. QED BY <1>1, <1>7, <3>2, <3>3, QueueLonger
    <2>3. QED BY <1>2, <2>1, <2>2
  <1>9. JobAlone'
    <2>1. Head(queue') = Head(queue) \/ job.pc = "idle"
      BY <1>2, AloneTypes, QueuedJobs, AppendHead DEF Holder
    <2>2. CASE job.pc = "idle"
      BY <1>1, <2>2 DEF AloneInv, AloneParts, JobAlone
    <2>3. CASE job.pc = "record"
      <3>1. queue # <<>> /\ Head(queue).kind = "exit"
        BY <2>3, AloneTypes DEF Holder
      <3>2. sess'[<<Head(queue).t, Head(queue).k>>] = sess[<<Head(queue).t, Head(queue).k>>]
        BY <1>7, <3>1, HeadAlone
      <3>3. Head(queue') = Head(queue)
        BY <2>1, <2>3
      <3>4. PICK r : r = RecordExit(disk, Head(queue).t,
                           [st |-> sess[<<Head(queue).t, Head(queue).k>>].st, k |-> Head(queue).k])
        OBVIOUS
      <3>5. job.latest = r
        BY <2>3, <3>4 DEF AloneInv, AloneParts, JobAlone
      <3>6. job'.latest = RecordExit(disk', Head(queue').t,
                           [st |-> sess'[<<Head(queue').t, Head(queue').k>>].st, k |-> Head(queue').k])
        BY <1>1, <3>2, <3>3, <3>4, <3>5
      <3>7. QED BY <1>1, <2>3, <3>6 DEF AloneInv, AloneParts, JobAlone
    <2>4. CASE job.pc \notin {"idle", "record"}
      BY <1>1, <2>1, <2>4 DEF AloneInv, AloneParts, JobAlone
    <2>5. QED BY <2>2, <2>3, <2>4
  <1>10. Calm' /\ Unstarted' /\ VerdictAlone'
    BY <1>1 DEF AloneInv, AloneParts, Calm, Unstarted, VerdictAlone
  <1>11. QED BY <1>6, <1>8, <1>9, <1>10 DEF AloneParts

LEMMA AloneStep == LeftAlone /\ AloneInv /\ [Next]_vars => AloneInv'
  <1> SUFFICES ASSUME LeftAlone, AloneInv, [Next]_vars PROVE AloneInv'
    OBVIOUS
  <1>1. CapInv'
    BY CapStep DEF AloneInv
  <1>2. ASSUME UNCHANGED vars PROVE AloneParts'
    <2>1. UNCHANGED <<disk, sess, queue, job, client, checks, pms, boot>>
      BY <1>2 DEF vars
    <2>2. QueueAlone' /\ SessionsAlone' /\ JobAlone'
      BY <2>1 DEF AloneInv, AloneParts, QueueAlone, SessionsAlone, Entered, JobAlone
    <2>3. Calm' /\ Unstarted' /\ VerdictAlone'
      BY <2>1 DEF AloneInv, AloneParts, Calm, Unstarted, VerdictAlone
    <2>4. QED BY <2>2, <2>3 DEF AloneParts
  <1>3. ASSUME LockStep PROVE AloneParts'
    BY <1>3, StartExitAlone, SaveExitAlone, TornAlone, LoadAlone, NoLoadAlone, PickAlone, SpawnAlone,
       SpawnErrorAlone, StoreAlone, FinishAlone, LoadReportsAlone, SaveReportsAlone DEF LockStep
  <1>4. ASSUME Next PROVE AloneParts'
    BY <1>2, <1>3, <1>4, StepsAlone, SessionAlone, QueueReportsAlone, DispatchAlone, BeginAlone, ApproveAlone
  <1>5. QED BY <1>1, <1>2, <1>4 DEF AloneInv


LEMMA AloneAlways ==
  ASSUME LeftAlone
  PROVE  Spec => []AloneInv
  <1>1. Init => AloneInv
    BY AloneInit
  <1>2. AloneInv /\ [Next]_vars => AloneInv'
    BY AloneStep
  <1>3. QED BY <1>1, <1>2, PTL DEF Spec

(* What an exit listener wrote about its worker stays in run.json.         *)
THEOREM ExitsAreKept ==
  ASSUME LeftAlone
  PROVE  Spec => []NoLostExit
  <1>1. AloneInv => NoLostExit
    BY DEF AloneInv, AloneParts, SessionsAlone, Entered, NoLostExit
  <1>2. QED BY <1>1, AloneAlways, PTL

(* A run at rest has the verdict its workers earned: it is closed as done  *)
(* when every worker was validated, as failed otherwise.                   *)
THEOREM VerdictIsRight ==
  ASSUME LeftAlone
  PROVE  Spec => []RestingVerdict
  <1>1. AloneInv => RestingVerdict
    <2> SUFFICES ASSUME AloneInv, Quiescent, disk.status \in {"done", "failed"}
                 PROVE  /\ \A t \in Tasks : disk.w[t].st \in Terminal
                        /\ disk.status = "done" <=>
                             \A t \in Tasks : disk.w[t].k # 0 /\ sess[<<t, disk.w[t].k>>].st = "done"
      BY DEF RestingVerdict
    <2>1. job.pc = "idle"
      BY AloneTypes DEF Quiescent, Holder
    <2>2. AllDone(disk.w) /\ disk.status = FinalStatus(disk.w)
      BY <2>1 DEF AloneInv, AloneParts, VerdictAlone
    <2>3. ASSUME NEW t \in Tasks
          PROVE  disk.w[t].st = "done" <=> disk.w[t].k # 0 /\ sess[<<t, disk.w[t].k>>].st = "done"
      <3>1. disk.w[t].k = 0 => disk.w[t].st # "done"
        BY DEF AloneInv, AloneParts, SessionsAlone, Entered
      <3>2. ASSUME disk.w[t].k # 0
            PROVE  sess[<<t, disk.w[t].k>>].st = disk.w[t].st
        <4>1. disk.w[t] \in Entry /\ MaxAttempts \in Nat
          BY AloneTypes
        <4>2. disk.w[t].k \in Attempts /\ disk.w[t].k = 1
          BY <3>2, <4>1 DEF Entry, Attempts, AloneInv, AloneParts, SessionsAlone, Entered
        <4>3. sess[<<t, 1>>].pc # "unused"
          BY <4>2 DEF AloneInv, AloneParts, SessionsAlone, Entered
        <4>4. sess[<<t, 1>>].pc = "settled"
          BY <4>2, <4>3 DEF Quiescent, AloneInv, AloneParts, SessionsAlone, Placed
        <4>5. disk.w[t] = [st |-> sess[<<t, 1>>].st, k |-> 1]
          BY <4>2, <4>4 DEF AloneInv, AloneParts, SessionsAlone, Entered
        <4>6. QED BY <4>2, <4>5
      <3>3. QED BY <3>1, <3>2
    <2>4. disk.status = "done" <=> \A t \in Tasks : disk.w[t].st = "done"
      BY <2>2 DEF FinalStatus
    <2>5. QED BY <2>2, <2>3, <2>4 DEF AllDone
  <1>2. QED BY <1>1, AloneAlways, PTL

-----------------------------------------------------------------------------
(* The conductor left to itself implements PlanRun.                        *)

(* The phase of a task, from its session and its entry in run.json.        *)
PhaseFrom(s, st) ==
    CASE s.pc = "unused" -> IF st = "blocked" THEN "blocked" ELSE "todo"
      [] s.pc = "live" -> IF s.st = "stuck" THEN "stalled" ELSE "active"
      [] s.pc \in {"validating", "queued"} -> IF s.st \in Clean THEN "clean" ELSE "broken"
      [] s.pc \in {"settled", "lost"} -> IF s.st = "done" THEN "done" ELSE "failed"

LEMMA PhaseIs ==
  ASSUME NEW t \in Tasks
  PROVE  /\ PhaseOf(t) = PhaseFrom(sess[<<t, 1>>], disk.w[t].st)
         /\ PhaseOf(t)' = PhaseFrom(sess'[<<t, 1>>], disk'.w[t].st)
  BY DEF PhaseOf, PhaseFrom, ExitedCleanly, Clean

LEMMA PhaseCases ==
  ASSUME NEW s, NEW st
  PROVE  /\ s.pc = "unused" => PhaseFrom(s, st) = IF st = "blocked" THEN "blocked" ELSE "todo"
         /\ s.pc = "live" => PhaseFrom(s, st) = IF s.st = "stuck" THEN "stalled" ELSE "active"
         /\ s.pc \in {"validating", "queued"} => PhaseFrom(s, st) = IF s.st \in Clean THEN "clean" ELSE "broken"
         /\ s.pc = "settled" => PhaseFrom(s, st) = IF s.st = "done" THEN "done" ELSE "failed"
  BY DEF PhaseFrom

PhaseNow == [t \in Tasks |-> PhaseOf(t)]

LEMMA PhaseEdit ==
  ASSUME NEW t \in Tasks, NEW p, PhaseOf(t)' = p, \A u \in Tasks : u # t => PhaseOf(u)' = PhaseOf(u)
  PROVE  PhaseNow' = [PhaseNow EXCEPT ![t] = p]
  BY DEF PhaseNow

(* A step that changes no session, and no entry from or to blocked.        *)
LEMMA PhaseSame ==
  ASSUME UNCHANGED sess, \A t \in Tasks : disk'.w[t].st = "blocked" <=> disk.w[t].st = "blocked"
  PROVE  PhaseNow' = PhaseNow
  <1>1. ASSUME NEW t \in Tasks PROVE PhaseOf(t)' = PhaseOf(t)
    BY PhaseIs DEF PhaseFrom
  <1>2. QED BY <1>1 DEF PhaseNow

LEMMA PlanVars == Plan!vars = <<disk.status, PhaseNow>> /\ (Plan!vars)' = <<disk'.status, PhaseNow'>>
  BY DEF Plan!vars, PhaseNow

LEMMA PlanInit == LeftAlone /\ Init => Plan!Init
  <1> SUFFICES ASSUME LeftAlone, Init PROVE Plan!Init
    OBVIOUS
  <1>1. 1 \in Attempts
    BY BoundAssumption DEF LeftAlone, Attempts
  <1>2. \A t \in Tasks : PhaseOf(t) = "todo"
    BY <1>1 DEF Init, PhaseOf, NewRun, NoWorker
  <1>3. QED BY <1>2 DEF Plan!Init, Init, NewRun


(* A step the plan does not see.                                           *)
LEMMA PlanStutter ==
  ASSUME UNCHANGED sess, disk'.status = disk.status,
         \A t \in Tasks : disk'.w[t].st = "blocked" <=> disk.w[t].st = "blocked"
  PROVE  UNCHANGED Plan!vars
  BY PhaseSame, PlanVars

LEMMA FirstAttempt ==
  ASSUME LeftAlone
  PROVE  1 \in Attempts
  BY BoundAssumption DEF LeftAlone, Attempts

LEMMA PlanCardinality == \A S : Plan!Cardinality(S) = Cardinality(S)
  BY DEF Plan!Cardinality, Cardinality

LEMMA PlanApprove ==
  ASSUME AloneInv, NEW c \in Clients, Approve(c)
  PROVE  Plan!Approve
  <1>1. disk.status = "planning" /\ disk'.status = "running" /\ disk'.w = disk.w /\ UNCHANGED sess
    BY ApproveIs
  <1>2. PhaseNow' = PhaseNow
    BY <1>1, PhaseSame
  <1>3. QED BY <1>1, <1>2 DEF Plan!Approve, PhaseNow

(* The pass starts a task: its dependencies have ended cleanly, whoever    *)
(* works is counted by the pass.                                           *)
LEMMA PlanStart ==
  ASSUME LeftAlone, AloneInv, SpawnWorker
  PROVE  \E t \in Tasks : Plan!Start(t)
  <1>1. PICK t : t = Order[job.idx]
    OBVIOUS
  <1>2. /\ t \in Tasks /\ 1 \in Attempts
        /\ job.pc = "spawn" /\ job.run = disk /\ disk.status = "running"
        /\ disk.w[t].st = "none" /\ disk.w[t].k = 0 /\ job.fresh[t] = 0
        /\ \A k \in Attempts : sess[<<t, k>>].pc = "unused"
        /\ sess' = [sess EXCEPT ![<<t, 1>>] = [pc |-> "live", st |-> "running"]]
    BY <1>1, SpawnIs
  <1>3. disk' = disk
    BY DEF SpawnWorker
  <1>4. /\ sess'[<<t, 1>>].pc = "live" /\ sess'[<<t, 1>>].st = "running"
        /\ \A s \in Tasks \X Attempts : s # <<t, 1>> => sess'[s] = sess[s]
    BY <1>2, AloneTypes
  <1>5. PhaseOf(t) = "todo" /\ PhaseOf(t)' = "active"
    BY <1>2, <1>4, PhaseIs, PhaseCases
  <1>6. ASSUME NEW u \in Tasks, u # t PROVE PhaseOf(u)' = PhaseOf(u)
    <2>1. sess'[<<u, 1>>] = sess[<<u, 1>>]
      BY <1>2, <1>4, <1>6
    <2>2. QED BY <1>3, <2>1, PhaseIs
  <1>7. PhaseNow' = [PhaseNow EXCEPT ![t] = "active"] /\ PhaseNow[t] = "todo"
    BY <1>2, <1>5, <1>6, PhaseEdit DEF PhaseNow
  <1>8. ASSUME NEW d \in Deps[t] PROVE d \in Tasks /\ PhaseOf(d) \in {"clean", "done"}
    <2>1. d \in Tasks
      BY <1>2, PlanAssumption
    <2>2. PICK h \in Attempts : sess[<<d, h>>].st \in Clean
      BY <1>1, <1>2 DEF AloneInv, CapInv, OrderInv, SpawnFits
    <2>3. sess[<<d, h>>].pc \notin {"unused", "live"}
      BY <2>1, <2>2, AloneTypes DEF SessionsFit, Clean
    <2>4. h = 1
      BY <2>1, <2>3, UsedIs
    <2>5. sess[<<d, 1>>].pc \in {"validating", "queued", "settled"}
      <3>1. sess[<<d, 1>>] \in Session /\ sess[<<d, 1>>].pc # "lost"
        BY <1>2, <2>1, AloneTypes DEF AloneInv, AloneParts, SessionsAlone, Placed
      <3>2. QED BY <2>3, <2>4, <3>1 DEF Session, SessionPc
    <2>6. CASE sess[<<d, 1>>].pc \in {"validating", "queued"}
      BY <2>1, <2>2, <2>4, <2>6, PhaseIs, PhaseCases
    <2>7. CASE sess[<<d, 1>>].pc = "settled"
      <3>1. Entered(disk.w, job.fresh, d)
        BY <2>1 DEF AloneInv, AloneParts, SessionsAlone
      <3>2. disk.w[d] = [st |-> sess[<<d, 1>>].st, k |-> 1]
        BY <1>2, <2>7, <3>1 DEF Entered
      <3>3. disk.w[d].st \in Clean /\ disk.w[d].st = sess[<<d, 1>>].st
        BY <2>2, <2>4, <3>2
      <3>4. job.fresh[d] = 0
        BY <3>1, <3>3 DEF Entered, Clean
      <3>5. disk.w[d].st = "done"
        BY <1>1, <1>2, <3>4 DEF AloneInv, AloneParts, JobAlone
      <3>6. QED BY <2>1, <2>7, <3>3, <3>5, PhaseIs, PhaseCases
    <2>8. QED BY <2>1, <2>5, <2>6, <2>7
  <1>9. Deps[t] \subseteq {u \in Tasks : PhaseNow[u] \in {"clean", "done"}}
    BY <1>8 DEF PhaseNow
  <1>10. Cardinality({u \in Tasks : PhaseNow[u] \in {"active"}}) < MaxWorkers
    <2> DEFINE A == {u \in Tasks : PhaseNow[u] \in {"active"}}
               R == RunningTasks(disk.w)
               F == FreshTasks(job.fresh)
    <2>1. ASSUME NEW u \in Tasks, PhaseOf(u) = "active" PROVE disk.w[u].st = "running" \/ job.fresh[u] # 0
      <3>1. sess[<<u, 1>>] \in Session
            /\ (sess[<<u, 1>>].pc = "live" => sess[<<u, 1>>].st \in {"running", "stuck"})
            /\ sess[<<u, 1>>].pc # "lost"
        BY <1>2, AloneTypes DEF SessionsFit, AloneInv, AloneParts, SessionsAlone, Placed
      <3>2. sess[<<u, 1>>].pc = "live" /\ sess[<<u, 1>>].st = "running"
        BY <2>1, <3>1, PhaseIs, PhaseCases DEF Session, SessionPc
      <3>3. Entered(disk.w, job.fresh, u)
        BY DEF AloneInv, AloneParts, SessionsAlone
      <3>4. job.fresh[u] = 1 \/ disk.w[u].st = "running"
        BY <3>2, <3>3, FirstAttempt DEF Entered
      <3>5. QED BY <3>4
    <2>2. A \subseteq R \cup F
      BY <2>1 DEF PhaseNow, RunningTasks, FreshTasks
    <2>3. A \in SUBSET Tasks /\ R \in SUBSET Tasks /\ F \in SUBSET Tasks /\ R \cup F \in SUBSET Tasks
      BY DEF RunningTasks, FreshTasks
    <2>4. Cardinality(R) + Cardinality(F) < MaxWorkers
      BY <1>2 DEF AloneInv, CapInv, PassFits, PassLoad
    <2>5. Cardinality(A) <= Cardinality(R \cup F) /\ Cardinality(R \cup F) <= Cardinality(R) + Cardinality(F)
      BY <2>2, <2>3, CountSubset, CountUnion
    <2>6. /\ Cardinality(A) \in Nat /\ Cardinality(R) \in Nat /\ Cardinality(F) \in Nat
          /\ Cardinality(R \cup F) \in Nat /\ MaxWorkers \in Nat
      BY <2>3, FiniteTasks, BoundAssumption
    <2>7. QED BY <2>4, <2>5, <2>6
  <1>11. Plan!Start(t)
    <2>1. Plan!InPhase({"active"}) = {u \in Tasks : PhaseNow[u] \in {"active"}}
          /\ Plan!InPhase({"clean", "done"}) = {u \in Tasks : PhaseNow[u] \in {"clean", "done"}}
      BY DEF Plan!InPhase, PhaseNow
    <2>2. Plan!Cardinality(Plan!InPhase({"active"})) < MaxWorkers /\ Deps[t] \subseteq Plan!InPhase({"clean", "done"})
      BY <1>9, <1>10, <2>1, PlanCardinality
    <2>3. QED BY <1>2, <1>3, <1>7, <2>2 DEF Plan!Start, PhaseNow
  <1>12. QED BY <1>2, <1>11

LEMMA PlanSession ==
  ASSUME AloneInv, NEW t \in Tasks, NEW k \in Attempts, SessionStep(t, k)
  PROVE  Plan!GiveUp(t) \/ Plan!Exit(t) \/ UNCHANGED Plan!vars
  <1>1. k = 1 /\ UNCHANGED disk
    BY SessionIs
  <1>2. PICK p \in {"live", "validating", "queued"}, st \in Outcomes :
          /\ sess' = [sess EXCEPT ![<<t, k>>] = [pc |-> p, st |-> st]]
          /\ \/ p = "live" /\ st = "stuck" /\ UNCHANGED queue
                /\ sess[<<t, k>>] = [pc |-> "live", st |-> "running"]
             \/ p = "validating" /\ st = "done" /\ UNCHANGED queue /\ sess[<<t, k>>].pc = "live"
             \/ /\ p = "queued" /\ queue' = Append(queue, [kind |-> "exit", t |-> t, k |-> k])
                /\ \/ sess[<<t, k>>].pc = "live" /\ st \in {"stuck", "failed"}
                   \/ sess[<<t, k>>].pc = "validating" /\ st \in {"done", "validation_failed"}
    BY SessionIs
  <1>3. /\ sess'[<<t, 1>>].pc = p /\ sess'[<<t, 1>>].st = st
        /\ \A s \in Tasks \X Attempts : s # <<t, k>> => sess'[s] = sess[s]
    BY <1>1, <1>2, AloneTypes
  <1>4. ASSUME NEW u \in Tasks, u # t PROVE PhaseOf(u)' = PhaseOf(u)
    <2>1. sess'[<<u, 1>>] = sess[<<u, 1>>]
      BY <1>1, <1>3, <1>4
    <2>2. QED BY <1>1, <2>1, PhaseIs
  <1>5. \A q : PhaseOf(t)' = q => PhaseNow' = [PhaseNow EXCEPT ![t] = q]
    BY <1>4, PhaseEdit
  <1>6. PhaseNow[t] = PhaseOf(t) /\ PhaseNow = [PhaseNow EXCEPT ![t] = PhaseOf(t)]
    BY DEF PhaseNow
  <1>7. CASE p = "live" /\ st = "stuck" /\ sess[<<t, k>>] = [pc |-> "live", st |-> "running"]
    <2>1. sess[<<t, 1>>].pc = "live" /\ sess[<<t, 1>>].st = "running"
      BY <1>1, <1>7
    <2>2. PhaseOf(t) = "active" /\ PhaseOf(t)' = "stalled"
      BY <1>3, <1>7, <2>1, PhaseIs, PhaseCases
    <2>3. PhaseNow' = [PhaseNow EXCEPT ![t] = "stalled"] /\ PhaseNow[t] = "active"
      BY <1>5, <1>6, <2>2
    <2>4. QED BY <1>1, <2>3 DEF Plan!GiveUp, PhaseNow
  <1>8. CASE sess[<<t, k>>].pc = "live" /\ p \in {"validating", "queued"}
    <2>1. PhaseOf(t) \in {"active", "stalled"} /\ PhaseOf(t)' \in {"clean", "broken"}
      BY <1>1, <1>3, <1>8, PhaseIs, PhaseCases
    <2>2. PICK q \in {"clean", "broken"} : PhaseNow' = [PhaseNow EXCEPT ![t] = q]
      BY <1>5, <2>1
    <2>3. PhaseNow[t] \in {"active", "stalled"}
      BY <1>6, <2>1
    <2>4. QED BY <1>1, <2>2, <2>3 DEF Plan!Exit, PhaseNow
  <1>9. CASE sess[<<t, k>>].pc = "validating" /\ p = "queued" /\ st \in {"done", "validation_failed"}
    <2>1. sess[<<t, 1>>].st = "done"
      BY <1>1, <1>9 DEF AloneInv, AloneParts, SessionsAlone, Placed
    <2>2. PhaseOf(t) = "clean" /\ PhaseOf(t)' = "clean"
      BY <1>1, <1>3, <1>9, <2>1, PhaseIs, PhaseCases DEF Clean
    <2>3. PhaseNow' = PhaseNow
      BY <1>5, <1>6, <2>2
    <2>4. QED BY <1>1, <2>3, PlanVars
  <1>10. QED BY <1>2, <1>7, <1>8, <1>9


LEMMA FirstSession ==
  ASSUME AloneInv, NEW t \in Tasks, 1 \in Attempts, job.fresh[t] = 0
  PROVE  sess[<<t, 1>>].pc = "unused" <=> disk.w[t].st \in {"none", "blocked"}
  <1>1. Entered(disk.w, job.fresh, t)
    BY DEF AloneInv, AloneParts, SessionsAlone
  <1>2. disk.w[t].k \in {0, 1} /\ (disk.w[t].k = 0 <=> disk.w[t].st \in {"none", "blocked"})
    BY <1>1 DEF Entered
  <1>3. ASSUME sess[<<t, 1>>].pc # "unused" PROVE disk.w[t].k = 1
    BY <1>3, UsedIs
  <1>4. ASSUME disk.w[t].k = 1 PROVE sess[<<t, 1>>].pc # "unused"
    BY <1>1, <1>4 DEF Entered
  <1>5. CASE disk.w[t].k = 0
    BY <1>2, <1>3, <1>5
  <1>6. CASE disk.w[t].k = 1
    BY <1>2, <1>4, <1>6
  <1>7. QED BY <1>2, <1>5, <1>6

(* The exit is recorded: done, or failed and its direct dependents blocked. *)
LEMMA PlanRecord ==
  ASSUME AloneInv, SaveExit
  PROVE  \E t \in Tasks : Plan!RecordDone(t) \/ Plan!RecordFailed(t)
  <1>1. PICK t : t = Head(queue).t
    OBVIOUS
  <1>2. /\ t \in Tasks /\ Head(queue).k = 1 /\ 1 \in Attempts /\ job.pc = "record"
        /\ sess[<<t, 1>>].pc = "queued" /\ sess[<<t, 1>>].st \in Outcomes
        /\ job.latest.status = disk.status
        /\ job.latest.w[t] = [st |-> sess[<<t, 1>>].st, k |-> 1]
        /\ \A u \in Tasks : u # t =>
             job.latest.w[u] = IF sess[<<t, 1>>].st # "done" /\ t \in Deps[u] /\ disk.w[u].st = "none"
                               THEN Blocked ELSE disk.w[u]
    BY <1>1, RecordIs DEF SaveExit
  <1>3. disk' = job.latest /\ sess' = [sess EXCEPT ![<<t, 1>>].pc = "settled"]
    BY <1>1, <1>2 DEF SaveExit
  <1>4. /\ sess'[<<t, 1>>].pc = "settled" /\ sess'[<<t, 1>>].st = sess[<<t, 1>>].st
        /\ \A s \in Tasks \X Attempts : s # <<t, 1>> => sess'[s] = sess[s]
    BY <1>2, <1>3, AloneTypes DEF Session
  <1>5. /\ PhaseOf(t) = IF sess[<<t, 1>>].st \in Clean THEN "clean" ELSE "broken"
        /\ PhaseOf(t)' = IF sess[<<t, 1>>].st = "done" THEN "done" ELSE "failed"
    BY <1>2, <1>4, PhaseIs, PhaseCases
  <1>6. \A u \in Tasks : u # t => sess'[<<u, 1>>] = sess[<<u, 1>>]
    BY <1>2, <1>4
  <1>7. CASE sess[<<t, 1>>].st = "done"
    <2>1. ASSUME NEW u \in Tasks, u # t PROVE PhaseOf(u)' = PhaseOf(u)
      <3>1. disk'.w[u] = disk.w[u] /\ sess'[<<u, 1>>] = sess[<<u, 1>>]
        BY <1>2, <1>3, <1>6, <1>7, <2>1
      <3>2. QED BY <3>1, PhaseIs
    <2>2. PhaseOf(t)' = "done" /\ PhaseOf(t) = "clean"
      BY <1>5, <1>7 DEF Clean
    <2>3. PhaseNow' = [PhaseNow EXCEPT ![t] = "done"] /\ PhaseNow[t] = "clean"
      BY <1>2, <2>1, <2>2, PhaseEdit DEF PhaseNow
    <2>4. Plan!RecordDone(t)
      BY <1>2, <1>3, <2>3 DEF Plan!RecordDone, PhaseNow
    <2>5. QED BY <1>2, <2>4
  <1>8. CASE sess[<<t, 1>>].st # "done"
    <2>1. ASSUME NEW u \in Tasks, u # t
          PROVE  PhaseOf(u)' = IF PhaseOf(u) = "todo" /\ t \in Deps[u] THEN "blocked" ELSE PhaseOf(u)
      <3>1. /\ sess'[<<u, 1>>] = sess[<<u, 1>>]
            /\ disk'.w[u] = IF t \in Deps[u] /\ disk.w[u].st = "none" THEN Blocked ELSE disk.w[u]
        BY <1>2, <1>3, <1>6, <1>8, <2>1
      <3>2. Entered(disk.w, job.fresh, u) /\ job.fresh[u] = 0
        BY <1>2, AloneTypes DEF InPass, AloneInv, AloneParts, SessionsAlone
      <3>3. disk.w[u].st \in {"none", "blocked"} <=> sess[<<u, 1>>].pc = "unused"
        BY <1>2, <3>2, FirstSession
      <3>4. CASE t \in Deps[u] /\ disk.w[u].st = "none"
        <4>1. disk'.w[u].st = "blocked" /\ sess[<<u, 1>>].pc = "unused"
          BY <3>1, <3>3, <3>4 DEF Blocked
        <4>2. PhaseOf(u) = "todo" /\ PhaseOf(u)' = "blocked"
          BY <3>1, <3>4, <4>1, PhaseIs, PhaseCases
        <4>3. QED BY <3>4, <4>2
      <3>5. CASE ~(t \in Deps[u] /\ disk.w[u].st = "none")
        <4>1. PhaseOf(u)' = PhaseOf(u)
          BY <3>1, <3>5, PhaseIs
        <4>2. PhaseOf(u) = "todo" => disk.w[u].st = "none"
          <5>1. sess[<<u, 1>>] \in Session /\ sess[<<u, 1>>].pc # "lost"
            BY <1>2, AloneTypes DEF AloneInv, AloneParts, SessionsAlone, Placed
          <5>2. PhaseOf(u) = "todo" => sess[<<u, 1>>].pc = "unused" /\ disk.w[u].st # "blocked"
            BY <5>1, PhaseIs, PhaseCases DEF Session, SessionPc
          <5>3. QED BY <3>3, <5>2
        <4>3. QED BY <3>5, <4>1, <4>2
      <3>6. QED BY <3>4, <3>5
    <2>2. PhaseOf(t)' = "failed" /\ PhaseNow[t] \in {"clean", "broken"}
      BY <1>2, <1>5, <1>8 DEF PhaseNow
    <2>3. PhaseNow' = [u \in Tasks |-> IF u = t THEN "failed"
                                       ELSE IF PhaseNow[u] = "todo" /\ t \in Deps[u] THEN "blocked"
                                       ELSE PhaseNow[u]]
      BY <2>1, <2>2 DEF PhaseNow
    <2>4. Plan!RecordFailed(t)
      BY <1>2, <1>3, <2>2, <2>3 DEF Plan!RecordFailed, PhaseNow
    <2>5. QED BY <1>2, <2>4
  <1>9. QED BY <1>7, <1>8

(* The run is closed, or nothing happens that the plan sees.               *)
LEMMA PlanClose ==
  ASSUME LeftAlone, AloneInv, FinishExit
  PROVE  Plan!Close \/ UNCHANGED Plan!vars
  <1>1. /\ disk.status # "planning" /\ UNCHANGED sess /\ job.pc = "finish"
        /\ \/ AllDone(disk.w) /\ disk' = [disk EXCEPT !.status = FinalStatus(disk.w)]
           \/ disk.status = "running" /\ disk' = disk
    BY FinishIs DEF FinishExit
  <1>2. CASE disk' = disk
    BY <1>1, <1>2, PlanStutter
  <1>3. CASE AllDone(disk.w) /\ disk' = [disk EXCEPT !.status = FinalStatus(disk.w)]
    <2>1. disk'.w = disk.w /\ disk'.status = FinalStatus(disk.w)
      BY <1>3, AloneTypes DEF Run
    <2>2. PhaseNow' = PhaseNow
      BY <1>1, <2>1, PhaseSame
    <2>3. ASSUME NEW t \in Tasks
          PROVE  /\ PhaseOf(t) \notin {"todo", "active"}
                 /\ disk.w[t].st = "done" => PhaseOf(t) \in {"clean", "done"}
                 /\ disk.w[t].st # "done" => PhaseOf(t) # "done"
      <3>1. /\ Entered(disk.w, job.fresh, t) /\ job.fresh[t] = 0 /\ disk.w[t].st \in Terminal /\ 1 \in Attempts
            /\ sess[<<t, 1>>].pc # "lost"
        BY <1>1, <1>3, FirstAttempt, AloneTypes
           DEF InPass, AllDone, AloneInv, AloneParts, SessionsAlone, Placed
      <3>2. /\ sess[<<t, 1>>] \in Session
            /\ sess[<<t, 1>>].pc = "live" => sess[<<t, 1>>].st \in {"running", "stuck"}
        BY <3>1, AloneTypes DEF SessionsFit
      <3>3. disk.w[t].st \notin {"none", "running"}
        BY <3>1 DEF Terminal, Unsuccessful
      <3>4. CASE disk.w[t].st = "blocked"
        <4>1. sess[<<t, 1>>].pc = "unused"
          BY <3>1, <3>4, FirstSession
        <4>2. QED BY <3>4, <4>1, PhaseIs, PhaseCases
      <3>5. CASE disk.w[t].st # "blocked"
        <4>1. disk.w[t].k = 1 /\ sess[<<t, 1>>].pc # "unused" /\ sess[<<t, 1>>].st # "running"
          BY <3>1, <3>3, <3>5 DEF Entered
        <4>2. sess[<<t, 1>>].pc = "live" => PhaseOf(t) = "stalled"
          BY <3>2, <4>1, PhaseIs, PhaseCases
        <4>3. sess[<<t, 1>>].pc = "settled" => PhaseOf(t) \in {"done", "failed"} /\ sess[<<t, 1>>].st = disk.w[t].st
          <5>1. sess[<<t, 1>>].pc = "settled" => disk.w[t] = [st |-> sess[<<t, 1>>].st, k |-> 1]
            BY <3>1 DEF Entered
          <5>2. QED BY <5>1, PhaseIs, PhaseCases
        <4>4. sess[<<t, 1>>].pc \in {"validating", "queued"} =>
                PhaseOf(t) = IF sess[<<t, 1>>].st \in Clean THEN "clean" ELSE "broken"
          BY PhaseIs, PhaseCases
        <4>5. sess[<<t, 1>>].pc \in {"live", "validating", "queued", "settled"}
          BY <3>1, <3>2, <4>1 DEF Session, SessionPc
        <4>6. disk.w[t].st = "done" => sess[<<t, 1>>].st \in Clean
          BY <4>1 DEF AloneInv, CapInv, OrderInv, CopiesEarned, Earned
        <4>7. sess[<<t, 1>>].pc = "settled" => PhaseOf(t) = IF disk.w[t].st = "done" THEN "done" ELSE "failed"
          BY <4>3, PhaseIs, PhaseCases
        <4>8. disk.w[t].st = "done" => sess[<<t, 1>>].pc # "live"
          BY <3>2, <4>6 DEF Clean
        <4>9. QED BY <4>2, <4>4, <4>5, <4>6, <4>7, <4>8
      <3>6. QED BY <3>4, <3>5
    <2>4. Plan!InPhase({"todo", "active"}) = {}
      BY <2>3 DEF Plan!InPhase
    <2>5. CASE \A t \in Tasks : disk.w[t].st = "done"
      <3>1. Plan!InPhase({"stalled", "broken", "failed", "blocked"}) = {}
        BY <2>3, <2>5 DEF Plan!InPhase
      <3>2. disk'.status = "done"
        BY <2>1, <2>5 DEF FinalStatus
      <3>3. QED BY <1>1, <2>2, <2>4, <3>1, <3>2 DEF Plan!Close, PhaseNow
    <2>6. CASE ~(\A t \in Tasks : disk.w[t].st = "done")
      <3>1. Plan!InPhase({"done"}) # Tasks
        BY <2>3, <2>6 DEF Plan!InPhase
      <3>2. disk'.status = "failed"
        BY <2>1, <2>6 DEF FinalStatus
      <3>3. QED BY <1>1, <2>2, <2>4, <3>1, <3>2 DEF Plan!Close, PhaseNow
    <2>7. QED BY <2>5, <2>6
  <1>4. QED BY <1>1, <1>2, <1>3

(* The steps of the lock that only look, and the write of a pass: it tells *)
(* the plan nothing new.                                                   *)
LEMMA PlanLook ==
  ASSUME AloneInv,
         \/ StartExit \/ TornLoad \/ LoadForDispatch \/ PickTask \/ SpawnError \/ SaveDispatch
         \/ LoadForReports \/ SaveReports \/ QueueReports \/ Dispatch
         \/ \E c \in Clients : Begin(c, "approve", NoTask)
         \/ UNCHANGED vars
  PROVE  UNCHANGED Plan!vars
  <1>1. CASE \/ StartExit \/ LoadForDispatch \/ PickTask \/ SpawnError \/ LoadForReports \/ QueueReports
             \/ Dispatch \/ UNCHANGED vars
    <2>1. UNCHANGED <<disk, sess>>
      BY <1>1 DEF StartExit, LoadForDispatch, PickTask, SpawnError, LoadForReports, QueueReports, Dispatch, vars
    <2>2. QED BY <2>1, PlanStutter
  <1>2. CASE \E c \in Clients : Begin(c, "approve", NoTask)
    <2>1. UNCHANGED <<disk, sess>>
      BY <1>2 DEF Begin
    <2>2. QED BY <2>1, PlanStutter
  <1>3. CASE SaveReports
    <2>1. UNCHANGED <<disk, sess>>
      BY <1>3 DEF SaveReports, AloneInv, AloneParts, JobAlone
    <2>2. QED BY <2>1, PlanStutter
  <1>4. CASE TornLoad
    <2>1. disk.status = "planning"
      BY <1>4 DEF TornLoad, WriteUnderWay, AloneInv, AloneParts, Calm
    <2>2. job.pc = "idle" /\ LockFree
      BY <1>4, <2>1 DEF AloneInv, AloneParts, Unstarted, TornLoad
    <2>3. Head(queue).kind # "exit"
      BY <2>1, <2>2, HeadAlone, HeadIsJob, AloneTypes DEF LockFree
    <2>4. UNCHANGED <<disk, sess>>
      BY <1>4, <2>2, <2>3 DEF TornLoad
    <2>5. QED BY <2>4, PlanStutter
  <1>5. CASE SaveDispatch
    <2>1. /\ disk.status = "running" /\ disk'.status = "running"
          /\ \A t \in Tasks :
               \/ job.fresh[t] = 0 /\ disk'.w[t] = disk.w[t]
               \/ /\ job.fresh[t] = 1 /\ disk.w[t].st = "none" /\ 1 \in Attempts
                  /\ disk'.w[t] = [st |-> sess[<<t, 1>>].st, k |-> 1]
                  /\ sess[<<t, 1>>].st \in Outcomes \cup {"running"}
                  /\ sess[<<t, 1>>].pc \notin {"unused", "settled"}
      BY <1>5, StoreIs
    <2>2. UNCHANGED sess
      BY <1>5 DEF SaveDispatch
    <2>3. ASSUME NEW t \in Tasks PROVE disk'.w[t].st = "blocked" <=> disk.w[t].st = "blocked"
      <3>1. CASE disk'.w[t] = disk.w[t]
        BY <3>1
      <3>2. CASE /\ disk.w[t].st = "none" /\ sess[<<t, 1>>].st \in Outcomes \cup {"running"}
                 /\ disk'.w[t] = [st |-> sess[<<t, 1>>].st, k |-> 1]
        <4>1. disk'.w[t].st = sess[<<t, 1>>].st
          BY <3>2
        <4>2. QED BY <3>2, <4>1 DEF Outcomes
      <3>3. QED BY <2>1, <3>1, <3>2
    <2>4. QED BY <2>1, <2>2, <2>3, PlanStutter
  <1>6. QED BY <1>1, <1>2, <1>3, <1>4, <1>5

LEMMA PlanStep == LeftAlone /\ AloneInv /\ [Next]_vars => [Plan!Next]_(Plan!vars)
  <1> SUFFICES ASSUME LeftAlone, AloneInv, [Next]_vars PROVE [Plan!Next]_(Plan!vars)
    OBVIOUS
  <1>1. ASSUME NEW t \in Tasks, NEW k \in Attempts, SessionStep(t, k) PROVE [Plan!Next]_(Plan!vars)
    BY <1>1, PlanSession DEF Plan!Next
  <1>2. ASSUME LockStep PROVE [Plan!Next]_(Plan!vars)
    <2>1. CASE SaveExit
      BY <2>1, PlanRecord DEF Plan!Next
    <2>2. CASE SpawnWorker
      BY <2>2, PlanStart DEF Plan!Next
    <2>3. CASE FinishExit
      BY <2>3, PlanClose DEF Plan!Next
    <2>4. QED BY <1>2, <2>1, <2>2, <2>3, PlanLook DEF LockStep
  <1>3. ASSUME NEW c \in Clients, Approve(c) PROVE [Plan!Next]_(Plan!vars)
    BY <1>3, PlanApprove DEF Plan!Next
  <1>4. QED BY <1>1, <1>2, <1>3, PlanLook, StepsAlone

(* The conductor left to itself does what PlanRun promises, for every plan *)
(* and worker limit.                                                       *)
THEOREM PlanIsImplemented ==
  ASSUME LeftAlone
  PROVE  Spec => ImplementsPlan
  <1>1. Init => Plan!Init
    BY PlanInit
  <1>2. AloneInv /\ [Next]_vars => [Plan!Next]_(Plan!vars)
    BY PlanStep
  <1>3. Spec => []AloneInv
    BY AloneAlways
  <1>4. QED BY <1>1, <1>2, <1>3, PTL DEF Spec, ImplementsPlan, Plan!Spec


-----------------------------------------------------------------------------
(* One request at a time, and no torn read: approvals, resumes and reopens *)
(* between crashes.  Every running entry that is written belongs to a      *)
(* session whose exit is still going to be recorded, except between a      *)
(* crash and the end of recovery.                                          *)

OneAtATime ==
    /\ Kinds \subseteq {"approve", "resume", "reopen"}
    /\ \A c, d \in Clients : c = d
    /\ "torn" \notin Faults

(* The exit of the session is still to come, and to be recorded.           *)
Pending(x) == x.pc \in {"live", "validating", "queued"}

Backed(w, ss) ==
    \A t \in Tasks : w[t].st = "running" => w[t].k \in Attempts /\ Pending(ss[<<t, w[t].k>>])

(* From ss to tt no exit that was to come is forgotten.                    *)
KeepsPending(ss, tt) == \A s \in Tasks \X Attempts : Pending(ss[s]) => Pending(tt[s])

Interrupted(r) == \E t \in Tasks : r.w[t].st = "interrupted"

(* Interrupted entries of a run that goes on: recovery has left others     *)
(* alive.                                                                  *)
Mixed(r) == r.status = "running" /\ Interrupted(r)

(* What holds of every copy of run.json.                                   *)
Sober(r) ==
    /\ r.status \in {"planning", "running", "done", "failed"}
    /\ r.status # "running" => RunningTasks(r.w) = {}
    /\ r.status = "planning" => ~Interrupted(r)

SoberCopies ==
    /\ Sober(disk) /\ Sober(job.latest)
    /\ \A c \in Clients : Sober(client[c].run)

Requests ==
    /\ pms = 0
    /\ boot => \A c \in Clients : client[c].kind # "recover"
    /\ \A c \in Clients :
         \/ client[c].kind = "idle" /\ client[c].pc = "idle"
         \/ client[c].kind = "recover" /\ client[c].pc = "save"
         \/ client[c].kind = "approve" /\ client[c].pc = "save" /\ client[c].run.status = "planning"
         \/ client[c].kind = "reopen" /\ client[c].pc = "save"
         \/ client[c].kind = "resume" /\ client[c].pc = "checked"
         \/ client[c].kind = "resume" /\ client[c].pc = "save" /\ RunningTasks(client[c].run.w) = {}

Recovering == \E c \in Clients : client[c].kind = "recover"

Operating == \E c \in Clients : client[c].kind \notin {"idle", "recover"}

(* After a crash, until recovery has written: nobody else does anything.   *)
AfterCrash ==
    /\ disk.status = "running"
    /\ queue = <<>> /\ job = NoJob /\ checks = 0
    /\ \A s \in Tasks \X Attempts : ~Pending(sess[s])
    /\ \/ boot /\ \A c \in Clients : client[c].kind = "idle"
       \/ ~boot /\ \E c \in Clients : client[c].kind = "recover" /\ client[c].run = disk

NoMix == ~Mixed(disk) /\ ~Mixed(job.latest) /\ (InPass => ~Mixed(job.run))

PassBacked == InPass => Backed(job.run.w, sess) /\ job.run.status = "running"

FreshPending ==
    \A t \in Tasks :
        job.fresh[t] # 0 => job.fresh[t] \in Attempts /\ Pending(sess[<<t, job.fresh[t]>>])

RecordOver == job.pc = "record" => job.latest.w[Head(queue).t].st # "running"

MixKept == Mixed(job.latest) \/ (InPass /\ Mixed(job.run)) => disk.status = "running"

Served ==
    /\ Backed(disk.w, sess) /\ Backed(job.latest.w, sess)
    /\ PassBacked /\ FreshPending /\ RecordOver /\ MixKept
    /\ boot \/ Recovering \/ Operating => NoMix

NeverInterrupted == \A s \in Tasks \X Attempts : sess[s].st # "interrupted"

GhostParts == SoberCopies /\ Requests /\ NeverInterrupted /\ (AfterCrash \/ Served)

GhostInv == CapInv /\ GhostParts

LEMMA GhostTypes ==
  ASSUME GhostInv
  PROVE  /\ disk \in Run /\ disk.w \in [Tasks -> Entry] /\ job \in JobLocals /\ queue \in Seq(Job)
         /\ sess \in [Tasks \X Attempts -> Session] /\ client \in [Clients -> Operation]
         /\ job.latest \in Run /\ job.run \in Run
         /\ SessionsFit /\ Holder /\ MaxAttempts \in Nat
         /\ (~InPass => \A t \in Tasks : job.fresh[t] = 0)
  BY BoundAssumption DEF GhostInv, CapInv, OrderInv, TypeInv, TypeOK, Run, JobLocals, PassFits, FreshTasks

LEMMA NewRunGhost == Sober(NewRun) /\ ~Mixed(NewRun) /\ (\A ss : Backed(NewRun.w, ss)) /\ RunningTasks(NewRun.w) = {}
  BY DEF Sober, Mixed, Backed, NewRun, NoWorker, Interrupted, RunningTasks

LEMMA GhostInit == Init => GhostInv
  <1> SUFFICES ASSUME Init PROVE GhostInv
    OBVIOUS
  <1>1. disk = NewRun /\ job = NoJob /\ NoJob.latest = NewRun /\ NoJob.pc = "idle"
        /\ (\A t \in Tasks : NoJob.fresh[t] = 0) /\ ~boot
    BY DEF Init, NoJob
  <1>2. \A c \in Clients : client[c] = Idle
    BY DEF Init
  <1>3. Requests /\ SoberCopies
    BY <1>1, <1>2, NewRunGhost DEF Init, Requests, SoberCopies, Idle
  <1>4. NeverInterrupted
    BY DEF Init, NeverInterrupted
  <1>5. Served
    <2>1. PassBacked /\ FreshPending /\ RecordOver /\ MixKept /\ NoMix
      BY <1>1, NewRunGhost DEF PassBacked, FreshPending, RecordOver, MixKept, NoMix, InPass
    <2>2. QED BY <1>1, <2>1, NewRunGhost DEF Served
  <1>6. QED BY <1>3, <1>4, <1>5, CapInit DEF GhostInv, GhostParts

(* Edits that neither set an entry running nor interrupt one.              *)
LEMMA EditGhost ==
  ASSUME NEW r, NEW q, NEW ss, r.status = q.status,
         \A t \in Tasks : r.w[t] = q.w[t] \/ r.w[t].st \notin {"running", "interrupted"}
  PROVE  /\ Sober(q) => Sober(r)
         /\ Mixed(r) => Mixed(q)
         /\ Backed(q.w, ss) => Backed(r.w, ss)
  <1>1. \A t \in Tasks : /\ r.w[t].st = "running" => q.w[t].st = "running" /\ r.w[t] = q.w[t]
                         /\ r.w[t].st = "interrupted" => q.w[t].st = "interrupted"
    OBVIOUS
  <1>2. RunningTasks(r.w) \subseteq RunningTasks(q.w) /\ (Interrupted(r) => Interrupted(q))
    BY <1>1 DEF RunningTasks, Interrupted
  <1>3. (Sober(q) => Sober(r)) /\ (Mixed(r) => Mixed(q))
    BY <1>2 DEF Sober, Mixed
  <1>4. Backed(q.w, ss) => Backed(r.w, ss)
    BY <1>1 DEF Backed
  <1>5. QED BY <1>3, <1>4

(* After a crash nothing holds the lock.                                   *)
LEMMA LockIsServed ==
  ASSUME GhostInv, LockStep
  PROVE  Served
  <1> SUFFICES ASSUME AfterCrash PROVE FALSE
    BY DEF GhostInv, GhostParts
  <1>1. queue = <<>> /\ job.pc = "idle"
    BY DEF AfterCrash, NoJob
  <1>2. ~LockFree
    BY <1>1 DEF LockFree
  <1>3. /\ ~StartExit /\ ~SaveExit /\ ~TornLoad /\ ~LoadForDispatch /\ ~PickTask /\ ~SpawnWorker
        /\ ~SpawnError /\ ~SaveDispatch /\ ~FinishExit /\ ~LoadForReports /\ ~SaveReports
    BY <1>1, <1>2 DEF StartExit, SaveExit, TornLoad, LoadForDispatch, AtDispatch, PickTask, SpawnWorker,
       SpawnError, SaveDispatch, FinishExit, LoadForReports, SaveReports
  <1>4. QED BY <1>3 DEF LockStep

LEMMA BackedKept ==
  ASSUME NEW w, NEW ss, NEW tt, Backed(w, ss), KeepsPending(ss, tt)
  PROVE  Backed(w, tt)
  BY DEF Backed, KeepsPending

LEMMA IdleBacked == ASSUME NEW w, NEW ss, RunningTasks(w) = {} PROVE Backed(w, ss)
  BY DEF Backed, RunningTasks

(* The steps of the jobs and of the sessions.                              *)
LEMMA JobGhost ==
  ASSUME GhostInv, Served, UNCHANGED <<client, pms, boot>>,
         Sober(disk)', Sober(job.latest)', NeverInterrupted',
         Backed(disk.w, sess)', Backed(job.latest.w, sess)',
         PassBacked', FreshPending', RecordOver', MixKept', NoMix => NoMix'
  PROVE  GhostParts'
  <1>1. SoberCopies'
    <2>1. \A c \in Clients : Sober(client[c].run)
      BY DEF GhostInv, GhostParts, SoberCopies
    <2>2. \A c \in Clients : Sober(client'[c].run)
      BY <2>1
    <2>3. QED BY <2>2 DEF SoberCopies
  <1>2. Requests'
    BY DEF GhostInv, GhostParts, Requests
  <1>3. (boot \/ Recovering \/ Operating => NoMix)'
    BY DEF Served, Recovering, Operating
  <1>4. Served'
    BY <1>3 DEF Served
  <1>5. QED BY <1>1, <1>2, <1>4 DEF GhostParts


LEMMA StartExitGhost ==
  ASSUME GhostInv, Served, StartExit
  PROVE  GhostParts'
  <1>1. PICK t : t = Head(queue).t
    OBVIOUS
  <1>2. PICK k : k = Head(queue).k
    OBVIOUS
  <1>3. PICK r : r = RecordExit(disk, t, [st |-> sess[<<t, k>>].st, k |-> k])
    OBVIOUS
  <1>4. /\ job' = [job EXCEPT !.pc = "record", !.latest = r]
        /\ UNCHANGED <<disk, sess, queue, client, checks, pms, boot>>
        /\ queue # <<>> /\ Head(queue).kind = "exit"
    BY <1>1, <1>2, <1>3 DEF StartExit, LockFree
  <1>5. job'.pc = "record" /\ job'.latest = r /\ job'.fresh = job.fresh
    BY <1>4, GhostTypes DEF JobLocals
  <1>6. t \in Tasks /\ k \in Attempts
    BY <1>1, <1>2, <1>4, GhostTypes, HeadIsJob
  <1>7. sess[<<t, k>>].st \notin {"running", "interrupted"}
    <2>1. Head(queue) = queue[1] /\ 1 \in 1 .. Len(queue)
      BY <1>4, GhostTypes, HeadTailProperties
    <2>2. sess[<<t, k>>].st # "running"
      BY <1>1, <1>2, <1>4, <2>1 DEF GhostInv, CapInv, QueueOver
    <2>3. QED BY <1>6, <2>2 DEF GhostInv, GhostParts, NeverInterrupted
  <1>8. r.status = disk.status /\ r.w[t].st \notin {"running", "interrupted"}
        /\ \A u \in Tasks : r.w[u] = disk.w[u] \/ r.w[u].st \notin {"running", "interrupted"}
    BY <1>3, <1>6, <1>7, GhostTypes DEF RecordExit, Blocked, Run
  <1>9. Sober(r) /\ Backed(r.w, sess) /\ (Mixed(r) => Mixed(disk))
    BY <1>8, EditGhost DEF GhostInv, GhostParts, SoberCopies, Served
  <1>10. PassBacked' /\ FreshPending' /\ RecordOver'
    BY <1>1, <1>4, <1>5, <1>8 DEF PassBacked, FreshPending, RecordOver, InPass, Served
  <1>11. Mixed(disk) => disk.status = "running"
    BY DEF Mixed
  <1>12. MixKept' /\ (NoMix => NoMix')
    BY <1>4, <1>5, <1>9, <1>11 DEF MixKept, NoMix, InPass
  <1>13. NeverInterrupted' /\ Sober(disk)' /\ Sober(job.latest)' /\ Backed(disk.w, sess)' /\ Backed(job.latest.w, sess)'
    BY <1>4, <1>5, <1>9 DEF GhostInv, GhostParts, NeverInterrupted, SoberCopies, Served
  <1>14. UNCHANGED <<client, pms, boot>>
    BY <1>4
  <1>15. QED BY <1>10, <1>12, <1>13, <1>14, JobGhost

LEMMA SaveExitGhost ==
  ASSUME GhostInv, Served, SaveExit
  PROVE  GhostParts'
  <1>1. PICK t : t = Head(queue).t
    OBVIOUS
  <1>2. PICK k : k = Head(queue).k
    OBVIOUS
  <1>3. /\ job.pc = "record" /\ disk' = job.latest
        /\ sess' = [sess EXCEPT ![<<t, k>>].pc = "settled"]
        /\ UNCHANGED <<queue, client, checks, pms, boot>>
    BY <1>1, <1>2 DEF SaveExit
  <1>4. job'.pc \in {"load", "finish"} /\ job'.latest = job.latest /\ job'.fresh = job.fresh
    BY GhostTypes DEF SaveExit, JobLocals
  <1>5. t \in Tasks /\ k \in Attempts
    BY <1>1, <1>2, <1>3, GhostTypes, HeadIsJob DEF Holder
  <1>6. \A s \in Tasks \X Attempts : s # <<t, k>> => sess'[s] = sess[s]
    BY <1>3, GhostTypes
  <1>7. sess'[<<t, k>>].st = sess[<<t, k>>].st
    BY <1>3, <1>5, GhostTypes DEF Session
  <1>8. Backed(job.latest.w, sess')
    <2>1. job.latest.w[t].st # "running" /\ Backed(job.latest.w, sess)
      BY <1>1, <1>3 DEF Served, RecordOver
    <2>2. ASSUME NEW u \in Tasks, job.latest.w[u].st = "running"
          PROVE  job.latest.w[u].k \in Attempts /\ Pending(sess'[<<u, job.latest.w[u].k>>])
      <3>1. job.latest.w[u].k \in Attempts /\ Pending(sess[<<u, job.latest.w[u].k>>]) /\ u # t
        BY <2>1, <2>2 DEF Backed
      <3>2. sess'[<<u, job.latest.w[u].k>>] = sess[<<u, job.latest.w[u].k>>]
        BY <1>6, <3>1
      <3>3. QED BY <3>1, <3>2
    <2>3. QED BY <2>2 DEF Backed
  <1>9. NeverInterrupted'
    BY <1>5, <1>6, <1>7 DEF GhostInv, GhostParts, NeverInterrupted
  <1>10. FreshPending' /\ PassBacked' /\ RecordOver'
    <2>1. \A u \in Tasks : job'.fresh[u] = 0
      BY <1>3, <1>4, GhostTypes DEF InPass
    <2>2. QED BY <1>4, <2>1 DEF FreshPending, PassBacked, RecordOver, InPass
  <1>11. MixKept' /\ (NoMix => NoMix')
    <2>1. Mixed(job.latest) => job.latest.status = "running"
      BY DEF Mixed
    <2>2. QED BY <1>3, <1>4, <2>1 DEF MixKept, NoMix, InPass
  <1>12. Sober(disk)' /\ Sober(job.latest)' /\ Backed(disk.w, sess)' /\ Backed(job.latest.w, sess)'
    BY <1>3, <1>4, <1>8 DEF GhostInv, GhostParts, SoberCopies
  <1>13. UNCHANGED <<client, pms, boot>>
    BY <1>3
  <1>14. QED BY <1>9, <1>10, <1>11, <1>12, <1>13, JobGhost

(* A job whose copies stay, or are read from run.json.                     *)
LEMMA LookGhost ==
  ASSUME GhostInv, Served, UNCHANGED <<disk, sess, queue, client, pms, boot>>,
         job'.fresh = job.fresh, job'.pc # "record",
         job'.latest = job.latest \/ job'.latest = disk,
         InPass' => \/ job'.run = disk /\ disk.status = "running"
                    \/ InPass /\ job'.run = job.run
  PROVE  GhostParts'
  <1>1. PassBacked' /\ FreshPending' /\ RecordOver'
    BY DEF PassBacked, FreshPending, RecordOver, Served
  <1>2. Mixed(disk) => disk.status = "running"
    BY DEF Mixed
  <1>3. MixKept'
    BY <1>2 DEF MixKept, Served
  <1>4. NoMix => NoMix'
    BY DEF NoMix
  <1>5. NeverInterrupted' /\ Sober(disk)' /\ Sober(job.latest)' /\ Backed(disk.w, sess)' /\ Backed(job.latest.w, sess)'
    BY DEF GhostInv, GhostParts, NeverInterrupted, SoberCopies, Served
  <1>6. QED BY <1>1, <1>3, <1>4, <1>5, JobGhost

(* A job that ends, or comes back to its exit listener.                    *)
LEMMA EndGhost ==
  ASSUME GhostInv, Served, UNCHANGED <<sess, client, pms, boot>>,
         Release \/ (DispatchReturn /\ (Mixed(job.latest) => disk'.status = "running")),
         Sober(disk'), Backed(disk'.w, sess),
         Mixed(disk') => Mixed(disk) \/ Mixed(job.latest) \/ (InPass /\ Mixed(job.run))
  PROVE  GhostParts'
  <1>1. /\ \/ job'.pc = "idle" /\ job'.latest = NewRun
           \/ /\ job'.pc = "finish" /\ job'.latest = job.latest
              /\ Mixed(job.latest) => disk'.status = "running"
        /\ \A t \in Tasks : job'.fresh[t] = 0
    <2>1. \/ job' = NoJob
          \/ /\ job' = [NoJob EXCEPT !.pc = "finish", !.latest = job.latest]
             /\ Mixed(job.latest) => disk'.status = "running"
      BY DEF Release, DispatchReturn
    <2>2. CASE job' = NoJob
      BY <2>2 DEF NoJob
    <2>3. CASE /\ job' = [NoJob EXCEPT !.pc = "finish", !.latest = job.latest]
               /\ Mixed(job.latest) => disk'.status = "running"
      BY <2>3 DEF NoJob
    <2>4. QED BY <2>1, <2>2, <2>3
  <1>3. PassBacked' /\ FreshPending' /\ RecordOver'
    BY <1>1 DEF PassBacked, FreshPending, RecordOver, InPass
  <1>4. MixKept'
    BY <1>1, NewRunGhost DEF MixKept, InPass
  <1>5. NoMix => NoMix'
    BY <1>1, NewRunGhost DEF NoMix, InPass
  <1>6. Sober(disk)' /\ Backed(disk.w, sess)'
    OBVIOUS
  <1>7. NeverInterrupted' /\ Sober(job.latest)' /\ Backed(job.latest.w, sess)'
    BY <1>1, NewRunGhost DEF GhostInv, GhostParts, NeverInterrupted, SoberCopies, Served
  <1>8. QED BY <1>3, <1>4, <1>5, <1>6, <1>7, JobGhost


LEMMA PickGhost ==
  ASSUME GhostInv, Served, PickTask \/ SpawnError
  PROVE  GhostParts'
  <1>1. UNCHANGED <<disk, sess, queue, client, pms, boot>> /\ InPass
    BY DEF PickTask, SpawnError, InPass
  <1>2. job'.fresh = job.fresh /\ job'.latest = job.latest /\ job'.run = job.run /\ job'.pc # "record"
    <2>1. CASE PickTask
      <3>1. \/ job' = [job EXCEPT !.pc = "store"]
            \/ \E i \in ReadyAt(job) : job' = [job EXCEPT !.pc = "spawn", !.idx = i]
        BY <2>1 DEF PickTask
      <3>2. QED BY <3>1, GhostTypes DEF JobLocals
    <2>2. CASE SpawnError
      BY <2>2, GhostTypes DEF SpawnError, JobLocals
    <2>3. QED BY <2>1, <2>2
  <1>3. QED BY <1>1, <1>2, LookGhost

LEMMA LoadGhost ==
  ASSUME GhostInv, Served, LoadForDispatch
  PROVE  GhostParts'
  <1>1. UNCHANGED <<disk, sess, client, pms, boot>>
    BY DEF LoadForDispatch
  <1>2. CASE disk.status = "running"
    <2>1. job' = [job EXCEPT !.pc = "pick", !.run = disk] /\ UNCHANGED queue
      BY <1>2 DEF LoadForDispatch
    <2>2. job'.fresh = job.fresh /\ job'.latest = job.latest /\ job'.run = disk /\ job'.pc # "record"
      BY <2>1, GhostTypes DEF JobLocals
    <2>3. QED BY <1>1, <1>2, <2>1, <2>2, LookGhost
  <1>3. CASE disk.status # "running"
    <2>1. Release \/ DispatchReturn
      BY <1>3 DEF LoadForDispatch
    <2>2. ~Mixed(job.latest) /\ Sober(disk) /\ Backed(disk.w, sess)
      BY <1>3 DEF Served, MixKept, GhostInv, GhostParts, SoberCopies
    <2>3. QED BY <1>1, <2>1, <2>2, EndGhost
  <1>4. QED BY <1>2, <1>3

LEMMA LoadReportsGhost ==
  ASSUME GhostInv, Served, LoadForReports
  PROVE  GhostParts'
  <1>1. job' = [job EXCEPT !.pc = "reports", !.latest = disk] /\ UNCHANGED <<disk, sess, queue, client, pms, boot>>
    BY DEF LoadForReports
  <1>2. job'.pc = "reports" /\ job'.fresh = job.fresh /\ job'.latest = disk
    BY <1>1, GhostTypes DEF JobLocals
  <1>3. ~InPass'
    BY <1>2 DEF InPass
  <1>4. QED BY <1>1, <1>2, <1>3, LookGhost

LEMMA SaveReportsGhost ==
  ASSUME GhostInv, Served, SaveReports
  PROVE  GhostParts'
  <1>1. disk' = job.latest /\ Release /\ UNCHANGED <<sess, client, pms, boot>>
    BY DEF SaveReports
  <1>2. Sober(disk') /\ Backed(disk'.w, sess)
    BY <1>1 DEF GhostInv, GhostParts, SoberCopies, Served
  <1>3. QED BY <1>1, <1>2, EndGhost

LEMMA FinishGhost ==
  ASSUME GhostInv, Served, FinishExit
  PROVE  GhostParts'
  <1>1. Release /\ UNCHANGED <<sess, client, pms, boot>>
    BY DEF FinishExit
  <1>2. CASE AllDone(job.latest.w)
    <2>1. disk' = [job.latest EXCEPT !.status = FinalStatus(job.latest.w)]
      BY <1>2 DEF FinishExit
    <2>2. FinalStatus(job.latest.w) \in {"done", "failed"}
      BY DEF FinalStatus
    <2>3. disk'.w = job.latest.w /\ disk'.status \in {"done", "failed"}
      BY <2>1, <2>2, GhostTypes DEF Run
    <2>4. RunningTasks(disk'.w) = {}
      BY <1>2, <2>3 DEF AllDone, Terminal, Unsuccessful, RunningTasks
    <2>5. Sober(disk') /\ ~Mixed(disk')
      BY <2>3, <2>4 DEF Sober, Mixed
    <2>6. Backed(disk'.w, sess)
      BY <2>4, IdleBacked
    <2>7. QED BY <1>1, <2>5, <2>6, EndGhost
  <1>3. CASE ~AllDone(job.latest.w)
    <2>1. disk' = disk
      BY <1>3 DEF FinishExit
    <2>2. Sober(disk') /\ Backed(disk'.w, sess)
      BY <2>1 DEF GhostInv, GhostParts, SoberCopies, Served
    <2>4. QED BY <1>1, <2>1, <2>2, EndGhost
  <1>4. QED BY <1>2, <1>3


LEMMA SpawnGhost ==
  ASSUME GhostInv, Served, SpawnWorker
  PROVE  GhostParts'
  <1>1. PICK t : t = Order[job.idx]
    OBVIOUS
  <1>2. PICK k \in Attempts :
          /\ sess' = [sess EXCEPT ![<<t, k>>] = [pc |-> "live", st |-> "running"]]
          /\ job' = [job EXCEPT !.pc = "pick", !.idx = @ + 1, !.fresh[t] = k]
    BY <1>1 DEF SpawnWorker
  <1>3. UNCHANGED <<disk, queue, client, pms, boot>> /\ job.pc = "spawn"
    BY DEF SpawnWorker
  <1>4. t \in Tasks
    BY <1>1, <1>3, PlanAssumption DEF GhostInv, CapInv, OrderInv, SpawnFits
  <1>5. /\ job'.pc = "pick" /\ job'.latest = job.latest /\ job'.run = job.run
        /\ job'.fresh = [job.fresh EXCEPT ![t] = k]
    BY <1>2, GhostTypes DEF JobLocals
  <1>6. /\ sess'[<<t, k>>] = [pc |-> "live", st |-> "running"]
        /\ \A s \in Tasks \X Attempts : s # <<t, k>> => sess'[s] = sess[s]
    BY <1>2, <1>4, GhostTypes
  <1>7. KeepsPending(sess, sess') /\ Pending(sess'[<<t, k>>])
    BY <1>6 DEF KeepsPending, Pending
  <1>8. NeverInterrupted'
    BY <1>6 DEF GhostInv, GhostParts, NeverInterrupted
  <1>9. FreshPending'
    <2>1. \A u \in Tasks : job'.fresh[u] = IF u = t THEN k ELSE job.fresh[u]
      BY <1>4, <1>5, GhostTypes DEF JobLocals
    <2>2. QED BY <1>7, <2>1 DEF Served, FreshPending, KeepsPending
  <1>10. PassBacked'
    <2>1. Backed(job.run.w, sess) /\ job.run.status = "running"
      BY <1>3 DEF Served, PassBacked, InPass
    <2>2. QED BY <1>5, <1>7, <2>1, BackedKept DEF PassBacked
  <1>11. Backed(disk.w, sess)' /\ Backed(job.latest.w, sess)'
    BY <1>3, <1>5, <1>7, BackedKept DEF Served
  <1>12. RecordOver' /\ MixKept' /\ (NoMix => NoMix')
    BY <1>3, <1>5 DEF RecordOver, MixKept, NoMix, InPass, Served
  <1>13. Sober(disk)' /\ Sober(job.latest)'
    BY <1>3, <1>5 DEF GhostInv, GhostParts, SoberCopies
  <1>14. UNCHANGED <<client, pms, boot>>
    BY <1>3
  <1>15. QED BY <1>8, <1>9, <1>10, <1>11, <1>12, <1>13, <1>14, JobGhost

LEMMA SaveDispatchGhost ==
  ASSUME GhostInv, Served, SaveDispatch
  PROVE  GhostParts'
  <1>1. UNCHANGED <<sess, client, pms, boot>> /\ DispatchReturn /\ InPass
    BY DEF SaveDispatch, InPass
  <1>2. Backed(job.run.w, sess) /\ job.run.status = "running"
    BY <1>1 DEF Served, PassBacked
  <1>3. CASE disk' = disk
    <2>1. Sober(disk') /\ Backed(disk'.w, sess)
      BY <1>3 DEF GhostInv, GhostParts, SoberCopies, Served
    <2>2. Mixed(job.latest) => disk'.status = "running"
      BY <1>3 DEF Served, MixKept
    <2>3. QED BY <1>1, <1>3, <2>1, <2>2, EndGhost
  <1>4. CASE disk' = [job.run EXCEPT !.w = View(job)]
    <2>1. disk'.status = "running" /\ disk'.w = View(job)
      BY <1>2, <1>4, GhostTypes DEF Run
    <2>2. ASSUME NEW t \in Tasks
          PROVE  IF job.fresh[t] # 0
                 THEN /\ disk'.w[t].k = job.fresh[t] /\ disk'.w[t].st # "interrupted"
                      /\ job.fresh[t] \in Attempts /\ Pending(sess[<<t, job.fresh[t]>>])
                 ELSE disk'.w[t] = job.run.w[t]
      <3>1. CASE job.fresh[t] # 0
        <4>1. job.fresh[t] \in Attempts /\ Pending(sess[<<t, job.fresh[t]>>])
          BY <3>1 DEF Served, FreshPending
        <4>2. sess[<<t, job.fresh[t]>>].st # "interrupted"
          BY <4>1 DEF GhostInv, GhostParts, NeverInterrupted
        <4>3. disk'.w[t] = [st |-> sess[<<t, job.fresh[t]>>].st, k |-> job.fresh[t]]
          BY <2>1, <3>1 DEF View
        <4>4. QED BY <3>1, <4>1, <4>2, <4>3
      <3>2. CASE job.fresh[t] = 0
        BY <2>1, <3>2 DEF View
      <3>3. QED BY <3>1, <3>2
    <2>3. Backed(disk'.w, sess)
      BY <1>2, <2>2 DEF Backed
    <2>4. Interrupted(disk') => Interrupted(job.run)
      BY <2>2 DEF Interrupted
    <2>5. Mixed(disk') => Mixed(job.run)
      BY <1>2, <2>4 DEF Mixed
    <2>6. Sober(disk')
      BY <2>1 DEF Sober
    <2>7. QED BY <1>1, <2>1, <2>3, <2>5, <2>6, EndGhost
  <1>5. QED BY <1>3, <1>4 DEF SaveDispatch

LEMMA LockGhost ==
  ASSUME OneAtATime, GhostInv, LockStep
  PROVE  GhostParts'
  <1>1. Served
    BY LockIsServed
  <1>2. ~TornLoad
    BY DEF TornLoad, OneAtATime
  <1>3. QED
    BY <1>1, <1>2, StartExitGhost, SaveExitGhost, LoadGhost, PickGhost, SpawnGhost, SaveDispatchGhost,
       FinishGhost, LoadReportsGhost, SaveReportsGhost DEF LockStep

LEMMA ReportsGhost ==
  ASSUME GhostInv, QueueReports
  PROVE  GhostParts'
  <1>1. checks > 0 /\ UNCHANGED <<disk, sess, job, client, pms, boot>>
    BY DEF QueueReports
  <1>2. Served
    BY <1>1 DEF GhostInv, GhostParts, AfterCrash
  <1>3. queue' = Append(queue, ConflictsJob) \/ UNCHANGED queue
    BY DEF QueueReports
  <1>4. job.pc = "record" => Head(queue') = Head(queue)
    BY <1>3, GhostTypes, QueuedJobs, AppendHead DEF Holder
  <1>5. PassBacked' /\ FreshPending' /\ RecordOver' /\ MixKept' /\ (NoMix => NoMix')
    BY <1>1, <1>2, <1>4 DEF PassBacked, FreshPending, RecordOver, MixKept, NoMix, InPass, Served
  <1>6. NeverInterrupted' /\ Sober(disk)' /\ Sober(job.latest)' /\ Backed(disk.w, sess)' /\ Backed(job.latest.w, sess)'
    BY <1>1, <1>2 DEF GhostInv, GhostParts, NeverInterrupted, SoberCopies, Served
  <1>7. QED BY <1>1, <1>2, <1>5, <1>6, JobGhost

LEMMA SessionGhost ==
  ASSUME GhostInv, NEW t \in Tasks, NEW k \in Attempts, SessionStep(t, k)
  PROVE  GhostParts'
  <1>1. sess[<<t, k>>].pc \in {"live", "validating"} /\ UNCHANGED <<disk, job, client, checks, pms, boot>>
    BY DEF SessionStep, Stall, ExitClean, ExitError, Validate
  <1>2. <<t, k>> \in Tasks \X Attempts /\ Pending(sess[<<t, k>>])
    BY <1>1 DEF Pending
  <1>3. Served
    BY <1>2 DEF GhostInv, GhostParts, AfterCrash
  <1>4. \E x \in [pc : {"live", "validating", "queued"}, st : {"done", "failed", "stuck", "validation_failed"}] :
          sess' = [sess EXCEPT ![<<t, k>>] = x]
    <2>1. sess[<<t, k>>] \in Session
      BY <1>2, GhostTypes
    <2>2. CASE Stall(t, k)
      <3>1. [sess[<<t, k>>] EXCEPT !.st = "stuck"] = [pc |-> "live", st |-> "stuck"]
        BY <2>1, <2>2 DEF Stall, Session
      <3>2. sess' = [sess EXCEPT ![<<t, k>>] = [sess[<<t, k>>] EXCEPT !.st = "stuck"]]
        BY <2>2 DEF Stall
      <3>3. QED BY <3>1, <3>2
    <2>3. CASE ExitClean(t, k)
      BY <2>3 DEF ExitClean
    <2>4. CASE ExitError(t, k)
      <3>1. \E st \in {"stuck", "failed"} : sess' = [sess EXCEPT ![<<t, k>>] = [pc |-> "queued", st |-> st]]
        BY <2>4 DEF ExitError
      <3>2. QED BY <3>1
    <2>5. CASE Validate(t, k)
      BY <2>5 DEF Validate
    <2>6. QED BY <2>2, <2>3, <2>4, <2>5 DEF SessionStep
  <1>5. PICK x \in [pc : {"live", "validating", "queued"}, st : {"done", "failed", "stuck", "validation_failed"}] :
          sess' = [sess EXCEPT ![<<t, k>>] = x]
    BY <1>4
  <1>6. \A s \in Tasks \X Attempts : sess'[s] = IF s = <<t, k>> THEN x ELSE sess[s]
    BY <1>2, <1>5, GhostTypes
  <1>7. KeepsPending(sess, sess')
    BY <1>6 DEF KeepsPending, Pending
  <1>8. NeverInterrupted'
    BY <1>6 DEF GhostInv, GhostParts, NeverInterrupted
  <1>9. UNCHANGED queue \/ queue' = Append(queue, [kind |-> "exit", t |-> t, k |-> k])
    BY DEF SessionStep, Stall, ExitClean, ExitError, Validate
  <1>10. job.pc = "record" => Head(queue') = Head(queue)
    BY <1>9, GhostTypes, QueuedJobs, AppendHead DEF Holder
  <1>11. Backed(disk.w, sess)' /\ Backed(job.latest.w, sess)' /\ PassBacked'
    BY <1>1, <1>3, <1>7, BackedKept DEF Served, PassBacked, InPass
  <1>12. FreshPending'
    BY <1>1, <1>3, <1>7 DEF Served, FreshPending, KeepsPending
  <1>13. RecordOver' /\ MixKept' /\ (NoMix => NoMix')
    BY <1>1, <1>3, <1>10 DEF RecordOver, MixKept, NoMix, InPass, Served
  <1>14. Sober(disk)' /\ Sober(job.latest)'
    BY <1>1 DEF GhostInv, GhostParts, SoberCopies
  <1>15. QED BY <1>1, <1>3, <1>8, <1>11, <1>12, <1>13, <1>14, JobGhost


-----------------------------------------------------------------------------
(* Operations, crash and recovery.                                         *)

(* While an operation other than recovery is under way, or the run does    *)
(* not say running, jobs go on as usual.                                   *)
LEMMA OperatingIsServed ==
  ASSUME OneAtATime, GhostInv, NEW c \in Clients, client[c].kind \notin {"idle", "recover"}
  PROVE  Served /\ NoMix
  <1>1. ~AfterCrash
    BY DEF OneAtATime, AfterCrash
  <1>2. Operating
    BY DEF Operating
  <1>3. QED BY <1>1, <1>2 DEF GhostInv, GhostParts, Served

LEMMA NotRunningIsServed ==
  ASSUME GhostInv, disk.status # "running"
  PROVE  Served /\ NoMix
  <1>1. Served
    BY DEF GhostInv, GhostParts, AfterCrash
  <1>2. QED BY <1>1 DEF Served, MixKept, NoMix, Mixed

(* The step of an operation that leaves run.json and the jobs alone.       *)
LEMMA LookingGhost ==
  ASSUME GhostInv, Served, NoMix, UNCHANGED <<disk, sess, queue, job>>,
         Requests', \A c \in Clients : Sober(client'[c].run)
  PROVE  GhostParts'
  <1>1. SoberCopies' /\ NeverInterrupted'
    BY DEF GhostInv, GhostParts, SoberCopies, NeverInterrupted
  <1>2. NoMix'
    BY DEF NoMix, InPass
  <1>3. PassBacked' /\ FreshPending' /\ RecordOver' /\ MixKept'
    BY DEF Served, PassBacked, FreshPending, RecordOver, MixKept, InPass
  <1>4. Served'
    BY <1>2, <1>3 DEF Served
  <1>5. QED BY <1>1, <1>4 DEF GhostParts

(* The step of an operation that writes run.json and is done.              *)
LEMMA WritingGhost ==
  ASSUME OneAtATime, GhostInv, Served, NoMix, NEW c \in Clients, client' = [client EXCEPT ![c] = Idle],
         UNCHANGED <<sess, job, pms, boot>>,
         UNCHANGED queue \/ queue' = Append(queue, DispatchJob),
         Sober(disk'), Backed(disk'.w, sess), boot => ~Mixed(disk')
  PROVE  GhostParts'
  <1>1. \A d \in Clients : client'[d] = Idle
    BY GhostTypes DEF OneAtATime
  <1>2. Requests'
    BY <1>1 DEF GhostInv, GhostParts, Requests, Idle
  <1>3. SoberCopies'
    <2>1. \A d \in Clients : Sober(client'[d].run)
      BY <1>1, NewRunGhost DEF Idle
    <2>2. QED BY <2>1 DEF GhostInv, GhostParts, SoberCopies
  <1>4. NeverInterrupted'
    BY DEF GhostInv, GhostParts, NeverInterrupted
  <1>5. job.pc = "record" => Head(queue') = Head(queue)
    BY GhostTypes, QueuedJobs, AppendHead DEF Holder
  <1>6. PassBacked' /\ FreshPending' /\ RecordOver'
    BY <1>5 DEF Served, PassBacked, FreshPending, RecordOver, InPass
  <1>7. MixKept'
    BY DEF MixKept, NoMix, InPass
  <1>8. (boot \/ Recovering \/ Operating => NoMix)'
    <2>1. ~Recovering' /\ ~Operating'
      BY <1>1 DEF Recovering, Operating, Idle
    <2>2. boot' => NoMix'
      BY DEF NoMix, InPass
    <2>3. QED BY <2>1, <2>2
  <1>9. Served'
    BY <1>6, <1>7, <1>8 DEF Served
  <1>10. QED BY <1>2, <1>3, <1>4, <1>9 DEF GhostParts

LEMMA BeginGhost ==
  ASSUME OneAtATime, GhostInv, NEW c \in Clients, NEW kind, NEW t, Begin(c, kind, t)
  PROVE  GhostParts'
  <1>1. /\ kind \in {"approve", "resume", "reopen"} /\ client[c].pc = "idle"
        /\ Accepts(kind, t, disk) /\ UNCHANGED <<disk, sess, queue, job, checks, pms, boot>>
    BY DEF Begin, OneAtATime
  <1>2. client' = [client EXCEPT ![c] = [kind |-> kind, t |-> t, run |-> disk,
                                         pc |-> IF kind = "resume" THEN "checked" ELSE "save"]]
    BY <1>1 DEF Begin
  <1>3. client'[c].kind = kind /\ client'[c].run = disk
        /\ client'[c].pc = (IF kind = "resume" THEN "checked" ELSE "save")
    BY <1>2, GhostTypes
  <1>4. \A d \in Clients : d = c
    BY DEF OneAtATime
  <1>5. disk.status # "running" /\ (kind = "approve" => disk.status = "planning")
    BY <1>1 DEF Accepts, MayApprove, MayResume, MayReopen
  <1>6. Served /\ NoMix
    BY <1>5, NotRunningIsServed
  <1>7. Requests'
    BY <1>1, <1>3, <1>4, <1>5 DEF GhostInv, GhostParts, Requests
  <1>8. \A d \in Clients : Sober(client'[d].run)
    BY <1>3, <1>4 DEF GhostInv, GhostParts, SoberCopies
  <1>9. QED BY <1>1, <1>6, <1>7, <1>8, LookingGhost

LEMMA LoadAgainGhost ==
  ASSUME OneAtATime, GhostInv, NEW c \in Clients, LoadAgain(c)
  PROVE  GhostParts'
  <1>1. client[c].pc = "checked" /\ UNCHANGED <<disk, sess, queue, job, checks, pms, boot>>
    BY DEF LoadAgain
  <1>2. client[c].kind = "resume"
    BY <1>1 DEF GhostInv, GhostParts, Requests
  <1>3. Served /\ NoMix
    BY <1>2, OperatingIsServed
  <1>4. \A d \in Clients : d = c
    BY DEF OneAtATime
  <1>5. CASE client' = [client EXCEPT ![c] = Idle]
    <2>1. client'[c] = Idle
      BY <1>5, GhostTypes
    <2>2. Requests'
      BY <1>1, <1>4, <2>1 DEF GhostInv, GhostParts, Requests, Idle
    <2>3. \A d \in Clients : Sober(client'[d].run)
      BY <1>4, <2>1, NewRunGhost DEF Idle
    <2>4. QED BY <1>1, <1>3, <2>2, <2>3, LookingGhost
  <1>6. CASE /\ client' = [client EXCEPT ![c] = [client[c] EXCEPT !.pc = "save", !.run = disk]]
             /\ \E u \in Tasks : disk.w[u].st = "interrupted"
    <2>1. client'[c].kind = "resume" /\ client'[c].pc = "save" /\ client'[c].run = disk
      BY <1>2, <1>6, GhostTypes DEF Operation
    <2>2. disk.status # "running"
      BY <1>3, <1>6 DEF NoMix, Mixed, Interrupted
    <2>3. RunningTasks(disk.w) = {} /\ Sober(disk)
      BY <2>2 DEF GhostInv, GhostParts, SoberCopies, Sober
    <2>4. Requests'
      BY <1>1, <1>4, <2>1, <2>3 DEF GhostInv, GhostParts, Requests
    <2>5. \A d \in Clients : Sober(client'[d].run)
      BY <1>4, <2>1, <2>3
    <2>6. QED BY <1>1, <1>3, <2>4, <2>5, LookingGhost
  <1>7. QED
    BY <1>2, <1>5, <1>6 DEF LoadAgain, OneAtATime

LEMMA ApproveGhost ==
  ASSUME OneAtATime, GhostInv, NEW c \in Clients, Approve(c)
  PROVE  GhostParts'
  <1>1. PICK r : r = client[c].run
    OBVIOUS
  <1>2. /\ client[c].pc = "save" /\ client[c].kind = "approve" /\ disk' = [r EXCEPT !.status = "running"]
        /\ client' = [client EXCEPT ![c] = Idle] /\ queue' = Append(queue, DispatchJob)
        /\ UNCHANGED <<sess, job, checks, pms, boot>>
    BY <1>1 DEF Approve, Commit, Copy
  <1>3. Served /\ NoMix
    BY <1>2, OperatingIsServed
  <1>4. r \in Run /\ Sober(r) /\ r.status = "planning"
    BY <1>1, <1>2, GhostTypes DEF GhostInv, GhostParts, SoberCopies, Requests, Operation
  <1>5. disk'.status = "running" /\ disk'.w = r.w
    BY <1>2, <1>4 DEF Run
  <1>6. RunningTasks(disk'.w) = {} /\ ~Mixed(disk') /\ Sober(disk')
    BY <1>4, <1>5 DEF Sober, Mixed, Interrupted
  <1>7. Backed(disk'.w, sess)
    BY <1>6, IdleBacked
  <1>8. QED BY <1>2, <1>3, <1>6, <1>7, WritingGhost

LEMMA ReopenGhost ==
  ASSUME OneAtATime, GhostInv, NEW c \in Clients, Reopen(c)
  PROVE  GhostParts'
  <1>1. /\ client[c].kind = "reopen" /\ disk' = NewRun /\ client' = [client EXCEPT ![c] = Idle]
        /\ UNCHANGED <<sess, queue, job, checks, pms, boot>>
    BY DEF Reopen, Commit
  <1>2. Served /\ NoMix
    BY <1>1, OperatingIsServed
  <1>3. QED BY <1>1, <1>2, NewRunGhost, WritingGhost

LEMMA ResumeGhost ==
  ASSUME OneAtATime, GhostInv, NEW c \in Clients, Resume(c)
  PROVE  GhostParts'
  <1>1. PICK r : r = client[c].run
    OBVIOUS
  <1>2. PICK D : Commit(c, "resume",
              [r EXCEPT !.status = "running",
                        !.w = [t \in Tasks |->
                                 IF r.w[t].st = "interrupted" \/ t \in D
                                 THEN NoWorker ELSE r.w[t]]])
    BY <1>1 DEF Resume, Copy
  <1>3. /\ client[c].pc = "save" /\ client[c].kind = "resume" /\ client' = [client EXCEPT ![c] = Idle]
        /\ queue' = Append(queue, DispatchJob) /\ UNCHANGED <<sess, job, checks, pms, boot>>
    BY <1>2 DEF Resume, Commit
  <1>4. Served /\ NoMix
    BY <1>3, OperatingIsServed
  <1>5. r \in Run /\ RunningTasks(r.w) = {}
    BY <1>1, <1>3, GhostTypes DEF GhostInv, GhostParts, Requests, Operation
  <1>6. /\ disk'.status = "running"
        /\ \A t \in Tasks : /\ disk'.w[t].st = "running" => r.w[t].st = "running"
                            /\ disk'.w[t].st # "interrupted"
    <2>1. PICK w : w = [t \in Tasks |-> IF r.w[t].st = "interrupted" \/ t \in D
                                        THEN NoWorker ELSE r.w[t]]
      OBVIOUS
    <2>2. disk' = [r EXCEPT !.status = "running", !.w = w]
      BY <1>2, <2>1 DEF Commit
    <2>3. disk'.status = "running" /\ disk'.w = w
      BY <1>5, <2>2 DEF Run
    <2>4. QED BY <2>1, <2>3 DEF NoWorker
  <1>7. RunningTasks(disk'.w) = {} /\ ~Mixed(disk') /\ Sober(disk')
    BY <1>5, <1>6 DEF Sober, Mixed, Interrupted, RunningTasks
  <1>8. Backed(disk'.w, sess)
    BY <1>7, IdleBacked
  <1>9. QED BY <1>3, <1>4, <1>7, <1>8, WritingGhost


LEMMA BeginRecoverGhost ==
  ASSUME OneAtATime, GhostInv, NEW c \in Clients, BeginRecover(c)
  PROVE  GhostParts'
  <1>1. /\ boot /\ client[c].pc = "idle" /\ ~boot'
        /\ UNCHANGED <<disk, sess, queue, job, checks, pms>>
    BY DEF BeginRecover
  <1>2. \A d \in Clients : d = c
    BY DEF OneAtATime
  <1>3. client[c].kind = "idle"
    BY <1>1 DEF GhostInv, GhostParts, Requests
  <1>4. Sober(disk) /\ disk.status # "merging"
    BY DEF GhostInv, GhostParts, SoberCopies, Sober
  <1>5. CASE disk.status = "running"
    <2>1. client' = [client EXCEPT ![c] =
                       [kind |-> "recover", pc |-> "save", t |-> NoTask, run |-> disk]]
      BY <1>5 DEF BeginRecover
    <2>2. client'[c].kind = "recover" /\ client'[c].pc = "save" /\ client'[c].run = disk
      BY <2>1, GhostTypes
    <2>3. Requests'
      BY <1>1, <1>2, <2>2 DEF GhostInv, GhostParts, Requests
    <2>4. \A d \in Clients : Sober(client'[d].run)
      BY <1>2, <1>4, <2>2
    <2>5. CASE Served
      <3>1. NoMix
        BY <1>1, <2>5 DEF Served
      <3>2. QED BY <1>1, <2>3, <2>4, <2>5, <3>1, LookingGhost
    <2>6. CASE AfterCrash
      <3>1. AfterCrash'
        BY <1>1, <1>2, <2>2, <2>6 DEF AfterCrash
      <3>2. SoberCopies' /\ NeverInterrupted'
        BY <1>1, <2>4 DEF GhostInv, GhostParts, SoberCopies, NeverInterrupted
      <3>3. QED BY <2>3, <3>1, <3>2 DEF GhostParts
    <2>7. QED BY <2>5, <2>6 DEF GhostInv, GhostParts
  <1>6. CASE disk.status # "running"
    <2>1. UNCHANGED client
      BY <1>4, <1>6 DEF BeginRecover
    <2>2. Served /\ NoMix
      BY <1>6, NotRunningIsServed
    <2>3. Requests' /\ \A d \in Clients : Sober(client'[d].run)
      BY <1>1, <2>1 DEF GhostInv, GhostParts, Requests, SoberCopies
    <2>4. QED BY <1>1, <2>2, <2>3, LookingGhost
  <1>7. QED BY <1>5, <1>6

(* What recovery makes of a copy: no entry says running but those of       *)
(* sessions this process knows, and a copy of a run that does not go on    *)
(* keeps its entries.                                                      *)
LEMMA RecoveredIs ==
  ASSUME NEW r \in Run, NEW alive, Sober(r)
  PROVE  /\ Sober(Recovered(r, alive)) /\ Recovered(r, alive).status \in {r.status, "failed"}
         /\ \A t \in Tasks : Recovered(r, alive).w[t].st = "running" =>
              Recovered(r, alive).w[t] = r.w[t] /\ IsAlive(t, r.w[t].k)
  <1>1. PICK w : w = [t \in Tasks |->
                        IF r.w[t].st = "running" /\ ~IsAlive(t, r.w[t].k)
                        THEN [r.w[t] EXCEPT !.st = "interrupted"] ELSE r.w[t]]
    OBVIOUS
  <1>2. PICK f : f = Recovered(r, alive)
    OBVIOUS
  <1>3. f.w = w
    BY <1>1, <1>2 DEF Recovered
  <1>4. r.w \in [Tasks -> Entry] /\ r.status # "merging"
    BY DEF Run, Sober
  <1>5. \A t \in Tasks : IF r.w[t].st = "running" /\ ~IsAlive(t, r.w[t].k)
                         THEN w[t].st = "interrupted" ELSE w[t] = r.w[t]
    BY <1>1, <1>4 DEF Entry
  <1>6. \/ f.status = r.status
        \/ f.status = "failed" /\ \A t \in Tasks : w[t].st # "running"
    <2>1. (\A t \in Tasks : w[t].st \in (Terminal \ {"validation_failed"}) \cup {"none"})
            => \A t \in Tasks : w[t].st # "running"
      BY DEF Terminal, Unsuccessful
    <2>2. PICK resolved : resolved = (/\ \E t \in Tasks : w[t].st # "none"
                    /\ \A t \in Tasks : w[t].st \in (Terminal \ {"validation_failed"}) \cup {"none"})
      OBVIOUS
    <2>3. f.status = IF r.status = "merging" \/ resolved THEN "failed" ELSE r.status
      BY <1>1, <1>2, <2>2 DEF Recovered
    <2>4. QED BY <1>4, <2>1, <2>2, <2>3
  <1>7. RunningTasks(w) \subseteq RunningTasks(r.w)
    BY <1>5 DEF RunningTasks
  <1>8. r.status # "running" => RunningTasks(w) = {}
    BY <1>7 DEF Sober
  <1>9. f.status = "planning" => ~Interrupted(f)
    <2>1. ASSUME f.status = "planning" PROVE r.status = "planning" /\ RunningTasks(r.w) = {} /\ ~Interrupted(r)
      BY <1>6, <2>1 DEF Sober
    <2>2. QED BY <1>3, <1>5, <2>1 DEF Interrupted, RunningTasks
  <1>10. Sober(f)
    <2>1. f.status \in {"planning", "running", "done", "failed"}
      BY <1>6 DEF Sober
    <2>2. f.status # "running" => RunningTasks(f.w) = {}
      BY <1>3, <1>6, <1>8 DEF RunningTasks
    <2>3. QED BY <1>9, <2>1, <2>2 DEF Sober
  <1>11. QED BY <1>2, <1>3, <1>5, <1>6, <1>10

LEMMA RecoverGhost ==
  ASSUME OneAtATime, GhostInv, NEW c \in Clients, Recover(c)
  PROVE  GhostParts'
  <1>1. PICK r : r = client[c].run
    OBVIOUS
  <1>2. PICK f : f = Recovered(r, pms > 0)
    OBVIOUS
  <1>3. /\ client[c].kind = "recover" /\ client' = [client EXCEPT ![c] = Idle]
        /\ disk' = (IF f.w = r.w /\ f.pm = r.pm THEN disk ELSE f)
        /\ UNCHANGED <<sess, queue, job, checks, pms, boot>>
    BY <1>1, <1>2 DEF Recover, Commit, Copy
  <1>4. r \in Run /\ Sober(r)
    BY <1>1, GhostTypes DEF GhostInv, GhostParts, SoberCopies, Operation
  <1>5. /\ Sober(f) /\ f.status \in {r.status, "failed"}
        /\ \A t \in Tasks : f.w[t].st = "running" => f.w[t] = r.w[t] /\ IsAlive(t, r.w[t].k)
    BY <1>2, <1>4, RecoveredIs
  <1>6. Backed(f.w, sess)
    <2>1. ASSUME NEW t \in Tasks, f.w[t].st = "running"
          PROVE  f.w[t].k \in Attempts /\ Pending(sess[<<t, f.w[t].k>>])
      <3>1. f.w[t].k # 0 /\ sess[<<t, f.w[t].k>>].pc = "live" /\ f.w[t].k = r.w[t].k
        BY <1>5, <2>1 DEF IsAlive
      <3>2. r.w[t].k \in 0 .. MaxAttempts /\ MaxAttempts \in Nat
        BY <1>4, GhostTypes DEF Run, Entry
      <3>3. f.w[t].k \in Attempts
        BY <3>1, <3>2 DEF Attempts
      <3>4. QED BY <3>1, <3>3 DEF Pending
    <2>2. QED BY <2>1 DEF Backed
  <1>7. ~boot
    BY <1>3 DEF GhostInv, GhostParts, Requests
  <1>8. Sober(disk)
    BY DEF GhostInv, GhostParts, SoberCopies
  <1>9. CASE Served
    <2>1. NoMix
      BY <1>3, <1>9 DEF Served, Recovering
    <2>2. Sober(disk') /\ Backed(disk'.w, sess)
      BY <1>3, <1>5, <1>6, <1>8, <1>9 DEF Served
    <2>3. QED BY <1>3, <1>7, <1>9, <2>1, <2>2, WritingGhost
  <1>10. CASE AfterCrash
    <2>1. \A d \in Clients : d = c
      BY DEF OneAtATime
    <2>2. r = disk /\ job = NoJob /\ \A s \in Tasks \X Attempts : ~Pending(sess[s])
      BY <1>1, <1>7, <1>10, <2>1 DEF AfterCrash
    <2>3. disk'.w = f.w
      BY <1>3, <2>2
    <2>4. Sober(disk') /\ Backed(disk'.w, sess)
      BY <1>3, <1>5, <1>6, <1>8, <2>3
    <2>5. client'[c] = Idle
      BY <1>3, GhostTypes
    <2>6. Requests'
      BY <1>3, <2>1, <2>5 DEF GhostInv, GhostParts, Requests, Idle
    <2>7. job'.latest = NewRun /\ job'.pc = "idle" /\ \A t \in Tasks : job'.fresh[t] = 0
      BY <1>3, <2>2 DEF NoJob
    <2>8. SoberCopies' /\ NeverInterrupted'
      BY <1>3, <2>1, <2>4, <2>5, <2>7, NewRunGhost DEF GhostInv, GhostParts, SoberCopies, NeverInterrupted, Idle
    <2>9. PassBacked' /\ FreshPending' /\ RecordOver' /\ MixKept'
      BY <2>7, NewRunGhost DEF PassBacked, FreshPending, RecordOver, MixKept, InPass
    <2>10. ~boot' /\ ~Recovering' /\ ~Operating'
      BY <1>3, <1>7, <2>1, <2>5 DEF Recovering, Operating, Idle
    <2>11. Backed(disk.w, sess)' /\ Backed(job.latest.w, sess)'
      BY <1>3, <2>4, <2>7, NewRunGhost
    <2>12. Served'
      BY <2>9, <2>10, <2>11 DEF Served
    <2>13. QED BY <2>6, <2>8, <2>12 DEF GhostParts
  <1>11. QED BY <1>9, <1>10 DEF GhostInv, GhostParts

LEMMA CrashGhost ==
  ASSUME OneAtATime, GhostInv, Crash
  PROVE  GhostParts'
  <1>1. /\ queue' = <<>> /\ job' = NoJob /\ client' = [c \in Clients |-> Idle] /\ checks' = 0
        /\ pms' = 0 /\ boot' = TRUE /\ disk' = disk
    BY DEF Crash
  <1>2. \A c \in Clients : client'[c] = Idle
    BY <1>1
  <1>3. \A s \in Tasks \X Attempts : sess'[s].pc \notin {"live", "validating", "queued"} /\ sess'[s].st = sess[s].st
    <2>1. sess' = [s \in Tasks \X Attempts |->
                  IF sess[s].pc \in {"live", "validating", "queued"}
                  THEN [sess[s] EXCEPT !.pc = "lost"] ELSE sess[s]]
      BY DEF Crash
    <2>2. QED BY <2>1, GhostTypes DEF Session
  <1>4. job'.latest = NewRun /\ job'.pc = "idle" /\ \A t \in Tasks : job'.fresh[t] = 0
    BY <1>1 DEF NoJob
  <1>5. Requests' /\ NeverInterrupted'
    BY <1>1, <1>2, <1>3 DEF GhostInv, GhostParts, Requests, NeverInterrupted, Idle
  <1>6. SoberCopies'
    BY <1>1, <1>2, <1>4, NewRunGhost DEF GhostInv, GhostParts, SoberCopies, Idle
  <1>7. CASE disk.status = "running"
    <2>1. AfterCrash'
      BY <1>1, <1>2, <1>3, <1>7 DEF AfterCrash, Pending, Idle
    <2>2. QED BY <1>5, <1>6, <2>1 DEF GhostParts
  <1>8. CASE disk.status # "running"
    <2>1. RunningTasks(disk.w) = {} /\ ~Mixed(disk)
      BY <1>8 DEF GhostInv, GhostParts, SoberCopies, Sober, Mixed
    <2>2. Backed(disk.w, sess)' /\ Backed(job.latest.w, sess)'
      BY <1>1, <1>4, <2>1, IdleBacked, NewRunGhost
    <2>3. PassBacked' /\ FreshPending' /\ RecordOver' /\ MixKept' /\ NoMix'
      BY <1>1, <1>4, <2>1, NewRunGhost DEF PassBacked, FreshPending, RecordOver, MixKept, NoMix, InPass
    <2>4. Served'
      BY <2>2, <2>3 DEF Served
    <2>5. QED BY <1>5, <1>6, <2>4 DEF GhostParts
  <1>9. QED BY <1>7, <1>8

(* The steps that one request at a time leaves.                            *)
LEMMA StepsGhost ==
  ASSUME OneAtATime, GhostInv, Next
  PROVE  \/ \E t \in Tasks, k \in Attempts : SessionStep(t, k)
         \/ LockStep \/ QueueReports \/ Crash
         \/ \E c \in Clients, kind \in OpKinds, t \in Tasks \cup {NoTask} : Begin(c, kind, t)
         \/ \E c \in Clients : LoadAgain(c) \/ Approve(c) \/ Reopen(c) \/ Resume(c)
                               \/ BeginRecover(c) \/ Recover(c)
         \/ UNCHANGED vars
  <1>1. ~Dispatch
    BY DEF Dispatch, OneAtATime
  <1>2. ASSUME NEW c \in Clients, ClientStep(c) \/ SaveMergeLog(c) \/ PmExit(c)
        PROVE  LoadAgain(c) \/ Approve(c) \/ Reopen(c) \/ Resume(c) \/ BeginRecover(c) \/ Recover(c)
    <2>1. /\ client[c].kind \in {"idle", "recover", "approve", "reopen", "resume"}
          /\ client[c].pc \in {"idle", "save", "checked"} /\ pms = 0
      BY DEF GhostInv, GhostParts, Requests
    <2>2. ~Delete(c) /\ ~Archive(c) /\ ~StartMerge(c) /\ ~FinishMerge(c) /\ ~SaveMergeLog(c) /\ ~PmExit(c)
      BY <2>1 DEF Delete, Archive, StartMerge, FinishMerge, SaveMergeLog, PmExit
    <2>3. /\ Kill(c) => client[c].kind = "kill"
          /\ KillAsync(c) => client[c].kind = "kill_async"
          /\ SpawnPm(c) => client[c].kind = "pm"
          /\ SavePmExit(c) => client[c].kind = "pm_exit"
      BY DEF Kill, KillAsync, SpawnPm, SavePmExit, Commit
    <2>4. Cancel(c) => client[c].kind = "cancel"
      BY DEF Cancel, Commit
    <2>5. QED
      BY <1>2, <2>1, <2>2, <2>3, <2>4 DEF ClientStep
  <1>3. QED
    BY <1>1, <1>2 DEF Next, Rest

LEMMA GhostStep == OneAtATime /\ GhostInv /\ [Next]_vars => GhostInv'
  <1> SUFFICES ASSUME OneAtATime, GhostInv, [Next]_vars PROVE GhostInv'
    OBVIOUS
  <1>1. CapInv'
    BY CapStep DEF GhostInv
  <1>2. ASSUME UNCHANGED vars PROVE GhostParts'
    <2>1. SoberCopies' /\ Requests' /\ NeverInterrupted'
      BY <1>2 DEF vars, GhostInv, GhostParts, SoberCopies, Requests, NeverInterrupted
    <2>2. AfterCrash => AfterCrash'
      BY <1>2 DEF vars, AfterCrash
    <2>3. Served => Served'
      BY <1>2 DEF vars, Served, PassBacked, FreshPending, RecordOver, MixKept, NoMix, InPass, Recovering, Operating
    <2>4. QED BY <2>1, <2>2, <2>3 DEF GhostInv, GhostParts
  <1>3. ASSUME Next PROVE GhostParts'
    BY <1>2, <1>3, StepsGhost, SessionGhost, LockGhost, ReportsGhost, CrashGhost, BeginGhost,
       LoadAgainGhost, ApproveGhost, ReopenGhost, ResumeGhost, BeginRecoverGhost, RecoverGhost
  <1>4. QED BY <1>1, <1>2, <1>3 DEF GhostInv

(* With one request at a time, whatever crashes come between, nothing is   *)
(* left running in run.json once everything rests: recovery interrupts the *)
(* entries of sessions lost with the server, the copy it writes is of a    *)
(* run nobody else writes, and no exit is forgotten otherwise.             *)
THEOREM NoGhosts ==
  ASSUME OneAtATime
  PROVE  Spec => []NoGhostRunning
  <1>1. GhostInv => NoGhostRunning
    <2> SUFFICES ASSUME GhostInv, Quiescent, NEW t \in Tasks, disk.w[t].st = "running"
                 PROVE  FALSE
      BY DEF NoGhostRunning, RunningTasks
    <2>1. ~boot /\ \A c \in Clients : client[c].pc = "idle"
      BY DEF Quiescent
    <2>2. \A c \in Clients : client[c].kind = "idle"
      BY <2>1 DEF GhostInv, GhostParts, Requests
    <2>3. Served
      BY <2>1, <2>2 DEF GhostInv, GhostParts, AfterCrash
    <2>4. disk.w[t].k \in Attempts /\ Pending(sess[<<t, disk.w[t].k>>])
      BY <2>3 DEF Served, Backed
    <2>5. QED BY <2>4 DEF Quiescent, Pending
  <1>2. QED BY <1>1, GhostInit, GhostStep, PTL DEF Spec

=============================================================================
