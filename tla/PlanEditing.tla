---------------------------- MODULE PlanEditing ----------------------------
(***************************************************************************)
(* The plan of a run while it is edited (src/src/routes/api/orchestration, *)
(* [runId]/plan, tasks and tasks/[taskId]) and its approval.               *)
(*                                                                         *)
(* Every handler loads run.json, awaits, and saves all of its copy; there  *)
(* is no lock.  Workers are here only what a merge needs of them: the tasks *)
(* whose entry says done (Conductor has the rest).                         *)
(***************************************************************************)
EXTENDS Orders

CONSTANTS
    Ids,            \* task ids, a finite set of integers
    Editors,        \* requests under way at a time
    InitialPlans,   \* plans that the routes have built so far
    PostedPlans,    \* plans that a PM may send as a whole
    MaxEdits        \* bound on requests

Tasks == [id : Ids, needs : SUBSET Ids]

WellFormed(p) ==
    /\ UniqueIds(p)
    /\ \A i \in DOMAIN p : p[i].needs \subseteq Named(p)

ASSUME PlanAssumption ==
    /\ Ids \subseteq Int /\ IsFiniteSet(Ids)
    /\ InitialPlans \subseteq Seq(Tasks) /\ \A p \in InitialPlans : WellFormed(p)
    /\ PostedPlans \subseteq Seq(Tasks)
    /\ MaxEdits \in Nat

VARIABLES
    disk,       \* run.json: status, plan, tasks done
    editor,     \* per request the copy it has loaded
    posted,     \* history: some plan was stored as it was sent
    edits       \* requests so far

planVars == <<disk, editor, posted, edits>>

Statuses == {"planning", "running", "merging", "done", "failed"}
Runs     == [status : Statuses, tasks : Seq(Tasks), done : SUBSET Ids]

NoRun == [status |-> "planning", tasks |-> <<>>, done |-> {}]

PlanTypeOK ==
    /\ disk \in Runs
    /\ \A e \in Editors : /\ editor[e].open \in BOOLEAN
                          /\ editor[e].run \in Runs
                          /\ editor[e].run.status = "planning"
    /\ posted \in BOOLEAN
    /\ edits \in 0..MaxEdits

PlanInit ==
    /\ \E p \in InitialPlans : disk = [status |-> "planning", tasks |-> p, done |-> {}]
    /\ editor = [e \in Editors |-> [open |-> FALSE, run |-> NoRun]]
    /\ posted = FALSE
    /\ edits = 0

-----------------------------------------------------------------------------
(* What the handlers make of a plan *)

Created(p, t) == Append(p, t)

(* The body's fields are merged into the first task of that id.             *)
Updated(p, t) ==
    LET first == CHOOSE i \in DOMAIN p :
                     p[i].id = t.id /\ \A j \in DOMAIN p : p[j].id = t.id => i <= j
    IN  [p EXCEPT ![first] = t]

(* A fault: the other tasks go on depending on the deleted one.             *)
DeletedOnly(p, id) == Kept(p, {t \in Tasks : t.id # id})

Deleted(p, id) ==
    LET rest == Kept(p, {t \in Tasks : t.id # id})
    IN  [i \in DOMAIN rest |-> [rest[i] EXCEPT !.needs = @ \ {id}]]

(* validateTaskBody, and the same checks of the update                      *)
MayCreate(p, t) == t.id \notin Named(p) /\ t.needs \subseteq Named(p)
MayUpdate(p, t) == t.id \in Named(p) /\ t.needs \subseteq Named(p) \ {t.id}

-----------------------------------------------------------------------------
(* Requests *)

(* A fault: the status is not looked at.                                    *)
MayEditAnyRun(r) == TRUE

MayEdit(r) == r.status = "planning"

(* The run is loaded and its status checked; the body is awaited.           *)
Open(e) ==
    /\ edits < MaxEdits
    /\ ~editor[e].open
    /\ MayEdit(disk)
    /\ editor' = [editor EXCEPT ![e] = [open |-> TRUE, run |-> disk]]
    /\ edits' = edits + 1
    /\ UNCHANGED <<disk, posted>>

Close(e) == editor' = [editor EXCEPT ![e] = [open |-> FALSE, run |-> NoRun]]

(* saveRun: the copy, its status and its workers included.                  *)
Save(e, p) ==
    /\ editor[e].open
    /\ disk' = [editor[e].run EXCEPT !.tasks = p]
    /\ Close(e)
    /\ UNCHANGED edits

CreateTask(e) == \E t \in Tasks :
    /\ MayCreate(editor[e].run.tasks, t)
    /\ Save(e, Created(editor[e].run.tasks, t))
    /\ UNCHANGED posted

UpdateTask(e) == \E t \in Tasks :
    /\ MayUpdate(editor[e].run.tasks, t)
    /\ Save(e, Updated(editor[e].run.tasks, t))
    /\ UNCHANGED posted

DeleteTask(e) == \E id \in Ids :
    /\ Save(e, Deleted(editor[e].run.tasks, id))
    /\ UNCHANGED posted

(* POST plan looks at the number of tasks only; setPlan, which has the      *)
(* checks, is called by nobody.                                             *)
PostPlan(e) == \E p \in PostedPlans :
    /\ p # <<>>
    /\ Save(e, p)
    /\ posted' = TRUE

(* A body that is no JSON or fails the checks.                              *)
Refuse(e) ==
    /\ editor[e].open
    /\ Close(e)
    /\ UNCHANGED <<disk, posted, edits>>

(* approveAndStart: loads, writes the ownership map, saves.                 *)
Approve(e) ==
    /\ editor[e].open
    /\ editor[e].run.tasks # <<>>
    /\ disk' = [editor[e].run EXCEPT !.status = "running"]
    /\ Close(e)
    /\ UNCHANGED <<posted, edits>>

(* The conductor, in short: a task whose dependencies are done runs, and    *)
(* its worker exits cleanly.                                                *)
WorkerDone == \E i \in DOMAIN disk.tasks :
    /\ disk.status = "running"
    /\ disk.tasks[i].id \notin disk.done
    /\ disk.tasks[i].needs \subseteq disk.done
    /\ disk' = [disk EXCEPT !.done = @ \cup {disk.tasks[i].id}]
    /\ UNCHANGED <<editor, posted, edits>>

PlanNext ==
    \/ \E e \in Editors :
         Open(e) \/ CreateTask(e) \/ UpdateTask(e) \/ DeleteTask(e) \/ PostPlan(e)
           \/ Refuse(e) \/ Approve(e)
    \/ WorkerDone

-----------------------------------------------------------------------------
(* Properties *)

(* However requests overlap, the task routes never store a plan with an id  *)
(* twice or with a dependency on a task that is not there (the dispatcher   *)
(* would wait for it for ever): what each saves was checked against the     *)
(* same copy.  Only a plan posted as a whole can break this.                *)
ReferencesHold == posted \/ WellFormed(disk.tasks)

=============================================================================
