---------------------------- MODULE BranchMerge ----------------------------
(***************************************************************************)
(* The merge of the workers' branches (src/src/lib/orchestration/          *)
(* merge-agent.ts), the checklist after it with its repair cascade         *)
(* (post-merge-pipeline.ts, post-merge-strategies.ts), and the project's   *)
(* git repository as far as these two use it; on top of PlanEditing.       *)
(*                                                                         *)
(* An action is one git command or agent with the code up to the next.     *)
(***************************************************************************)
EXTENDS PlanEditing, Functions

CONSTANTS
    Steps,          \* the checklist: per step whether it blocks
    Strategies, AI, \* repair strategies; AI is the last resort
    MaxMerges,      \* bound
    MaxRequests,    \* bound on edits and merges together, when a merge is asked for
    MaxMishaps      \* bound on crashes, foreign changes and exceptions together

ASSUME MergeAssumption ==
    /\ Steps \in Seq(BOOLEAN)
    /\ IsFiniteSet(Strategies) /\ AI \in Strategies
    /\ {MaxMerges, MaxRequests, MaxMishaps} \subseteq Nat

VARIABLES
    merge,      \* runSmartMerge: its copy of the run, its lists, where it is
    head,       \* what the project's HEAD holds: branches, repair commits
    tree,       \* its working tree: merge under way, conflicts, foreign changes
    cascade,    \* the repair cascade
    fouled,     \* history: tasks merged on a tree that was not ready for them,
                \* or whose merge the agent dropped
    known,      \* history: repair commits that were reported, or left by a crash
                \* or a refused reset
    spent       \* merges and mishaps so far

mergeVars == <<merge, head, tree, cascade, fouled, known, spent>>
vars == <<planVars, mergeVars>>

NoMerge == [pc |-> "idle", run |-> NoRun, skipped |-> {}, clean |-> <<>>,
            conflicted |-> <<>>, hard |-> {}, late |-> {}, merged |-> <<>>,
            conflicts |-> <<>>, step |-> 0]
NoHead    == [branches |-> {}, repairs |-> 0]
NoCascade == [tried |-> {}, before |-> NoHead, applied |-> FALSE]
NoneOpen == [open |-> {}, unresolved |-> FALSE, foreign |-> FALSE]

TypeOK ==
    /\ PlanTypeOK
    /\ merge.pc \in {"idle", "asked", "clean", "resolve", "agent", "checks", "repair", "over"}
    /\ merge.run \in Runs
    /\ UNION {merge.skipped, merge.hard, merge.late} \subseteq Ids
    /\ {merge.clean, merge.conflicted, merge.merged, merge.conflicts} \subseteq Seq(Ids)
    /\ merge.step \in 0..Len(Steps) + 1
    /\ head.branches \subseteq Ids /\ head.repairs \in Nat
    /\ tree.open \subseteq Ids /\ {tree.unresolved, tree.foreign} \subseteq BOOLEAN
    /\ cascade.tried \subseteq Strategies /\ cascade.before.repairs \in 0..head.repairs
    /\ cascade.before.branches \subseteq Ids
    /\ cascade.applied \in BOOLEAN
    /\ fouled \subseteq Ids
    /\ known \in 0..head.repairs
    /\ spent \in [merges : 0..MaxMerges, mishaps : 0..MaxMishaps]

Init ==
    /\ PlanInit
    /\ merge = NoMerge
    /\ head = NoHead
    /\ tree = NoneOpen
    /\ cascade = NoCascade
    /\ fouled = {}
    /\ known = 0
    /\ spent = [merges |-> 0, mishaps |-> 0]

-----------------------------------------------------------------------------
(* The order of the branches *)

DoneTasks(r) == Kept(r.tasks, {t \in Tasks : t.id \in r.done})

(* A fault: the plan's order.                                               *)
PlanOrder(r) == LET ts == DoneTasks(r) IN [i \in DOMAIN ts |-> ts[i].id]

(* topoSort: depth first, a task after what it needs.                      *)
TopoSort(r) == PostOrder(DoneTasks(r))

-----------------------------------------------------------------------------
(* The merge *)

(* saveRun: the agent's copy replaces run.json.                             *)
SaveAs(m, status) == disk' = [m.run EXCEPT !.status = status]

(* POST merge: one at a time, some worker done.                             *)
AskMerge ==
    /\ spent.merges < MaxMerges /\ edits + spent.merges < MaxRequests
    /\ merge.pc \in {"idle", "over"}
    /\ \E i \in DOMAIN disk.tasks : disk.tasks[i].id \in disk.done
    /\ merge' = [NoMerge EXCEPT !.pc = "asked"]
    /\ spent' = [spent EXCEPT !.merges = @ + 1]
    /\ UNCHANGED <<planVars, head, tree, cascade, fouled, known>>

(* Loads for itself and scans every branch: one that is in HEAD may be seen *)
(* so (a branch checked out in a worktree is listed with a mark that is not *)
(* stripped) and else passes the dry run; any other may conflict.           *)
Scan ==
    /\ merge.pc = "asked"
    /\ \E order \in {TopoSort(disk)} :
         \E skip \in SUBSET (head.branches \cap Elements(order)),
            hard \in SUBSET (Elements(order) \ head.branches) :
            merge' = [merge EXCEPT !.pc = "clean", !.run = [disk EXCEPT !.status = "merging"],
                        !.skipped = skip, !.hard = hard,
                        !.merged = Kept(order, skip),
                        !.clean = Kept(order, Ids \ (skip \cup hard)),
                        !.conflicted = Kept(order, hard)]
    /\ SaveAs(merge', "merging")
    /\ UNCHANGED <<editor, posted, edits, head, tree, cascade, fouled, known, spent>>

Merged(t)   == [head EXCEPT !.branches = @ \cup {t}]
Ready       == tree.open = {} /\ ~tree.unresolved
CanBegin(t) == Ready /\ t \notin head.branches
Opened(t, b) == [tree EXCEPT !.open = {t}, !.unresolved = b]

(* The trees that a git merge which fails may leave: it refuses to begin,   *)
(* or stops with or without unmerged files.                                 *)
Begun(t) == {tree} \cup IF CanBegin(t) THEN {Opened(t, b) : b \in BOOLEAN} ELSE {}

(* git merge --abort, whoever began the merge: git may refuse, as it does   *)
(* over edits to files that the merge has staged, and nobody looks.         *)
Aborted(w) == {w} \cup IF w.open = {} THEN {}
                       ELSE {[w EXCEPT !.open = {}, !.unresolved = FALSE]}

(* git merge of the first clean branch; one that is in HEAD is up to date.  *)
MergeClean ==
    /\ merge.pc = "clean" /\ merge.clean # <<>>
    /\ LET t == Head(merge.clean) IN
       /\ Ready
       /\ head' = Merged(t)
       /\ merge' = [merge EXCEPT !.clean = Tail(@), !.merged = Append(@, t)]
    /\ SaveAs(merge, "merging")
    /\ UNCHANGED <<editor, posted, edits, tree, cascade, fouled, known, spent>>

(* A fault: the branch is the first to be tried again.                      *)
PushedFront(t) == <<t>> \o merge.conflicted

PushedBack(t) == Append(merge.conflicted, t)

(* It fails: on a conflict after all, on foreign changes in its way, or on  *)
(* a merge that is still open.                                              *)
CleanFails ==
    /\ merge.pc = "clean" /\ merge.clean # <<>>
    /\ LET t == Head(merge.clean) IN
       /\ t \notin head.branches \/ ~Ready
       /\ merge' = [merge EXCEPT !.clean = Tail(@), !.conflicted = PushedBack(t),
                      !.late = @ \cup {t}]
       /\ tree' \in UNION {Aborted(w) : w \in Begun(t)}
    /\ SaveAs(merge, "merging")
    /\ UNCHANGED <<editor, posted, edits, head, cascade, fouled, known, spent>>

GoResolve ==
    /\ merge.pc = "clean" /\ merge.clean = <<>>
    /\ merge' = [merge EXCEPT !.pc = "resolve"]
    /\ UNCHANGED <<planVars, head, tree, cascade, fouled, known, spent>>

(* No merge, nothing unmerged; foreign changes may survive.                 *)
Cleaned == {NoneOpen, [NoneOpen EXCEPT !.foreign = tree.foreign]}

(* What becomes of the branch at the head of the conflicted ones.           *)
Resolved(t) == [merge EXCEPT !.pc = "resolve", !.conflicted = Tail(@), !.merged = Append(@, t)]
GivenUp(t)  == [merge EXCEPT !.pc = "resolve", !.conflicted = Tail(@),
                             !.conflicts = Append(@, t)]

Resolving(t) == merge.pc = "resolve" /\ merge.conflicted # <<>> /\ t = Head(merge.conflicted)

(* git merge --no-commit succeeds after all, or rerere has resolved it.     *)
MergeAfterAll(t) ==
    /\ Resolving(t)
    /\ CanBegin(t)
    /\ head' = Merged(t)
    /\ merge' = Resolved(t)
    /\ tree' \in {tree, [tree EXCEPT !.foreign = FALSE]}
    /\ SaveAs(merge, "merging")
    /\ UNCHANGED <<editor, posted, edits, cascade, fouled, known, spent>>

(* Nothing is unmerged and the commit fails: a hook, an unknown branch, or  *)
(* a branch that is in HEAD, where there is nothing to commit.              *)
CommitFails(t) ==
    /\ Resolving(t)
    /\ \E w \in Begun(t) : ~w.unresolved /\ tree' \in Aborted(w)
    /\ merge' = GivenUp(t)
    /\ SaveAs(merge, "merging")
    /\ UNCHANGED <<editor, posted, edits, head, cascade, fouled, known, spent>>

(* Every other failure is taken for a conflict.  Foreign changes stop the   *)
(* merge before it begins: no file is unmerged, and add -A with commit puts *)
(* those changes in HEAD and reports the branch as merged.                  *)
MergeRefused(t) ==
    /\ Resolving(t)
    /\ tree.foreign /\ Ready
    /\ merge' = Resolved(t)
    /\ tree' = NoneOpen
    /\ fouled' = fouled \cup {t}
    /\ SaveAs(merge, "merging")
    /\ UNCHANGED <<editor, posted, edits, head, cascade, known, spent>>

(* So does a merge that is still open, left by a crash or by an abort that  *)
(* was refused, when it is resolved: that other branch is committed.        *)
CommitsLeftover(t) ==
    /\ Resolving(t)
    /\ tree.open # {} /\ ~tree.unresolved
    /\ head' = [head EXCEPT !.branches = @ \cup tree.open]
    /\ merge' = Resolved(t)
    /\ tree' = NoneOpen
    /\ fouled' = fouled \cup ({t} \ tree.open)
    /\ SaveAs(merge, "merging")
    /\ UNCHANGED <<editor, posted, edits, cascade, known, spent>>

(* The agent is asked to resolve what is unmerged.                          *)
AskAgent(t) ==
    /\ Resolving(t)
    /\ \/ CanBegin(t) /\ tree' = Opened(t, TRUE) /\ UNCHANGED fouled
       \/ tree.unresolved /\ fouled' = fouled \cup ({t} \ tree.open) /\ UNCHANGED tree
    /\ merge' = [merge EXCEPT !.pc = "agent"]
    /\ SaveAs(merge, "merging")
    /\ UNCHANGED <<editor, posted, edits, head, cascade, known, spent>>

(* A fault: any answer of the agent is believed.                            *)
Believed(t) == Resolved(t)

Unresolved(t) == GivenUp(t)

(* The agent ends or its ten minutes are over.  It has resolved the merge   *)
(* and committed, or the code commits for it, with all that is in the tree; *)
(* ...                                                                      *)
AgentResolves(t) ==
    /\ merge.pc = "agent" /\ t = Head(merge.conflicted)
    /\ head' = [head EXCEPT !.branches = @ \cup tree.open]
    /\ tree' \in Cleaned
    /\ merge' = Resolved(t)
    /\ SaveAs(merge, "merging")
    /\ UNCHANGED <<editor, posted, edits, cascade, fouled, known, spent>>

(* ... or files are still unmerged, or the commit fails: --abort;           *)
AgentFails(t) ==
    /\ merge.pc = "agent" /\ t = Head(merge.conflicted)
    /\ \E b \in {TRUE, tree.open = {}} : tree' \in Aborted([tree EXCEPT !.unresolved = b])
    /\ merge' = Unresolved(t)
    /\ SaveAs(merge, "merging")
    /\ UNCHANGED <<editor, posted, edits, head, cascade, fouled, known, spent>>

(* or it has dropped the merge: nothing is unmerged and no MERGE_HEAD is    *)
(* there, which is taken for success.                                       *)
AgentDrops(t) ==
    /\ merge.pc = "agent" /\ t = Head(merge.conflicted)
    /\ tree' = [tree EXCEPT !.open = {}, !.unresolved = FALSE]
    /\ merge' = Resolved(t)
    /\ fouled' = fouled \cup {t}
    /\ SaveAs(merge, "merging")
    /\ UNCHANGED <<editor, posted, edits, head, cascade, known, spent>>

-----------------------------------------------------------------------------
(* The checklist and the repair cascade *)

(* Phase 4 only if something was merged.                                    *)
GoCheck ==
    /\ merge.pc = "resolve" /\ merge.conflicted = <<>>
    /\ merge' = [merge EXCEPT !.pc = "checks",
                   !.step = IF merge.merged = <<>> THEN Len(Steps) + 1 ELSE 1]
    /\ UNCHANGED <<planVars, head, tree, cascade, fouled, known, spent>>

Checking == merge.pc = "checks" /\ merge.step <= Len(Steps)

NextStep(m) == [m EXCEPT !.pc = "checks", !.step = @ + 1]

(* A step passes, is skipped, or fails and only advises.                    *)
StepPasses ==
    /\ Checking
    /\ merge' = NextStep(merge)
    /\ UNCHANGED <<planVars, head, tree, cascade, fouled, known, spent>>

(* A step that blocks fails.                                                *)
StepFails ==
    /\ Checking
    /\ Steps[merge.step]
    /\ merge' = [merge EXCEPT !.pc = "repair"]
    /\ cascade' = [tried |-> {}, before |-> head, applied |-> FALSE]
    /\ UNCHANGED <<planVars, head, tree, fouled, known, spent>>

(* A fault: what was tried is tried again.                                  *)
TriedAgain(s) == cascade.tried

TriedToo(s) == cascade.tried \cup {s}

(* The lowest tier first: the agent when nothing else is left that applies. *)
Eligible(s) == merge.pc = "repair" /\ ~cascade.applied /\ s \in Strategies \ cascade.tried

(* What an attempt may make of HEAD and tree: it changes files, and may     *)
(* delete MERGE_HEAD, what was staged then standing as a foreign change; or *)
(* it commits, the agent perhaps more than once, which concludes a merge    *)
(* that is open unless the agent has dropped it.                            *)
Touched ==
    {tree, [tree EXCEPT !.foreign = FALSE],
     [tree EXCEPT !.open = {}, !.foreign = @ \/ tree.open # {}]}

Attempts(s) ==
    [head : {head}, tree : Touched] \cup
    [head : [branches : {head.branches \cup tree.open}
                          \cup (IF s = AI THEN {head.branches} ELSE {}),
             repairs : {head.repairs + n : n \in 1..(IF s = AI THEN 2 ELSE 1)}],
     tree : Cleaned]

TryTo(s, applied) ==
    /\ Eligible(s)
    /\ cascade' = [tried |-> TriedToo(s), before |-> head, applied |-> applied]
    /\ UNCHANGED <<planVars, merge, fouled, spent>>

(* An attempt is made and the step will be run again, ...                   *)
Apply(s) ==
    /\ TryTo(s, TRUE)
    /\ \E o \in Attempts(s) : head' = o.head /\ tree' = o.tree
    /\ UNCHANGED known

(* ... or it does nothing, or fails, or only touches the lock file: what it *)
(* did is reset, ...                                                        *)
NoAction(s) ==
    /\ TryTo(s, FALSE)
    /\ tree' \in Touched \cup Cleaned
    /\ UNCHANGED <<head, known>>

(* ... which git may refuse, and nobody looks.  Only the agent can have     *)
(* committed by then.                                                       *)
ResetFails(s) ==
    /\ s = AI
    /\ TryTo(s, FALSE)
    /\ \E o \in Attempts(s) : head' = o.head /\ tree' = o.tree
    /\ known' = head'.repairs

(* The step runs again and passes.                                          *)
Fixed ==
    /\ merge.pc = "repair" /\ cascade.applied
    /\ known' = head.repairs
    /\ merge' = NextStep(merge)
    /\ cascade' = NoCascade
    /\ UNCHANGED <<planVars, head, tree, fouled, spent>>

(* A fault: the commit of a fix that did not work stays.                    *)
NotRolledBack(h) == head

RolledBack(h) == h

(* It fails again: reset --hard to where the attempt began, which ends a    *)
(* merge that is open, ...                                                  *)
StillFails ==
    /\ merge.pc = "repair" /\ cascade.applied
    /\ head' = RolledBack(cascade.before)
    /\ tree' \in Cleaned
    /\ cascade' = [cascade EXCEPT !.applied = FALSE]
    /\ UNCHANGED <<planVars, merge, fouled, known, spent>>

(* ... or is refused, and nobody looks.                                     *)
FixStays ==
    /\ merge.pc = "repair" /\ cascade.applied
    /\ known' = head.repairs
    /\ cascade' = [cascade EXCEPT !.applied = FALSE]
    /\ UNCHANGED <<planVars, merge, head, tree, fouled, spent>>

(* Nothing applies any more, or ten minutes have passed; the steps after a  *)
(* blocking one that failed are not run.                                    *)
Exhausted ==
    /\ merge.pc = "repair" /\ ~cascade.applied
    /\ merge' = [merge EXCEPT !.pc = "checks", !.step = Len(Steps) + 1]
    /\ cascade' = NoCascade
    /\ UNCHANGED <<planVars, head, tree, fouled, known, spent>>

(* The verdict; a failed checklist is a warning.                            *)
Finish ==
    /\ merge.pc = "checks" /\ merge.step > Len(Steps)
    /\ SaveAs(merge, IF merge.conflicts = <<>> /\ merge.merged # <<>> THEN "done" ELSE "failed")
    /\ merge' = [merge EXCEPT !.pc = "over"]
    /\ UNCHANGED <<editor, posted, edits, head, tree, cascade, fouled, known, spent>>

-----------------------------------------------------------------------------
(* The world *)

(* The server dies: the requests and the merge are gone, the tree stays.    *)
(* What the agent has staged may be resolved or not.  A repair commit that  *)
(* was not verified stays.                                                  *)
Crash ==
    /\ spent.mishaps < MaxMishaps
    /\ spent' = [spent EXCEPT !.mishaps = @ + 1]
    /\ merge' = NoMerge
    /\ cascade' = NoCascade
    /\ known' = head.repairs
    /\ editor' = [e \in Editors |-> [open |-> FALSE, run |-> NoRun]]
    /\ \E b \in {tree.unresolved, FALSE} : tree' = [tree EXCEPT !.unresolved = b]
    /\ disk' \in {disk} \cup
         (IF disk.status = "merging" THEN {[disk EXCEPT !.status = "failed"]} ELSE {})
    /\ UNCHANGED <<posted, edits, head, fouled>>

(* The merge throws: run.json or .gitattributes cannot be written, or the   *)
(* steps not be built.  It is forgotten, and its run goes on "merging".     *)
Throws ==
    /\ spent.mishaps < MaxMishaps
    /\ merge.pc \in {"asked", "clean", "resolve", "checks"}
    /\ merge' = NoMerge
    /\ spent' = [spent EXCEPT !.mishaps = @ + 1]
    /\ UNCHANGED <<planVars, head, tree, cascade, fouled, known>>

(* Somebody works in the project directory.                                 *)
ForeignChange ==
    /\ spent.mishaps < MaxMishaps
    /\ ~tree.foreign
    /\ tree' = [tree EXCEPT !.foreign = TRUE]
    /\ spent' = [spent EXCEPT !.mishaps = @ + 1]
    /\ UNCHANGED <<planVars, merge, head, cascade, fouled, known>>

MergeStep ==
    \/ Scan \/ MergeClean \/ CleanFails \/ GoResolve \/ GoCheck
    \/ \E t \in Ids : \/ MergeAfterAll(t) \/ CommitFails(t) \/ MergeRefused(t)
                      \/ CommitsLeftover(t) \/ AskAgent(t)
                      \/ AgentResolves(t) \/ AgentFails(t) \/ AgentDrops(t)
    \/ StepPasses \/ StepFails
    \/ \E s \in Strategies : Apply(s) \/ NoAction(s) \/ ResetFails(s)
    \/ Fixed \/ StillFails \/ FixStays \/ Exhausted \/ Finish

Next ==
    \/ PlanNext /\ UNCHANGED mergeVars
    \/ AskMerge \/ MergeStep \/ Throws \/ Crash \/ ForeignChange

(* Git, agents and checks end, the agents within their limits; nothing is   *)
(* assumed of the people who edit, approve and ask for a merge.             *)
Spec == Init /\ [][Next]_vars /\ WF_vars(MergeStep)

-----------------------------------------------------------------------------
(* Properties *)

(* The groups in which branches are dealt with, one after the other: found  *)
(* in HEAD, merged as clean, found to conflict, failed as clean.            *)
Group(m, t) ==
    IF t \in m.skipped THEN 0
    ELSE IF t \in m.hard THEN 2
    ELSE IF t \in m.late THEN 3 ELSE 1

(* Within each group, conflicted ones included, a branch is merged after    *)
(* the branches that its task needs, directly or not; one that comes before *)
(* what it needs is of an earlier group.  A task on a cycle has no order to *)
(* keep; nor has a plan with an id twice, of which the sort follows the     *)
(* first task for the loop and the last for the needs.                      *)
MergeFollowsDependencies ==
    LET m  == merge.merged
        ts == DoneTasks(merge.run)
    IN  UniqueIds(ts) =>
          \A i, j \in DOMAIN m :
             i < j /\ Reaches(ts, m[i], m[j]) /\ ~Reaches(ts, m[i], m[i]) =>
               Group(merge, m[i]) < Group(merge, m[j])

(* Every branch that was done when the merge loaded the run is merged, given *)
(* up, or still to be dealt with, once.                                     *)
EveryBranchIsReported ==
    merge.pc \notin {"idle", "asked"} =>
      LET all == merge.merged \o merge.clean \o merge.conflicted \o merge.conflicts
      IN  /\ Elements(all) = Named(DoneTasks(merge.run))
          /\ IsInjective(all)

(* What is reported as merged is in HEAD, but for a merge that met a tree   *)
(* with foreign changes or with another merge left open (by a crash, or by  *)
(* an abort or reset that git refused), or that the agent dropped.          *)
MergedIsInHead == Elements(merge.merged) \subseteq head.branches \cup fouled

(* A merge that tried any branch and reports no conflict leaves no merge    *)
(* open in the project and nothing unmerged, whatever it found there and    *)
(* whichever aborts were refused on the way.                                *)
NothingLeftOpen ==
    /\ merge.pc \in {"checks", "repair", "over"}
    /\ Elements(merge.merged) # merge.skipped
    /\ merge.conflicts = <<>>
    => Ready

(* Between repairs HEAD holds the commits of repairs that worked and no     *)
(* other, but for one that a crash kept from being verified or that git     *)
(* refused to reset.                                                        *)
FailedRepairsAreUndone == ~cascade.applied => head.repairs = known

(* The report of the merge and the project agree, in these four parts, and  *)
(* both have their types.                                                   *)
ReportMatchesProject ==
    /\ TypeOK
    /\ EveryBranchIsReported
    /\ MergedIsInHead
    /\ NothingLeftOpen
    /\ FailedRepairsAreUndone

(* A merge that was asked for comes to a verdict, whatever git, the agents  *)
(* and the checks say, unless the server dies: the repair cascade ends.     *)
MergeEnds == merge.pc = "asked" ~> merge.pc \in {"over", "idle"}

=============================================================================
