------------------------------- MODULE PlanRun -------------------------------
(***************************************************************************)
(* What the conductor promises about one approved plan when nobody         *)
(* interferes: tasks start in dependency order and within the worker       *)
(* limit, a failure blocks the tasks that depend on it directly, and the   *)
(* run is closed when no task waits or works any more, with the right      *)
(* verdict once every outcome is known.                                    *)
(***************************************************************************)
EXTENDS Naturals, FiniteSets

CONSTANTS Tasks, Deps, MaxWorkers

VARIABLES
    status,  \* of the run
    phase    \* of each task

vars == <<status, phase>>

(* A "stalled" worker was given up on, its process may still be dying.     *)
(* "clean" and "broken" workers have exited, their outcome is not yet      *)
(* recorded: a clean one still has to be validated.                        *)
Phases == {"todo", "active", "stalled", "clean", "broken", "done", "failed", "blocked"}

InPhase(p) == {t \in Tasks : phase[t] \in p}

Init ==
    /\ status = "planning"
    /\ phase = [t \in Tasks |-> "todo"]

Approve ==
    /\ status = "planning"
    /\ status' = "running"
    /\ UNCHANGED phase

Start(t) ==
    /\ status = "running"
    /\ phase[t] = "todo"
    /\ Deps[t] \subseteq InPhase({"clean", "done"})
    /\ Cardinality(InPhase({"active"})) < MaxWorkers
    /\ phase' = [phase EXCEPT ![t] = "active"]
    /\ UNCHANGED status

GiveUp(t) ==
    /\ phase[t] = "active"
    /\ phase' = [phase EXCEPT ![t] = "stalled"]
    /\ UNCHANGED status

Exit(t) ==
    /\ phase[t] \in {"active", "stalled"}
    /\ \E p \in {"clean", "broken"} : phase' = [phase EXCEPT ![t] = p]
    /\ UNCHANGED status

RecordDone(t) ==
    /\ phase[t] = "clean"
    /\ phase' = [phase EXCEPT ![t] = "done"]
    /\ UNCHANGED status

RecordFailed(t) ==
    /\ phase[t] \in {"clean", "broken"}
    /\ phase' = [u \in Tasks |->
                   IF u = t THEN "failed"
                   ELSE IF phase[u] = "todo" /\ t \in Deps[u] THEN "blocked"
                   ELSE phase[u]]
    /\ UNCHANGED status

(* The verdict may be given while the outcome of a stalled or clean worker *)
(* is still open, and is then revised.                                     *)
Close ==
    /\ status # "planning"
    /\ InPhase({"todo", "active"}) = {}
    /\ \/ /\ InPhase({"stalled", "broken", "failed", "blocked"}) = {}
          /\ status' = "done"
       \/ /\ InPhase({"done"}) # Tasks
          /\ status' = "failed"
    /\ UNCHANGED phase

Next ==
    \/ Approve
    \/ \E t \in Tasks : Start(t) \/ GiveUp(t) \/ Exit(t) \/ RecordDone(t) \/ RecordFailed(t)
    \/ Close

Spec == Init /\ [][Next]_vars

=============================================================================
