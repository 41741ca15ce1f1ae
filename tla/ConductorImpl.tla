---------------------------- MODULE ConductorImpl ----------------------------
(***************************************************************************)
(* The conductor left to itself (approval is the only request, one session *)
(* per task, no crash) implements PlanRun.                                 *)
(***************************************************************************)
EXTENDS Conductor

(* What the first session of a task and run.json say about it. *)
PhaseOf(t) ==
    LET s == sess[<<t, 1>>]
    IN CASE s.pc = "unused" -> IF disk.w[t].st = "blocked" THEN "blocked" ELSE "todo"
         [] s.pc = "live" -> IF s.st = "stuck" THEN "stalled" ELSE "active"
         [] s.pc \in {"validating", "queued"} ->
              IF ExitedCleanly(<<t, 1>>) THEN "clean" ELSE "broken"
         [] s.pc \in {"settled", "lost"} -> IF s.st = "done" THEN "done" ELSE "failed"

Plan == INSTANCE PlanRun WITH status <- disk.status,
                              phase  <- [t \in Tasks |-> PhaseOf(t)]

(* Every step of the conductor is a step of PlanRun, or none: the lock,    *)
(* the snapshots, the validation and the whole-record writes together give *)
(* dependency order, the worker limit and the verdict that PlanRun states. *)
ImplementsPlan == Plan!Spec

=============================================================================
