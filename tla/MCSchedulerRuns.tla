--------------------------- MODULE MCSchedulerRuns ---------------------------
(* Two tasks and a few settings for model checking the scheduler. *)
EXTENDS SchedulerRuns, TLC

CONSTANTS ta, tb

TwoTasks  == {ta, tb}
TaskOrder == <<ta, tb>>

Task(cron, noOverlap, enabled, known) ==
    [cron |-> cron, noOverlap |-> noOverlap, enabled |-> enabled, known |-> known]

Of(enabled, a, b) == [enabled |-> enabled, task |-> (ta :> a @@ tb :> b)]

(* ta never overlaps, tb may; both are changed, disabled and broken once.   *)
SomeSettings ==
    { Of(TRUE, Task("a", TRUE, TRUE, TRUE), Task("a", FALSE, TRUE, TRUE)),
      Of(TRUE, Task("bad", TRUE, TRUE, TRUE), Task("b", FALSE, TRUE, TRUE)),
      Of(TRUE, Task("b", TRUE, TRUE, TRUE), Task("a", FALSE, FALSE, TRUE)),
      Of(TRUE, Task("b", TRUE, TRUE, FALSE), Task("a", TRUE, TRUE, TRUE)),
      Of(FALSE, Task("a", TRUE, TRUE, TRUE), Task("a", FALSE, TRUE, TRUE)) }

=============================================================================
