--------------------------- MODULE MCPlaybookRuns ---------------------------
(* Small playbooks for model checking the playbook engine.                  *)
EXTENDS PlaybookRuns

TwoRuns == 1..2

PhaseOf(type, deps, size) == [type |-> type, deps |-> deps, size |-> size, lenient |-> FALSE]

SmallPlaybooks == {
    \* two batches
    [skip |-> FALSE, phases |-> <<PhaseOf("parallel", {}, 3)>>],
    \* the first phase of the file runs second; the other may be passed over
    [skip |-> TRUE,
     phases |-> <<PhaseOf("sequential", {2}, 1),
                  [PhaseOf("human", {}, 1) EXCEPT !.lenient = TRUE]>>],
    \* a human who must answer, and another agent
    [skip |-> FALSE,
     phases |-> <<PhaseOf("human", {}, 1), PhaseOf("sequential", {1}, 1)>>],
    \* two iterations
    [skip |-> FALSE, phases |-> <<PhaseOf("handoff", {}, 2)>>],
    \* a phase that is left out after a gate
    [skip |-> TRUE,
     phases |-> <<PhaseOf("gate", {}, 1), PhaseOf("ignored", {1}, 1)>>] }

=============================================================================
