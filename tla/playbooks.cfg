SPECIFICATION Spec
CONSTANTS
    Runs <- TwoRuns
    Playbooks <- SmallPlaybooks
    Batch = 2
CHECK_DEADLOCK FALSE
INVARIANTS
    ReportIsTrue
PROPERTIES
    AgentsStartInTurn
    RunEnds
