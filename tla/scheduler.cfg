SPECIFICATION Spec
CONSTANTS
    ta = ta
    tb = tb
    Tasks <- TwoTasks
    Order <- TaskOrder
    Snapshots <- SomeSettings
    MaxAge = 1
    MaxTime = 2
    MaxRows = 3
    MaxSaves = 1
CHECK_DEADLOCK FALSE
INVARIANTS
    TypeOK
    RunsDoNotOverlap
    OpenRowsAreExplained
    SweepBoundsTheJam
    CaughtUp
    RegistryFollowsSettings
    NewestIsCancellable
