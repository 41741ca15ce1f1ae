SPECIFICATION FairSpec
CONSTANTS
    ta = ta
    tb = tb
    tc = tc
    td = td
    c1 = c1
    c2 = c2
    NoTask = NoTask
    Tasks <- FanTasks
    Deps <- FanDeps
    Order <- FanOrder
    MaxWorkers = 2
    MaxAttempts = 1
    Clients <- OneClient
    Kinds = {"approve"}
    MaxOps = 1
    Faults = {"stall"}
    MaxCrashes = 0
INVARIANTS
    NoLostExit
    RestingVerdict
    RecordWithinCapacity
PROPERTIES
    RunCloses
    ImplementsPlan
