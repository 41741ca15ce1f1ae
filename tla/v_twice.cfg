SPECIFICATION StartedSpec
CONSTANTS
    ta = ta
    tb = tb
    tc = tc
    td = td
    c1 = c1
    c2 = c2
    NoTask = NoTask
    Tasks <- JoinTasks
    Deps <- ForkDeps
    Order <- JoinOrder
    MaxWorkers = 2
    MaxAttempts = 2
    Clients <- OneClient
    Kinds = {"kill"}
    MaxOps = 1
    Faults = {}
    MaxCrashes = 0
INVARIANTS
    OneProcessPerTask
