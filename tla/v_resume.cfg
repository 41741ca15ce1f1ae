SPECIFICATION StartedSpec
CONSTANTS
    ta = ta
    tb = tb
    tc = tc
    td = td
    c1 = c1
    c2 = c2
    NoTask = NoTask
    Tasks <- PairTasks
    Deps <- FreeDeps
    Order <- PairOrder
    MaxWorkers = 2
    MaxAttempts = 2
    Clients <- OneClient
    Kinds = {}
    MaxOps = 0
    Faults = {"crash"}
    MaxCrashes = 1
INVARIANTS
    InterruptedIsResumable
