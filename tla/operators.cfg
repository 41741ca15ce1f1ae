SPECIFICATION StartedSpec
CONSTANTS
    ta = ta
    tb = tb
    tc = tc
    td = td
    c1 = c1
    c2 = c2
    NoTask = NoTask
    Tasks <- PairTasks
    Deps <- PairDeps
    Order <- PairOrder
    MaxWorkers = 1
    MaxAttempts = 2
    Clients <- TwoClients
    Kinds = {"approve", "dispatch", "kill", "kill_async", "cancel", "delete", "archive", "merge", "begin_merge", "reopen", "pm"}
    MaxOps = 2
    Faults = {"torn"}
    MaxCrashes = 0
SYMMETRY ClientSymmetry
INVARIANTS
    TypeOK
    DependenciesRanFirst
