SPECIFICATION StartedSpec
CONSTANTS
    ta = ta
    tb = tb
    tc = tc
    td = td
    c1 = c1
    c2 = c2
    NoTask = NoTask
    Tasks <- PairTasks
    Deps <- FreeDeps
    Order <- PairOrder
    MaxWorkers = 2
    MaxAttempts = 2
    Clients <- OneClient
    Kinds = {"approve", "resume", "reopen"}
    MaxOps = 2
    Faults = {"crash", "spawn"}
    MaxCrashes = 2
INVARIANTS
    NoGhostRunning
    DoneIsEarned

