SPECIFICATION Spec
CONSTANTS
    Workers <- TwoWorkers
    Providers <- ImapOutlook
    Credentials <- AllButPassword
    BatchSize = 2
    MaxMail = 3
    MaxRebuilds = 1
    MaxMishaps = 2
CHECK_DEADLOCK FALSE
INVARIANTS
    NoMailSkipped
    WorkerKeepsTrying
PROPERTIES
    RetiredStaysRetired
    ComesBack
