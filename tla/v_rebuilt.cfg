SPECIFICATION Spec
CONSTANTS
    Workers <- OneWorker
    Providers <- JustImap
    Credentials <- JustPassword
    BatchSize = 2
    MaxMail = 3
    MaxRebuilds = 1
    MaxMishaps = 1
CHECK_DEADLOCK FALSE
PROPERTIES
    RebuiltIsRefetched
