SPECIFICATION Spec
CONSTANTS
    e1 = e1
    e2 = e2
    format = format
    ai = ai
    Ids <- ThreeIds
    Editors <- TwoEditors
    InitialPlans <- SomePlans
    PostedPlans <- SomePosts
    MaxEdits = 2
    Steps <- TwoSteps
    Strategies <- TwoStrategies
    AI = ai
    MaxMerges = 2
    MaxRequests = 3
    MaxMishaps = 1
CHECK_DEADLOCK FALSE
INVARIANTS
    ReferencesHold
    MergeFollowsDependencies
    ReportMatchesProject
PROPERTIES
    MergeEnds
