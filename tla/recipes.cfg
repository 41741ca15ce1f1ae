SPECIFICATION FairSpec
CONSTANTS
    sa = sa
    sb = sb
    sc = sc
    ca = ca
    cb = cb
    ia = ia
    NoId = NoId
    NoCall = NoCall
    Calls <- TwoCalls
    Ids = {ia}
    Steps <- ThreeSteps
    Recipes <- SmallRecipes
CHECK_DEADLOCK FALSE
INVARIANTS
    WavesAreSound
    PausedIffAnswerable
    RowIsExplained
    CancellableWhileRunning
    StreamEndsWithRun
PROPERTIES
    CancelEnds
    ImplementsPromise
