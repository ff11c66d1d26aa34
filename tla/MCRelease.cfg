CONSTANTS
    Runs <- MCRuns
    Bases = {1, 2}
    Commits <- MCCommits
    NumberFloor = 0
    BaseOf <- MCBaseOf
    TreeOf <- MCTreeOf
    ScopeVerified = FALSE
    Kinds <- MCKinds
    Assets <- MCAssets
    MaxJobs = 3
    MaxDeletes = 1
    LooseRuns = 2
SPECIFICATION Spec
INVARIANTS NumbersNeverShared FloorCoversPublic PublishedIsWhole
PROPERTIES PlansAreForever ImplementsLog
CHECK_DEADLOCK FALSE
