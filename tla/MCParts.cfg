CONSTANTS
    MaxComponent = 2000000
    Files = {"a", "b"}
    Policies <- MCPolicies
    Plans <- MCPlans
    NoPlan = NoPlan
    BaseVersion = 1
    MaxEdits = 1
    MaxDeaths = 2
    p1 = p1
    p2 = p2
    Preps = {p1, p2}
    Requests <- MCRequests
    Versions = {101, 110}
    OtherTags = {}
    MaxMoves = 2
    Blob <- MCBlob
    MaxDepth = 1
    MaxVisited = 4
    Platforms <- MCPlatforms
    Archives <- MCArchives
    Version = 1
    Mergers = {m1, m2}
    MaxRewrites = 1
    NoOutput = NoOutput
    Targets <- MCTargets
    Budget = 2
    ReplayLimit = 2
    MaxAttempts = 2
    Operators = {o1, o2}
    Stable = {1, 2}
    Mapping <- MCMapping
    PyPI = "pypi"
    MaxChanges = 1
    Items <- MCItems
    ItemValues = {1, 2}
    Absent = Absent
    FieldPaths <- MCFields
    ToolCalls <- MCCalls
    Markers <- MCMarkers
    SSHConfigured = TRUE
    MaxUpdates = 2
    MaxCalls = 1
    Readers = {r1, r2}
    Properties = 2
    MaxReads = 4
    Callers = {c1, c2}
    Patterns = {pa, pb}
    BasePatterns = {pb}
    MaxSessions = 2
SPECIFICATION Spec
INVARIANTS
    InputsKeepAndAgree AcceptedMeansFuzzed RegistryHoldsApproved ReadsAreHonest
    ToolsAreOffered LostBusesAreFew NoSubscriptionLost
PROPERTIES
    SyncEnds PrepareEnds ForeignWorkIsKept NeverDowngrades OutputIsWhole
CHECK_DEADLOCK FALSE
