CONSTANTS
    r1 = r1
    r2 = r2
    p1 = p1
    p2 = p2
    a1 = a1
    a2 = a2
    s1 = s1
    NoRelease = NoRelease
    NoProfile = NoProfile
    NoAssignment = NoAssignment
    Releases = {r1, r2}
    Profiles = {p1}
    Assignments = {a1}
    ScopeOf <- OnlyCanary
    ProfileOf <- OneProfile
    MaxLoaded <- OneEach
    Fit <- FitAll
    RegistryMoves = {"withdrawn"}
    Callers = {"server", "cli"}
    LateFailures = TRUE
    MaxInstances = 1
    MaxRestarts = 1
    Sessions = {}
    Roles = {"release"}
    PublicRoles = {"release"}
    MaxTurns = 1
    CanaryMax = 1
    Prompts = 1
    MaxVersions = 2
SPECIFICATION Spec
INVARIANT ActiveIsApproved
PROPERTY ServesOnlyApproved
CHECK_DEADLOCK FALSE
