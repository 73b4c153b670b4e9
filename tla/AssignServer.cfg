CONSTANTS
    r1 = r1
    r2 = r2
    p1 = p1
    p2 = p2
    a1 = a1
    a2 = a2
    s1 = s1
    NoRelease = NoRelease
    NoProfile = NoProfile
    NoAssignment = NoAssignment
    Releases = {r1, r2}
    Profiles = {p1}
    Assignments = {a1, a2}
    ScopeOf <- AskAndChat
    ProfileOf <- OneProfile
    MaxLoaded <- OneEach
    Fit <- FitAll
    RegistryMoves = {"unverified"}
    Callers = {"server"}
    LateFailures = FALSE
    MaxInstances = 1
    MaxRestarts = 1
    Sessions = {s1}
    Roles = {"release"}
    PublicRoles = {"release"}
    MaxTurns = 1
    CanaryMax = 2
    Prompts = 2
    MaxVersions = 1
SPECIFICATION Spec
SYMMETRY Interchangeable
INVARIANT LoadedModelsAreRecorded
INVARIANT AnswersComeFromTheAssignment
CHECK_DEADLOCK FALSE
