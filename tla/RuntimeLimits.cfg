CONSTANTS
    r1 = r1
    r2 = r2
    p1 = p1
    p2 = p2
    NoRelease = NoRelease
    NoProfile = NoProfile
    Releases = {r1, r2}
    Profiles = {p1, p2}
    MaxLoaded <- Limits
    RegistryMoves = {"released", "unverified", "withdrawn"}
    Callers = {"server"}
    LateFailures = TRUE
    MaxInstances = 3
    MaxRestarts = 1
SPECIFICATION RuntimeSpec
SYMMETRY Interchangeable
INVARIANT LoadLimitRespected
CHECK_DEADLOCK FALSE
