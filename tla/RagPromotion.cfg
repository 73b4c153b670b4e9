SPECIFICATION Spec
CONSTANTS
    s1 = s1
    s2 = s2
    r1 = r1
    r2 = r2
    Spaces = {s1, s2}
    HandMade = {s1}
    Requests = {r1, r2}
    SpaceOf <- TwoSpaces
    NoRequest = NoRequest
    NoProfile = NoProfile
    MaxCandidates = 2
    MaxApprovals <- UpToTwo
INVARIANTS OneActivePerSpace NewestIsServed OneBuildPerApproval
PROPERTIES FailureChangesNothing
CHECK_DEADLOCK FALSE
